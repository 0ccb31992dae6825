# Shingeki in TLA+

Shingeki runs security scans of a user's systems. An API takes the request, a
worker attacks the running target (DAST) or reads its repository (SAST), a
consumer stores what the worker reports, and a web client shows it: the user
signs in, sets up projects and systems, starts scans, reads their results, asks
for corrections and is told by a bell how it went. This directory specifies that system in TLA+, checks it with
TLC on small instances and proves theorems about it with TLAPS. Paths are
relative to the repository.

Every invariant and every action property of a passing run is also a theorem, for
every value of the constants that the named assumptions allow. TLC alone checks
the five liveness properties (`ScanFinishes`, `FinishedIsAnnounced`, `ImportEnds`,
`OwnerIsTold`, `JobIsSeenToEnd`), which need fairness.

## 1. Inventory

### Parts, state and operations

| Part | Where | State it keeps | Operations | What is hard |
| --- | --- | --- | --- | --- |
| Dispatch API | `apps/api/app/Http/Controllers/Attack/AttackController.php`, `.../System/SystemResultController.php` | `attack_dispatches`, `attack_acknowledgments`, a message in `attacks.dispatch` or `attacks.sast.dispatch` | POST dispatch, DELETE dispatch, DELETE all | four writes, and three deletes, without a transaction |
| DAST worker | `workers/dast` | the unacknowledged batch, findings already published, counts | receive, discover, leak scan, attack, publish, complete, ack | redelivery of a whole batch, publishes that fail half way, a completion that is only logged when it fails |
| SAST worker | `workers/sast` | the unacknowledged batch, the clone | clone, scan, publish, complete, ack or reject | as above with another acknowledgement policy |
| Results consumer | `ConsumeAttackResultsCommand`, `AttackResultProcessor`, `AttackProbeProcessor`, `AttackDispatchCompletionProcessor` | `system_results`, `dispatch_probes`, outcome of `attack_dispatches` | store a result, a probe, a completion; delete or release the message | look-up and insert are separate, release is copy then ack, foreign keys may fail |
| Notification inbox | `UserNotificationService`, `UserNotificationController`, `use-notifications.ts` | `user_notifications` | track, finalise, reconcile, read, delete | two finalisers write from stale loads |
| Catalog import | `CatalogImportService`, `ConsumeCatalogImportsCommand` | `catalog_imports`, catalog rows, two queues | queue chunks, process a chunk | counters computed from a stale read, order of chunks |
| User administration | `AdminUserService` | `users.role` | change role, delete | count without lock |
| Cover library | `UserCoverLibraryService` | `user_cover_uploads`, files | upload, choose, delete, release | check-then-act on limit and on use |
| Sidebar navigation | `SidebarNavigationService` | `user_navigation_pins` | sync | read-then-insert |
| AI remediation | `AiRemediationService` | `ai_remediation_suggestions` | generate, regenerate | delete before the call |
| GitHub remediation | `GitHubRemediationService`, `GitHubApiClient`, `CodePatchApplier` | branch, commits, pull request, its record | open, preview | branch reset against an accumulating record |
| Attack engine | `workers/dast/internal/attack` | job list, baseline cache | plan, cap, execute | concurrent cache, round robin |
| Discovery | `workers/dast/internal/discovery` | frontier, visited, budget | push, pop, filter | budget and depth at their limits |
| Evidence, secrets | `workers/dast/internal/evidence`, `secrets` | none | match | none (pure text) |
| Client: queries | `apps/client/lib/hooks`, `lib/query-keys.ts`, `app/providers.tsx` | the cache of server data, requests and mutations on their way | fetch, poll, retry, invalidate, set, remove | an answer older than the write it lands after; polling that depends on the last answer |
| Client: session | `apps/client/proxy.ts`, `app/api/auth`, `lib/auth`, `components/layout` | cookies, the user and data of a tab, `sessionStorage` | sign in, register, Google, sign out, expiry | tabs share cookies and nothing else; answers are lost |
| Client: guided setup | `components/onboarding`, `lib/onboarding` | its session, the dismissal, the page | steps, creations, closing, reopening, reloading | five ways into each step, creations that land late |
| Client: sidebar | `components/settings`, `components/layout/projects-sidebar-nav.tsx` | the query, the form over it | drag, hide, save, page | what is saved is renumbered and sorted four times; reads and saves cross |
| Client: lists | `app/(app)/auditoria`, `admin/users`, `components/notifications`, `results/dispatches-list.tsx`, cards | page, filters, dialogs, mutations on their way | turn, filter, ask, delete | a handler that goes on after its `await` |
| Client: results page | `.../resultados/[dispatchId]/page.tsx`, `components/results` | filters, two pages, the copy, the dialogs | filter, copy all, export, delete | pages that move while they are read |
| Client: remediation panel | `components/remediation` | two lists, the preview, the pull request | generate, regenerate, preview, open | what was reviewed may not be what is sent |
| Client: cover pickers | `components/cover`, `auth/profile-form.tsx` | file, upload, stock image, crop | choose, download, crop, remove, save | downloads that land after the user has chosen something else |
| Client: the rest | `components/attack`, `manual-proxy`, `landing`, charts, icons | none | one request and its answer | presentation |

### How they interact

    client --POST--> Dispatch API --attacks.dispatch--> DAST worker
                          |                                  |
                          | MySQL rows                       | attacks.results
                          v                                  v
    client <--poll-- Notification inbox <--------- Results consumer

The API and the consumer share the database; the worker knows it only through
its two queues. The client has no tie to either but HTTP: its route handlers
exchange credentials for a cookie and forward requests with the cookie's token,
and everything a page shows comes from its cache of answers. Mutations mark
parts of that cache, and pages keep state of their own over it; those two
seams are where its hazards are. Each of `attacks:consume-results`, `catalog:consume-*` runs as
one process under supervisord. `docker-compose.prod.yml` starts two containers
of the DAST worker and one of the SAST worker, each with a prefetch of one.

### What makes each part correct

- Dispatch API: no worker is given a batch before the user's acceptance of
  responsibility is on record; DELETE leaves nothing of the dispatch behind.
- Worker: every batch ends in exactly one kind of outcome, with counts that
  match what it published; nothing published is forgotten by a redelivery.
- Consumer: one row per dispatch, attack and canonical route; nothing the
  broker accepted is lost; a dispatch is completed or failed, never both.
- Inbox: an outcome is announced after it is on record, a finished scan does
  not stay pending, and the notification agrees with the dispatch.
- Catalog import: the counters agree with the catalog, no chunk is lost, an
  import ends, stays ended, and its owner is told once.
- Client: a tab shows one user; what a user did is not shown as if it had not
  happened; a page that shows a job as running comes to show its end; no step,
  page or dialog stands for something that is not there; a dialog closes on
  the answer to its own question; what is saved or sent is what was on screen.
- User administration: at least one administrator remains.
- Cover library: the limit holds, no cover in use loses its file.

`PROJECT.json` lists the hazards at the line where they bite, with the
properties that cover them. More of them that no property covers yet:

- `AttackProbeProcessor.php:80`: a probe has no look-up of an existing row, so a
  redelivered batch stores its probes twice.
- `UserNotificationService.php:57`: a finaliser writes `read_at = NULL` when what
  it loaded was read, over what the user has just marked.
- `workers/dast/internal/config/config.go:127`: the job timeout of 30 minutes is
  RabbitMQ's default `consumer_timeout`.
- `workers/dast/internal/queue/publisher.go:41` and `:149`: a channel the broker
  closed is kept while its connection is up; a publish that failed is repeated
  on a new connection although the first may have arrived.
- `workers/dast/internal/attack/worker_pool.go:144`: the baseline cache is looked
  up and filled by concurrent jobs.
- `UserCoverLibraryService.php:50` and `:162`: the limit is counted before the
  insert, and a file is checked to be unused before it is deleted.
- `AiRemediationService.php:120`: a regeneration deletes the suggestion before it
  has the new one.

## 2. Plan

1. (done) `ScanState`, `DispatchApi`, `DastWorker`, `NotificationInbox`,
   `ResultsConsumer`, composed in `ScanDispatch`; abstract `ScanLifecycle`.
2. (done) `CatalogImport`.
3. (done) The web client: `QueryCache`, `WebSession`, `GuidedSetup`,
   `SidebarSettings`, `ListPages`, `ResultsPage`, `RemediationPanel`, `CoverPicker`.
4. (done) Proofs for the scan dispatch, the import, the guided setup, the session
   and the remediation panel.
5. `AdminUsers` and `CoverLibrary`, and the statements inside
   `syncForUser`: the concurrent request handlers of the API.
6. `SastWorker` on `ScanState`, with its rejection policy, and
   `PublisherConnection`, the reconnecting publisher of both workers.
7. `AttackPool` (worker pool and baseline cache), `JobPlanning` (mapping and
   capping of jobs as a pure algorithm), `CrawlFrontier` (queue and budget).
8. The branch and the record of a pull request (`GitHubRemediationService`),
   `PatchMerge`, `DispatchCompare`.
9. (done) Proofs that a completed scan is stored, of `OwnWritesSeen`, and about the
   lists, the results page and the picker.
10. (done) Proofs about the sidebar, its settings and Google's redirect.

## 3. The scan dispatch

### Modules

`ScanState` declares the variables all components share: one per table, queue
or process, and two history variables (`sent`, what the broker accepted, and
`released`, whether the consumer ever put a message back at the tail).
A *finding* is an (attack, canonical route) pair, the identity
`AttackResultProcessor` looks a result up by.

`DispatchApi` has one action per write of `AttackController::dispatchScan`
(`StoreDispatch`, `StoreAcknowledgment`, `PublishBatch`, `TrackPending`) and one
per statement of `SystemResultController::destroy` (`DeleteResults`,
`DeleteProbes`, `DeleteRow`, the last with what the foreign keys do). `request`
and `deletion` are the program counters of the two requests.

`DastWorker` is `Consumer.handleDelivery` around `Pipeline.Run`, once for each
of the `Workers` that compete for the queue. `worker[w].stage` is where the
delivery of `w` is: `received` (parse, validate, ping, discover),
`secrets` (`publishSecretLeaks`), `job` and `jobProbe` (the loop over the
responses: a result and its probe are two publishes), `failed` (an error is on
its way to the deferred completion) and `completed` (to be acknowledged). The
identities already published and the counts are local to a run, so they start
again at a redelivery. `Rejected` are the dispatches whose batch the worker's
own validation refuses although the API's accepted it: Laravel's `url` rule
lets through targets that `Validate` does not.

`ResultsConsumer` takes one message at a time and runs the processor of its
event. Every SQL statement is an action, so that DELETE, the inbox and the
faults run in between. A message whose dispatch is gone raises, is released,
and comes round again for ever, as in the code.

`NotificationInbox` has the reconciliation that every poll starts with and
what the user does in the inbox. An Eloquent update writes the attributes that
differ from what was loaded; `Finalized` is that update applied to the row as
it is by then.

`ScanDispatch` joins them, states the properties, and maps the tables to
`ScanLifecycle`, the four-state promise of a scan.

### Faults

`Faults` chooses what the environment may do, `MaxFaults` bounds how often:
`crash` (the worker or the consumer dies and the broker puts the message back
at the head), `publish` (a result or probe fails to publish, `Run` returns the
error), `completion` (the completion fails to publish) and `database` (a
statement of the consumer throws). The API needs no fault: none of its actions
is fair, so a request may stop between any two of its writes.

### Fairness

`FairSpec` adds weak fairness of each worker, of the consumer and of each
session's bell. A worker's container restarts on exit
(`docker-compose.yml`), the consumer's under supervisord, and the client polls
every 20 seconds. (supervisord gives up after ten failed starts in a row; that
is outside the fairness assumed.) Requests are never owed.

### Runs

All runs use `MCScanDispatch`; a finding, a token and a job are model values,
and two or three of them are enough for a repeated identity (two jobs that hit
one route) and two messages in either order.

| Run | Instance | Shows |
| --- | --- | --- |
| `ScanRedelivery` | one scan, one token, two jobs on one route, all faults, at most two | the tables agree with what was reported: `NoDuplicateResults`, `OneOutcome`, `NoResultLost`, `CompletedIsStored` |
| `ScanAcceptance` | two scans, two workers, one scan refused by the worker, one deletable, crashes and lost completions | `AcceptedBeforeScanned` and the refinement of `ScanLifecycle` |
| `ScanProgress` | two scans and two workers on the shared queues, one scan deleted | every published scan ends, although messages of the deleted one circulate |
| `ScanInbox` | one scan that may be deleted, two sessions, failed publishes and statements | inbox and scan agree, and it does not stay pending |
| `ScanLostCompletion` | one scan, a completion that fails to publish | violation: the scan stays pending |

Two faults are enough for a redelivery of a redelivery or for a crash in the
middle of the recovery from another fault; a third repeats one of the two.
The queues are not bounded by a constraint: what may be published bounds them.
The two workers matter where there are two batches to run at once; with one
scan a second worker would only rename the first. Deadlock is not checked: a
scan that ended and an empty queue is a quiet system.

Known divergences from the documentation, all of them behaviours of the model:
a result that the consumer stores while DELETE runs survives it
(`docs/api/ATTACKS-AND-RESULTS.md:162` says DELETE removes the results), and
the notification of a dispatch that was deleted before its scan ended stays
pending for ever (`docs/api/NOTIFICATIONS.md:65`). `ScanLostCompletion` is one
TLC finds by itself.

Three limits of these properties are deliberate. `CompletedIsStored` is claimed
as long as no message was released: a release sends a result behind its own
completion. It is checked with one token: a run counts two tokens that leak
on one route as two findings, while the table keeps one row of them.
`NotificationAgrees` is claimed without crashes: a worker that crashes between
its completion and its acknowledgement runs the batch again, may report another
outcome, and a session that read the first one may write it last. Publish and
database faults, which the run and the theorem include, do not break it.

### Proofs

TLAPS proves, for every value of the constants that satisfies
`ScanAssumption`:

| Theorem | Statement | Argument |
| --- | --- | --- |
| `Typing` | `Spec => []TypeOK` | `TypeInv` adds that a busy worker or the busy consumer holds a real dispatch or message: a requeue puts it back into a typed queue |
| `OneRow` | `Spec => []NoDuplicateResults` | `InsertFree`: a result at its insert has no row. The look-up established it and nobody else inserts |
| `SingleOutcome` | `Spec => []OneOutcome` | a completion writes both columns |
| `AcceptedFirst` | `Spec => []AcceptedBeforeScanned` | `QueuedInv`: what is in a queue or in a process was published by its request; `RowInv`: what was published was acknowledged, as long as the row is there |
| `NothingLost` | `Spec => []NoResultLost` | `HandedBack`: a result about to be acknowledged is stored or queued again; `StageKind`: only completions skip the insert |
| `CompletedStored` | `OwnPairs` implies `Spec => []CompletedIsStored` | `OrderInv`, below |
| `NoticeAfterOutcome` | `Spec => OutcomeBeforeNotice` | `NoticeInv`: whoever is about to write a notification saw an outcome, and `SettledStays`: a dispatch that had one keeps one or is deleted |
| `InboxAgrees` | `"crash" \notin Faults` implies `Spec => []NotificationAgrees` | `OnceInv`, `OutcomeInv` and `AgreeInv`, below |
| `Refinement` | `Spec => ImplementsLifecycle` | each step maps to a step of `ScanLifecycle` or a stutter, from `QueuedInv` and `RowInv` |

`CompletedStored` is an argument about the order of one queue. `RunInv` says that
the counters of a run are the sizes of what it published, `OrderInv` that each of
these counters is covered: a completion by the rows, the message in hand and the
messages in front of it (`CompletionCovered`), the completion in hand by the rows
(`HandCovered`), a running worker by everything that has arrived (`RunCovered`).
Each step of the queue shifts positions and keeps what is before them
(`StandingMoves`, `TakingMoves`, `ReturningMoves`). Its hypothesis `OwnPairs` says
that there are finitely many pairs and that a token's pair is its own, shared with
neither another token nor a job; without it the statement is false, because a run
counts two tokens that leak on one route as two findings while the table keeps one
row of them. Jobs may share a pair, since the run remembers what it has published.

`InboxAgrees` rests on a batch being in one place (`OnceInv`), so that a dispatch
gets one completion, possibly in several copies after a release (`OutcomeInv`).
`OutcomeStays` follows: the outcome of a row does not change before the row goes.
Then what the consumer has in hand, and what a session read when it listed the
finished dispatches, is still the outcome when it is written, however late that is
(`AgreeInv`, which also says that there is no notification of a dispatch yet to be
created). Its hypothesis is about `Faults`, the kinds of fault the environment may
inject; with crashes the statement is false, as said above.

`QueueLemmas` holds the lemmas on queues (append, take, requeue) that all proofs
use; `ScanDispatch_proofs` the types, the invariants on rows and the refinement;
`ScanDelivery_proofs` what the queues, the consumer and the inbox promise together.
No theorem rests on an unproved fact other than `ScanAssumption`, which TLC
evaluates in each run.

Model-checked only: liveness, which TLAPS does not reach.

### Not modelled

`deleteAll` repeats `destroy` for the dispatches of a system. A second DELETE
while one runs, a message the broker confirms to nobody and loses, and a
publish retried after it had succeeded (`publishJSON` sends the same message
again on a new connection) are left out. The job timeout of 30 minutes equals
RabbitMQ's default `consumer_timeout`; two runs of a batch side by side, which
that allows, are not in the model. Scopes, payloads, evidence and routes are
data the properties do not tell apart.

## 4. The catalog import

### Module

`CatalogImport` is the upload (`CatalogImportService::queueImport`), the
consumer (`ConsumeCatalogImportsCommand`, `processMessage`), the notification
of an import and the deletion of its owner's account
(`AdminUserService::delete`).

- An upload stores the row (`StoreImport`), pushes one message per chunk
  (`PushChunk`) and stores the pending notice (`TrackPending`): three kinds of
  write without a transaction. A sheet in `Invalid` is stored as failed
  (`RefuseSheet`) and its owner told (`TellRefused`). `request` and `pushed` are
  the request's program counter; requests are not fair.
- A chunk is how many of its rows the database takes (`good`) and refuses
  (`bad`), which is all that `processMessage` does with them. The loop over the
  rows is inside one transaction, and MySQL keeps a transaction usable after a
  refused row, so `StoreChunk` is one step. The read of the import is not in
  the transaction and is a step of its own, `ReadImport`.
- A message that raises is released: `ReleaseChunk` puts a copy at the tail,
  `AckChunk` acknowledges. The account may be deleted between any two steps:
  `findOrFail` throws then, or `fresh()` is null and the transaction rolls back.
- `Polled` is the order of the two queues. Each round starts with the attacks
  queue.
- `Latest` is `findForSubject`: `created_at` has no fraction of a second, so with
  two notices either may be the latest (`sameSecond`).
- `Reconcile` is the client's poll for one import. Its steps in between are the
  subject of `NotificationInbox` and are not repeated here.

`committed` (how often a chunk's transaction committed), `released` and
`crashed` are history variables. `Faults` has `crash` (the consumer dies, the broker puts
the message back at the head) and `database` (a statement outside the per-row
`try` throws, and the transaction rolls back).

### Runs

All runs use `MCCatalogImport`.

| Run | Instance | Shows |
| --- | --- | --- |
| `ImportRedelivery` | two sheets of two chunks on two queues, one owner deletable, two faults of either kind | `CountsAgree`, `NoChunkLost`, `ChunkExactlyOnce`, `FinishedIsComplete` |
| `ImportProgress` | three sheets, one refused, two crashes, fair | `ImportEnds`, `OwnerIsTold` |

Two chunks make one that is last and one that is not, and two sheets two
queues. Two faults are enough to release
or redeliver a chunk twice. Deadlock is not checked: finished imports and empty
queues are a quiet system.

The properties have limits that the code sets. Under crashes a chunk may be
stored twice (`ChunkExactlyOnce` is claimed without them); `CountsAgree` still
holds, because the counters move in the transaction that creates the rows, and
because supervisord runs one consumer. `FinishedIsComplete` is claimed as long
as nothing was released, for a release puts an early chunk behind the last one.
`ImportProgress` has no failed statements for the same reason, and no deletions.
Its sheets end completed. Each of these limits is a divergence:

- A chunk that was released and is handled after the last one sets a completed
  import back to `processing` (`docs/api/CATALOG-BULK-IMPORT.md:43`).
- An import that fails before its pending notice is stored gets two notices
  (`docs/api/NOTIFICATIONS.md:7`), of which the reconciliation, when both have
  the same second, may always find the wrong one.
- The chunks of a deleted account throw and are released for ever. They are in
  the queue that is polled first, so that the second queue is never polled.

`FairSpec` assumes that supervisord starts the consumer again when it exits and
that a session of the owner keeps polling.

### Proofs

`CatalogImport_proofs` proves, for every value of the constants that satisfies
`ImportAssumption`:

| Theorem | Statement | Argument |
| --- | --- | --- |
| `Typing` | `Spec => []TypeOK` | `TypeInv` adds that a busy consumer holds a chunk |
| `CountersAgree` | `Spec => []CountsAgree` | `LoadedInv`: what the consumer read before its transaction is still the row, unless the row is gone; it needs `UploadInv` and `KnownInv`, by which the row of a chunk in hand is never created afresh |
| `NothingLost` | `Spec => []NoChunkLost` | `StepKeeps`: a release queues the copy before it lets go, a crash puts the chunk back, and only a commit ends a chunk |
| `ExactlyOnce` | `Spec => []ChunkExactlyOnce` | `HomeInv`: a chunk is queued only in the queue of its kind; `OnceInv`: without crashes it has one place at most, in that queue or in hand, and none once it is committed (`Single`); `NothingLost` gives the other half |
| `FinishedLast` | `Spec => []FinishedIsComplete` | `OrderInv`: until the first release a queue holds the chunks of an import in the order of the sheet (`QueueInOrder`), those before the one in hand are stored (`HandInOrder`, `AckStored`), so the last one completes a whole import (`FinishedStored`) |

`LoadedInv` is where the proof uses that there is one consumer: `StoreChunk` is
the only action that moves counters. Model-checked only: liveness.

### Not modelled

Parsing and validation of a sheet (the set `Invalid`), the width of the counters
(unsigned smallint), reading and deleting import notices in the inbox.

## 5. The web client

The client is eight modules, one per part of `apps/client` that keeps state of
its own. A page of the client does not touch another page's state but through
the cache, the cookies and the server, so each module is closed by what those
may do to it: another tab, other users, the workers, requests that fail.

### Modules

`QueryCache` is TanStack Query (and Apollo, for the sidebar) under the hooks of
`lib/hooks`. `Key`, the `...Reads` and the `...Writes` are the hooks one by one:
the key of each query and what its answer is computed from, what each mutation
changes on the server, and what its `onSuccess` invalidates, sets and removes.
The library itself (`Mount`, `Land`, `Fail`, `Invalidated`, `AfterSet`, ...) is
modelled from how the hooks configure and use it and marked external. Queries
do not touch each other in the cache, so a behaviour follows one of them, chosen
at the start, against any mutation. `missed` is the set of writes an answer does
not have.

`WebSession` is who is signed in: the route handlers under `app/api/auth`, the
cookies, `proxy.ts`, `resetClientAuthCache`, the hooks of `use-auth.ts` and the
header. One tab is followed in full; the others are what they do to the cookies.

`GuidedSetup` is `guided-setup-flow.tsx` with the button that reopens it:
`session` is `sessionStorage`, `nav` the sidebar query as last fetched, `creating`
the creation on its way. Its actions are the handlers; `Synced` is the effect
that writes the ids of a page into the session.

`SidebarSettings` is the sidebar query with its refetches, the settings form
with drags, toggles and saves, `syncForUser` and `forUser` behind it, and the
paged sidebar. An order goes through `flattenGroups`, the service, `buildTree`
and `groupItems`, all translated.

`ListPages` is the seven pages that list, filter and delete. They are one
machine whose parts each page has or has not (`list` says which it is): pager,
filters that apply at once, with a button or after 300 ms, a dialog, mutations
and what the hooks wait for before they settle.

`ResultsPage` is the page of one dispatch, with the loop that copies all
findings page by page while the scan goes on, the export and the deletion.

`RemediationPanel` is the panel with its two lists, the preview that is asked
for again at every render while its dialog is open, the pull request, and what
`AiRemediationService` keeps, uses again and discards.

`CoverPicker` is `CoverUpload` with its pickers in the three forms that use it.
What the API answers is open: any upload may be in the library, and it may be
full at any time.

`MCClientSession` joins `WebSession` and `RemediationPanel` for TLC,
`MCClientSetup` `GuidedSetup` and `SidebarSettings`, `MCClientLists` the other
three. Their state is disjoint, so their product would show nothing that one
alone does not: `part` chooses what a behaviour is about.

### Runs

| Run | Instance | Shows |
| --- | --- | --- |
| `ClientCache` | any of 23 queries, any two of 29 mutations that touch it | `OwnWritesSeen`; `JobIsSeenToEnd` under fairness |
| `ClientSession` | two users, two tokens, one fault, a wide window; two findings of two texts | `OneUserPerTab`, `SetupIsOwn`, `GoogleOwnRedirect`; `PrIsReviewed`, `OnePr` |
| `ClientSetup` | two projects and two systems to create; two projects with two systems to sort, two edits, one change from outside | `StepEarned`, `SystemInProject`, `ClosedStaysClosed`; `CleanIsStored`, `SidebarIsCurrent`, `SavedIsShown` |
| `ClientLists` | three rows on pages of two, two mutations at once; three findings and two probes on pages of one, one removal; two uploads, files and stock images, two downloads | `PagesExist`, `DialogIsAnswered`, `NeverDeletedTwice`; `CopyIsWhole`; `OneSource` |
| `ClientLockout` | as `ClientSession`, a narrow window | violation: a tab that is told its session expired has no way to the sign-in form |

Why these bounds suffice. Two mutations are one that an answer misses and one
whose response or invalidation lands over it; a third repeats one of them. Two
tokens are an old session and a new one, and with two users those may be of one
or of two people. Two projects with two systems have a system of another project
to confuse, and an order among projects as well as among systems. Three rows on
pages of two have a last page that one deletion empties; three findings on pages
of one have a middle page that a new finding moves. Two downloads are one that
lands late over the other. Deadlock is not checked: a page at rest is no error.

Fairness is stated for `QueryCache` alone: a poll that is due is sent
(`refetchInterval`), and a request that is tried for ever is at last answered
and its answer lands. Users and mutations owe nothing.

History variables mark the cases in which a promise is known not to hold, so
that the property claims all others: `switched` and `drifted` (another tab, or a
lost answer, changed the session), `gaps` (the guide was left with a system of
another project, or reopened without one), `left` (items went since the first
page), `blurred` (a request failed, another tab saved, or a read and a change
crossed), `unsaved` (a save failed or was overtaken by an edit), `moved`
(texts that were written anew), `hidden` (a section was hidden over a download),
`outlived` (an answer that was on its way before the write). `LeftBehind` in
`QueryCache` names the pairs of mutation and query no hook refreshes.

### Proofs

`ClientSetup_proofs` extends the module the run checks. About the guide it proves,
for every set of projects and systems that satisfies `SetupAssumption` (`NoId` is
the id of nothing):

| Theorem | Statement | Argument |
| --- | --- | --- |
| `SetupTyping` | `SetupSpec => []SetupTypeOK` | with `LedToItself`: a page a step leads to is one of the ids |
| `EveryStepEarned` | `SetupSpec => []StepEarned` | a creation is of the page load that sent it (`creating # Idle => booted`) and that of a system began in a project, which only the automatic start forgets |
| `OwnSystem` | `SetupSpec => []SystemInProject` | a system is never set without a project, so one that is created again elsewhere is not the guide's |
| `StaysClosed` | `SetupSpec => ClosedStaysClosed` | `StepOpens`: only the automatic start and the button open a guide |

`GuideInv` is the inductive invariant: types, the facts above, and that an open
guide is not completed, without which `Synced` would skip a page of an open
guide. `NavigationKeeps` is the common step of all buttons and answers.

About the sidebar and its settings it proves, for every number of projects and
systems, size of a page and bound that satisfies `SidebarAssumption` (no system
exists at first without its project):

| Theorem | Statement | Argument |
| --- | --- | --- |
| `CleanForm` | `SidebarSpec => []CleanIsStored` | `FormInv`: an open form is of what the query has and has all of it; groups it does not call unsaved are stored, on their way, or about to be shown again |
| `CurrentSidebar` | `SidebarSpec => []SidebarIsCurrent` | `CurrentInv`: until something is lost or crosses, one thing is on its way at a time and what was answered is what is stored |
| `SavedOrder` | `SidebarSpec => SavedIsShown` | `RoundTrip`: `GroupItems(FlattenGroups(g)) = g` for every well-formed form; `TreeIs` and `KeptAlike`: a tree is determined by the order of each level, which an answer keeps of the rows that were sent |
| `SidebarTyping`, `ClientTyping` | `SidebarSpec => []SidebarTypeOK`, `ClientSpec => []TypeOK` | `PageInv`: every step that changes the data clamps the page (`PagesAre`, `NavigatePage`: a row within the tree is on one of its pages) |

`SidebarInv` joins the first two with the shapes of the state, of which
`IsGroups` is the one that matters: each level of the form has every item once,
and dragging (`MovedOneToOne`, from `Removed` and `PutBetween`) and toggling keep
that. `Before` is a strict total order (`SortedIs`), so that sorting has one result,
and the place of an item in it is how many come before it (`PlaceIsRank`, by
counting and not by induction).

`ClientSession_proofs` proves, for every set of tabs, users and pages, every
number of tokens and faults, and all pages of findings and texts that satisfy
`RemediationAssumption` (there is a first page, an empty one for a scan without
findings, and the AI writes at least one text of a finding):

| Theorem | Statement | Argument |
| --- | --- | --- |
| `SessionKept` | `SessionSpec => []SessionInv` | types; a sign-in that was served has a token of the one who signed in, whoever signs in or out meanwhile |
| `OneUser` | `SessionSpec => []OneUserPerTab` | `OneInv`: all users a tab names (`Named`: in its data, its `me`, the request it waits for, the owners of the cookie and of the token it sent) are one, unless the cookie was switched behind its back; steps that only take names away keep it (`Narrows`), those that bring a new session clear the cache and the request first |
| `OwnSetup` | `SessionSpec => []SetupIsOwn` | `OwnInv`: the setup in `sessionStorage` is of every user the tab names, unless the session drifted |
| `OwnRedirect` | `SessionSpec => GoogleOwnRedirect` | `TripInv`: a code is only of a tab that is away at Google, which posts nothing; while the cookies hold the nonce of its attempt they hold the page it was going to, since every other start draws a nonce of its own and every callback takes both away |
| `PanelTypes` | `PanelSpec => []PanelTypeOK` | `PanelInv`: types, and the hook waits as long as a pull request is on its way |
| `PullsAreReviewed` | `PanelSpec => []PrIsReviewed` | `ReviewInv`: the preview a dialog shows has the texts that are stored, except those that moved (`PreviewOk`); what is sent inherits that, and remains true of it however the store changes, since every write tells the requests on their way (`PullOk`) |
| `OnePull` | `PanelSpec => []OnePr` | from `PanelInv`: `Confirm` needs a hook that does not wait |
| `ClientTyped` | `Spec => []TypeOK` | `SessionKept`, `PanelTypes`, by `AloneSession`: each part of the product behaves as it does alone |

`Fresh` is why `PullsAreReviewed` holds: a text is what the preview showed
because it is stored, and what is stored is used again and not written anew.

`QueryCache_proofs` proves, for any number of mutations:

| Theorem | Statement | Argument |
| --- | --- | --- |
| `CacheTypes` | `CacheSpec => []CacheTypeOK` | `TypeInv` adds the types of `write` |
| `WritesAreSeen` | `CacheSpec => []OwnWritesSeen` | `WritesRefresh`: every mutation refreshes every query that reads what it changes, or the pair is in `LeftBehind`; `CacheInv`: an answer on its way that misses a settled write is marked late, a response never misses its own mutation, and the list of projects is never asked for without the user |

`WritesRefresh` goes through all hooks, file by file (`ProjectWritesRefresh`, ...),
by what reads each resource (`ReadersAreKnown`) and by which keys are prefixes of
which (`KeyPrefixes`, from lemmas on sequences). `Sound` is stated of any entry and
request, so that each part of `onSuccess` (`SetKeeps`, `InvalidateKeeps`,
`RemoveKeeps`) is one lemma and `SettleExcuses` composes them.

`ClientLists_proofs` extends the module the run checks, and proves for every number
of items, size of a page and bound that satisfies `ListAssumption`,
`ResultsAssumption` and `CoverAssumption`:

| Theorem | Statement | Argument |
| --- | --- | --- |
| `WholeCopy` | `ResultsSpec => []CopyIsWhole` | `ResultsInv`: what the copy has are the findings of the pages it read, of a list that only grows at its front |
| `NoListEmpty` | `ResultsSpec => []NoEmptyPage` | the page and its filter change together, and the API counts what it slices |
| `FromTheStart` | `ListSpec => []FilterFromTheStart` | `PageInv`: unless something left the list, the chosen page is the first or has an item, and what the answer counted is still there |
| `DeletedOnce` | `ListSpec => NeverDeletedTwice` | `DialogInv`: what is deleted is gone, and no name is used again; users are deleted one at a time, and who was deleted is in the list or in the dialog only while the list is awaited |
| `OwnAnswer` | `ListSpec => DialogIsAnswered` | from `DialogInv`: with one deletion on its way, the one that is awaited is the dialog's |
| `SingleSource` | `CoverSpec => []OneSource` | `CoverInv`: the values of a form and the picture the pane highlights agree, and what is still on its way belongs to a pane that waits for it |
| `NoPagePastTheEnd` | `Spec => []PagesExist` | `FromTheStart` and `NoListEmpty`, by `Alone`: each part of the product behaves as it does alone |
| `ListsAreTyped` | `Spec => []TypeOK` | `PageTyping`, `ResultsTypes`, `CoverTypes` |

A page is a range of ranks: `Ranks` (by counting: the map from an item to how many
are newer is one-to-one into as many numbers, so onto) gives every page within the
bound an item, `LastPage` what the rounded quotient means.

Model-checked only: `JobIsSeenToEnd`, which is liveness.

### Known divergences

All of them are behaviours of the models, or of parts they leave out.

- Session: with a dead token `proxy.ts` turns the sign-in form away and the
  narrow header offers no way to sign out (`ClientLockout`, a finding).
- Mutations whose `mutationFn` returns nothing (`use-results.ts:153-157`,
  `use-notifications.ts:133-135`, `use-catalog-attacks.ts:72-74`,
  `use-catalog-remediations.ts:76-78`): the page tests the `ok` of a result that is
  undefined, and the dialog stays open after a success.
- `notifications-list.tsx:83-85`: the deletion that ends first takes away the mark
  of every other.
- An empty page past the end says that there is nothing at all; a remediation
  list that is loading or has failed says it was not generated yet.
- `resultados/[dispatchId]/page.tsx:367-371`: a scan that failed is told as one
  that was run. `:298-301`: a deletion that ends after the user left takes the
  user to the system's page. Turning a page unmounts the panel, which forgets
  the pull request it opened.
- `latest()` in the API has no second key: rows of one second may be ordered
  differently on two pages, of which the copy may then miss one. The model
  orders rows strictly.
- Remediation: the pull request is generated when it is opened, from what is
  stored then: a text another tab wrote anew is sent unreviewed.
- Cover: a stock image that lands after its section was hidden and a library
  upload was chosen leaves two sources, which the form refuses; the failure of
  such a download takes away a file chosen later; a crop of an earlier file
  lands over a newer one; the profile keeps its file after it was saved, so that
  saving again uploads it again; an upload that was removed can be chosen until
  the list is fetched. `AuthController.php:84-90` removes the old photo before
  the limit refuses the new one.
- Sidebar settings: the form calls itself clean after a save that failed
  (`sidebar-navigation-settings.tsx:328`), and an answer to the query discards
  edits that were not saved (`:257`).
- Guided setup: without `localStorage` a dismissal is forgotten at the next load.

### Not modelled

Rendering, wording, validation of fields other than the picture, the section
highlights of the guide, charts and reports; the attack form and the manual
proxy panel, which are one request and its answer; the forms that create rows
of the catalogs, whose writes are in `QueryCache`. The server side of a page is
what its requests may return, except where a module above names the service.
