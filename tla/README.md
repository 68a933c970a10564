# domainry-notification: verification development

TLA+ models of the notification module, TLC configurations that check them on
small instances, and TLAPS proofs about the core. Everything here is translated
from the Go source under `src/`; `PROJECT.json` names the lines each definition
stands for. Paths below are relative to `src/internal/` unless they say
otherwise.

## 1. The system

The module turns *intents* of other modules ("this happened, tell these
people") into inbox items and into messages on external channels. Everything is
kept in one SQL database per binding; several processes (replicas of the
service, or a service and a host that embeds the module) work on the same
tables without talking to each other. They coordinate only through conditional
`UPDATE`s.

```
 producer --intent--> compiler --event row--> [events]           (EventInbox,
                      (IntentIntake)                              DataLifecycle)
                                                 | claim, resolve audience
                                                 v
   recipients <--- inbox items, alert groups <-- Materialize (1 transaction)
                                                 | channel plans
                                                 v
                        [channel plans] --claim--> policy -> render -> Dispatcher
                        (PlanDelivery)        (DeliveryPolicy)      (external)
```

| Component | State | Operations | What is hard |
| --- | --- | --- | --- |
| Channel-plan delivery (`application/delivery/processor.go`, `.../database/delivery/plan_lifecycle.go`) | rows of `_notification_channel_plans` with lease, fence, attempts, next attempt; a worker's list, group and snapshots | insert, list due, claim, re-read, cancel, dispatch, complete (also in batch), retry, fail | leases expire under a worker that works with a clock value it read once; a claim is two statements; answers of the boundary get lost; groups are settled all or nothing |
| Event queue and materialisation (`.../database/event/*`, `application/inbox/processor.go`) | rows of `_notification_events`, `_notification_event_failures`; items, alert groups, plans written | enqueue, list due, claim, resolve, materialise, retry, fail | the same leases; events of one alert arrive out of order; one transaction writes four tables |
| Compiler and catalog (`domain/inbox/service/compiler.go`, `catalog_registry.go`, `domain/inbox/validation`) | the published contracts | compile an intent into an event and its plans | pure: which fields decide identity, grouping, first attempt, digest key |
| Mailbox, alerts, views, delegation (`domain/inbox/service/mailbox_manager.go`, `.../database/inbox/*`) | items' personal state, saved views, delegations | list, read, archive, mark all read, acknowledge, delegate | delegated access is checked before it is used; acknowledgement races with newer events |
| Delivery policy (`domain/delivery/service/policy_manager.go`, `.../database/delivery/policy.go`) | policy, preferences, reservations | evaluate, reserve a batch, save policy or preference | limits that two evaluations check at the same time; windows; midnight |
| Template publication (`application/template/publication_processor.go`, `domain/template/service/*`, `.../database/template/*`) | drafts, published revisions, publication requests with leases, a cache per process | request, approve, reject, cancel, claim, publish, finish, refresh | publish and finish are two transactions; the lock on a draft is check-then-act; caches follow a revision |
| Retention and erasure (`.../database/lifecycle/*`) | all tables | preview, archive and delete in batches, erase a subject | rows change between listing and deletion |
| Migration control and portability (`.../database/portability/*`, `assembly/module/binding.go`) | migration status, fingerprints | freeze, drain leases, export, import, activate, roll back | writers that the gate does not cover; a gate that is local to a process |
| SaaS runtime and assembly (`assembly/*`) | open bindings, worker pools | open, resolve, close, poll | closing while work runs |
| HTTP transports, schema, SQL engines, identity adapters | none of their own | decoding, DDL, dialects | pure I/O |

What makes each of them correct:

- *delivery and events*: work is never lost, never undone, retried exactly as
  often as allowed; a lease keeps others away; what was accepted can be
  recognised when it is sent again; effects happen once;
- *inbox and alerts*: the rows show the newest event whatever the order of
  arrival; an acknowledgement is not undone by older events; items mirror their
  alert;
- *policy*: limits hold for concurrent evaluations, retries are not charged
  twice, a refused batch leaves nothing behind, quiet hours are the right ones;
- *publication*: one approved draft is published once, and every process
  serves it eventually;
- *intake*: an intent is stored once, however often it is sent;
- *retention and erasure*: work in flight is not deleted, nothing is deleted that
  was not archived, and an erased user is named by no row and keeps no text, but for what
  was under way;
- *migration*: nothing is written after the fingerprint was taken;
- *mailbox*: paging neither skips nor repeats what nobody touched, access ends when
  the delegation does, and nobody changes the mailbox of somebody else.

The hazards these properties are aimed at are listed, each at its line, in
`PROJECT.json`.

## 2. Modules

| Module | Content |
| --- | --- |
| `DurableWork` | what a durable queue promises: submitted once, leased under ever higher fences, retried while attempts are left, closed once |
| `PlanDelivery` | channel-plan delivery; implements `DurableWork` |
| `PlanDeliveryWatch` | `PlanDelivery` with a history variable: was a claim read back too late? |
| `PlanDeliveryProofs` | the theorems about both |
| `EventInbox` | event queue, materialisation, acknowledgement; implements `DurableWork` |
| `EventInboxProofs` | its theorems |
| `DeliveryPolicy` | evaluation and reservation |
| `DeliveryPolicyProofs` | its theorems |
| `TemplatePublication` | drafts, requests, review and publication of one template |
| `TemplatePublicationProofs` | its theorems |
| `MigrationGate` | freeze, export, import, activate and roll back against the writers of two databases |
| `MigrationGateProofs` | its theorems |
| `Mailbox` | queries, paging, personal state and delegations |
| `MailboxProofs` | its theorems |
| `IntentIntake` | catalog validation and the compiler, as operators |
| `DataLifecycle` | the tables as a whole: publication, materialisation, delivery, mailbox, retention, erasure |
| `DataLifecycleProofs` | its theorems that an intent is stored once and that an erasure is complete |
| `RetentionProofs` | its theorems about the keys of its tables and about retention |
| `MC*` | instances for TLC: constant definitions and symmetry sets |

`DurableWork` is instantiated by both queues. `Items`, `phase`, `attempts` and
`fence` are mapped to the rows; `planned`, `failed`, `cancelled` and
`materialized` all map to `closed`.

### PlanDelivery

A *worker* is one call of `Processor.ProcessDue` (the poll) or
`Processor.Process` (a wakeup hint). Its program counter stands between store
calls, so that any two workers interleave between any two statements:

| Action | Code |
| --- | --- |
| `InsertChannelPlan` | the plan row of `insertChannelPlan` in the materialisation |
| `ProcessDue`, `Process` | read the clock once; list due plans and form the first group, or take the hinted plan |
| `ClaimPlan` / `SkipPlan` | the conditional `UPDATE` of `Store.ClaimPlan`, which matches or does not |
| `RereadPlan` | the second statement of `ClaimPlan`, `planByID` |
| `InspectAction`, `CancelPlan` | `claimDeliverable`: `IsActionTerminal`, `CancelPlan` |
| `Dispatch` | policy, rendering and `Dispatcher.Dispatch`; the answer may be lost after acceptance |
| `CompletePlans` | `CompletePlan`, `CompletePlanBatch` (one transaction) |
| `RecordFailure` | `recordFailure` with `RetryPlan` or `FailPlan`; for a digest one plan after the other |
| `Abandon` | a crash, cancelled context or database error between two store calls |
| `ActionChanges`, `Tick` | the inbox items of the event settle or reopen; time passes |

A digest is a group of plans with equal `DigestKey` and equal next attempt; all
the fields `digestCandidates` compares are one value, `DigestKey`. A plan is
named by its rank in `(created_at, id)`. `claimant` and `abandons` are
bookkeeping of the model and guard nothing in the code.

### EventInbox

Rows, claims and failures as in `PlanDelivery`, without groups. `Materialize`
is one serializable transaction over items, alert groups, plans and the event,
guarded by the fence of the event; `transitionFailure` writes the failure
evidence in the transaction of the update. `Enqueue` is one step: its unique
key decides races, and its second statement only answers the producer.
Acknowledging an alert is one transaction of the mailbox. Events are numbered by
`(occurred_at, id)`, the order of `ListDue`, and time stamps may be equal.

### DeliveryPolicy

An *evaluator* is one call of `EvaluateDelivery`: policy and clock, then one
preference per recipient, then `ReserveBatch`. Other evaluators, `SavePolicy`,
`SaveRecipientPreference`, rescheduled plans and the clock come in between. A
refusal is a disabled channel or a muted template; which of them does not matter
to the caller. `answer` holds what the last step returned, and nothing after any
other step. Each row keeps the limit it was judged by, which the table does not
store and no guard reads.

### TemplatePublication

One template with its versions, the requests to publish it, and three kinds of
actors. An *editor* is a call of `SaveDraft`, `RestoreVersionDraft` or `Disable`:
it asks whether a request is open (`EnsureUnlocked`) and writes in another
transaction (`SaveDraft`, `Disable`). An administrator requests (`ReadDraft`,
`CheckLock`, `CreateRequest`, three store calls) and reviews (`Approve`,
`Reject`, `Cancel`); what a review has read cannot have changed when its
transition matches, so that it is one step. A *worker* is a run of the publication
processor: `Claim` and `Reread` as in the queues, then `Authorize` (the host's
answer), `Inspect` and `Load` (two reads of the template, by `publishClaimed` and
by `publishLocked`), `Publish`, `Explain` (the read after an error) and `Finish`, the
fenced transition. `Publish` may commit and still report an error, since its answer can
be lost or the catalog of the process can refuse the template.

Editors and workers belong to different processes, so that the manager's mutex orders
nothing between them; what it would exclude within a process is a subset. A template's
`updated_at` is the number of its write: two writes of one template never carry the
same nanosecond. Contents are what `PublicationCandidateHash` tells apart.

### MigrationGate

Two databases, the source with several processes, the target with one or more.
A *call* is a writing call of the binding or a run of a worker:
`BeginWrite` takes `migrationMu` shared and reads the control row once
(`beginMigrationSensitiveWrite`), the call then writes, claims and settles rows, and
`EndWrite` releases the lock. An *operator's call* goes through the statements of
`Freeze`, `Export`, `Import`, `Activate` and `Rollback` one by one: `FreezeControl`,
`CountLeases` table by table, `ExportTable` table by table, `RecordFingerprint`,
`InspectTarget`, `LoadBundle`, `ReconcileTable`, `RecordImport`. `InsertEvent`, the
insertion in a host's own transaction, passes the gate by; `Crash` stops a process.
A table is the set of the writes its rows show and one row that can be leased, and a
bundle serves as its own fingerprint (SHA-256 of all of it). `crossed` records that
a side was written to while an export or import of it was under way or done, which is
what the lock, being local to a process, cannot exclude; `rolledBack` are the
migrations that were given up.

Two bounds concern the operators. Calls under way at once are all on one side
(`MayBegin`), so that there is one bundle to import. And `MayReuse` says whether a
migration that was given up may be frozen under its ID again. Neither
`FreezeMigration` nor `RecordMigrationFingerprint` can tell the second attempt from the
first: an export that began before the rollback may finish after the second freeze and
record the old bundle, although the source has been written to in between. This came
out of the proof, where the invariant failed to be inductive at exactly this step.
`ExportIsCurrent` and `CutoverMovesEverything` therefore speak of migrations that were
not given up before, and operators should begin a second attempt under a new ID. The
theorems hold for both values of `MayReuse`; the run takes `FALSE`.

### Mailbox

A *caller* is one client. A request is two steps, because the binding works out the
mailboxes the caller may read and reads the clock (`Request`, `NextPage`) before the
store runs its statement (`List`, `Get`, `ResolveAction`, `SetPersonalState`,
`AcknowledgeAlert`, `MarkAllRead`) or refuses (`Refuse`, `NoEffect`). Beside it the
worker rewrites items (`UpsertInboxItem`, with a time stamp as old as the run it is
in), retention deletes them (`PurgeItem`) and owners change their delegations.
`entitled`, `pages` and `steady` are history.

### IntentIntake and DataLifecycle

`IntentIntake` is a module of operators: what `NewCatalog` accepts (`ValidCatalog`)
and what `Compiler.Compile` makes of an intent (`Compiles`, `Compile`, with the
plans, their IDs, digest keys and first attempts). A text is the set of variables its
fragments name, since a locale that cannot be rendered refuses the intent.

`DataLifecycle` takes the other view on the system: all tables of a workspace side by
side, and everything that writes them. What `EventInbox`, `PlanDelivery`,
`DeliveryPolicy` and `Mailbox` look into closely appears reduced to its effect on the
rows. A claim is one step, its lease ends `LeaseDuration` after the row's `updated_at`,
and when a queued row is due again is left open. `Deploy` starts the process with
another catalog; a producer compiles (`PublishIntent`) and then calls `Enqueue`, whose
second statement is `LookUp`, or has the event written by `InsertEvent`. A retention
batch goes through its tables in the order of `retentionSpecs`: one statement lists a
table's candidates, and then each is archived (`ArchiveCandidate`) and, by a purge, deleted
in another step (`DeleteCandidate`). `EraseSubject` is one serializable transaction.

The environment is restricted in four ways, and each is named in the module: a
producer repeats an intent for at most `RepeatFor`, which is shorter than the
retention, and its calls end in time (`Tick`); the ID and the source key of an intent go
together; a user is erased once and, once erased, saves nothing and is
delegated nothing (`SavePersonal`). Erased users may still be sent events and may
still use the mailbox.

What a reader of the code may not expect, and the model shows:

- an item that is reopened or touched between the listing and the deletion is purged
  all the same (`DELETE` by ID), which is why `PurgeLosesNothing` asks for status and age
  of events, plans and groups alone;
- a group goes by its last event in the archive, so one entry, with the payload of the first
  group the query returns (`retention.go:251`), stands for the groups of all recipients, and
  all of them are deleted (line 287): to `PurgeLosesNothing` a row is archived when there is
  an entry of its table and ID; a row that was archived once is not archived again when it has changed;
- candidates on hold take their place in the limit of a batch;
- a worker that holds a claim writes back the name and the text an erasure has
  removed (`tainted` collects the events for which this can be);
- an erasure renames the recipients of the plans inside an event and drops their
  variables, but keeps their digest text (`subject.go:119-122`), although it reports
  `content_redacted` (line 180): a plan that is materialised later gets that text, under the
  anonymous name. `pending` collects, by user, the events that were queued or processed at
  the erasure, and `ErasureIsComplete` exempts the text of exactly their plans; the
  text that stays in the plans inside the event's payload is not covered. The archive and the failure evidence are not
  touched by an erasure;
- after an erasure, or a catalog that compiles the intent differently, a repeated
  intent is a conflict and not a repetition.

## 3. Runs

| Run | Question | Bounds |
| --- | --- | --- |
| `plan_delivery` | attempts are exact, planned means accepted, one identity per immediate plan, `DurableWork` is implemented; fences are exclusive and leases protect until a claim is read back too late | any 2 of 3 plans (one immediate, two of one digest, one of these bound to an action), 2 workers in 2 processes, 2 attempts, leases of 1, clock to 2, 1 abandon |
| `plan_delivery_liveness` | every plan settles | one immediate plan, one digest, clock to 3 |
| `stale_writer` (violation) | the same protection without that assumption | 1 plan |
| `digest_retry_identity` (violation) | a retried digest keeps its identity | 1 plan |
| `event_inbox` | evidence, effects, order, mirroring, acknowledgement, `DurableWork` | 2 events of one alert, 2 workers, 1 recipient |
| `alert_mirror` (violation) | mirroring when a plain event uses an alert's group key | as above |
| `delivery_policy` | limits, dedupe window, retries, completeness, quiet hours | 2 deliveries (one digest), 2 evaluators, 2 recipients, hour of 2, window of 1, clock to 3, 1 retry, 1 change |
| `mandatory_suppressed` (violation) | mandatory channels and preferences | 1 delivery, 1 evaluator |
| `template_publication` | the lock is the open request; what is published was requested and reviewed, once; no edit is lost | 1 template seeded with version 1, 2 contents, 2 requests, 2 administrators, 1 editor, 2 workers, leases of 1, clock to 2, 1 fault, no edit begins after the third write |
| `migration_gate` | the gate holds in its process; what is exported is current, what is imported is exact, and a cutover moves everything | 2 processes at the source, 1 at the target, 2 tables (one with leases), 3 operators of whom 2 act at once on one side, 2 migrations, no ID frozen again once given up, 2 writes, 1 setback |
| `mailbox` | paging misses nothing, access is entitled, mailboxes are personal | 2 items of one user, a manager who is also a delegate, 2 callers, pages of 1, 1 delegation, clock to 2, 3 changes |
| `data_lifecycle` | an intent is stored once, a purge loses nothing, an erasure leaves no name, and no text but in plans that were yet to be materialised | 1 user, an alert (inbox and mail) and its end (inbox alone), 3 catalogs of which one is refused, 1 producer, 1 worker, 1 batch of 3 with holds, retention 1, leases of 1, 1 attempt, clock to 1 |

Why these bounds suffice: two workers and one expiring lease are enough for a
stale worker, a worker that took over, and the row both mean; two attempts give
one retry and one last attempt; the clock reaches the end of a lease taken at any
earlier time; two plans give a group that is settled together and one that is
cut. Two events of three kinds in either order give every pair of an older and
a newer transition. In `delivery_policy` the clock crosses the end of the dedupe
window, the end of the hour and the start of the quiet hours (times of day 3 and
0 of 4 are quiet; equal start and end, by which the code
takes every time to be quiet, are no case of `QuietHoursAreKept`), and a digest is reserved twice, under two keys. In
`template_publication` both requests get published in some behaviours, with the number of
the draft and with the next free one; the editor's one stale check suffices for an edit
between any two steps of a worker. In `migration_gate` two tables are what an export
that is not one snapshot needs, and two migrations what a freeze after a rollback
needs. In `mailbox` pages of one item make every list of two a paging, and three changes
are enough to grant, use and revoke. In `data_lifecycle` one producer calls at a
time, so that two calls racing for one source are left to the theorem `StoredOnce`, which has any
number of producers; the clock reaches the end of
a lease and the age of retention in one unit, the end of the alert overtakes its
beginning or follows it, and an erasure can fall between any two steps; the held
tables and the held event are candidates that the batch must skip; intents are sent
at time 0 only, so that what is purged at time 1 could be sent again only by a
producer that does not stop in time. Workers, evaluators, administrators and requests
are interchangeable, so the runs use symmetry; the liveness run does
not. `CHECK_DEADLOCK FALSE` is set because the clock, the abandons and the changes
are bounded: at the bound a system whose work is done has no step left.

The runs that end in a violation are disagreements between the code and what a
comment, a test or a document of the repository says; each is explained in
`PROJECT.json` under "findings":

- `stale_writer`: a claim reads its row back by ID alone, so a worker whose lease
  ran out between the two statements adopts the fence of the worker that took over,
  and both work on the row;
- `digest_retry_identity`: the identity of a digest contains its next attempt
  time, so its retry is a new message for the boundary;
- `alert_mirror`: a plain event with the group key of an alert rewrites the item
  but not the group, and the alert can no longer be acknowledged;
- `mandatory_suppressed`: preferences are enforced for mandatory plans too.

### Fairness

Only `plan_delivery_liveness` needs fairness (`LiveSpec`). Each replica polls in
a loop (`assembly/saas/runtime.go` `runWorkers`) and finishes the call it is in:
`SF(ProcessDue(w))` and `WF(Work(w))`. Fairness is strong for `ProcessDue`
because a worker of the model handles hints and polls, whereas the code handles a
hint beside the polling loop. `InsertChannelPlan` is weakly fair: every plan of
the instance is eventually submitted. Time passes (`SF(TimelyTick)`) only while no
worker holds a claim and nothing is due: a poll is short against leases (minutes)
and retry delays. `Abandon` is not fair and bounded, since a plan whose dispatch
always kills its worker is in fact claimed for ever; a claim does not count as
an attempt.

## 4. Proofs

`PlanDeliveryProofs` proves, for any numbers of plans, workers and processes and
any constants that satisfy the assumptions named in `PlanDelivery`:

- from `Spec`: `TypeOK`, `FailedIffExhausted`, `PlannedWasAccepted`,
  `ImmediatePlanHasOneIdentity`, `ImplementsDurableWork`, and `SettledPlansStay`,
  which the run has no need to check since `ImplementsDurableWork` implies it;
- from `WatchSpec` of `PlanDeliveryWatch`: `PromptFencesAreExclusive` and
  `PromptLeaseProtectsClaimant`. `late` becomes true in the first state in which some
  claim, not yet read back, has outlived its lease.

The properties are not inductive. The invariant `IInv` adds

- `RowOK`, `OutsideOK` and `LocalOK`: the types of the rows, of the environment and
  of the workers' locals;
- `GroupsUniform` and `IdleHoldsNothing`: an immediate plan is the only one of its
  group, and an idle worker holds no group;
- `SnapshotsFresh`: a snapshot never has a higher fence than its row, and one with
  the *same* fence has the row's attempts as long as the row is processing. This
  is why `recordFailure` may count from the snapshot although the update
  increments the row: the fence of the update rules out every stale snapshot;
- `CompletesAccepted`: who is about to complete has had its whole group accepted;
- `RequestsIdentified`: an accepted request carries plans, all of a digest or one
  immediate plan, and the identity that belongs to them.

For `WatchSpec`, `PInv` adds, as long as `late` is false, that a worker between the two statements still has
the live lease it wrote (`PromptClaims`, `RereadsHeld`), that no worker's clock is
ahead (`NowPast`), and that a snapshot with the row's fence belongs to the
claimant (`SnapshotsOwned`). With these, the one other way to a foreign fence is
closed and the fence works as the code intends.

`EventInboxProofs` proves, for any events, recipients, groups, workers, retry
policies and orders of arrival, every property that the run `event_inbox` checks:
`TypeOK`, `EvidenceIsComplete`, `EffectsHappenOnce`, `RowsShowNewestEvent`,
`AcknowledgementStands`, `ImplementsDurableWork`, and `InboxMirrorsAlert` under the
assumption `NoAlert \notin AlertStates`, the one the run `alert_mirror` drops. Its
`IInv` consists of the types (`RowOK`, `FailuresOK`, `InboxOK`, `LocalOK`, `ClockOK`),
three of the properties themselves, and

- `FailedIffExhausted`: an event has failed exactly when its attempts are used up, so
  that a leased event has one left;
- `ClaimsFresh`: the counterpart of `SnapshotsFresh`. It makes the number of a failure
  row, taken from the claim, the successor of the number the row has reached;
- finiteness of the failure rows and of the materialised events, so that their
  cardinalities can be counted.

The argument for `RowsShowNewestEvent` is in `TransitionNewest` and `UpsertNewest`: one
event turns "shows the newest of S" into "shows the newest of S and this event",
whichever is newer. `EffectsHappenOnce` rests on the fence inside the transaction: an
event that a count has included is materialised and cannot be claimed again. For
mirroring, `MInv` adds that group and item begin together and carry one time.

`DeliveryPolicyProofs` proves from `DeliveryPolicy!Spec` the type invariant, the
hourly limit, the dedupe window, that retries reserve once, and that reservations are
complete. The inductive invariant adds that whoever evaluates has a delivery with
recipients (`EvaluatorsOK`), that a key is that of an immediate plan or of one run of
a digest (`KeyOK`), that a row is what its key's delivery writes and the only one of
key and recipient (`RowsOK`), and that the rows are finite. The window follows because
the check looks at rows on *one* side of the time it is judged by only, and therefore
also refuses when a newer row is already there; the hourly limit because the newest
admission to a full hour bears witness with the limit it was judged by. The set of
recipients must be finite (`FiniteAssumption`). `QuietHours` proves that
`NextQuietHoursEnd`, which compares times of day and adds a day when that falls behind,
gives the first time that is not quiet, for quiet hours of any length and over midnight:
with time written as day and time of day (`OneRemainder`, `TimeOfDay`) the comparison
becomes a walk on the circle of the day (`QuietIsAWalk`), which ends where the quiet
hours do (`QuietHoursEndThere`).

`TemplatePublicationProofs` proves every property of the run `template_publication`, for
any requests, contents, administrators, editors, workers, processes and leases. The
argument is about the time stamp of the row: `CandidateOK` says that as long as the
row has the time stamp a request remembers, it has the draft of the request too;
`ValueOK` that what a worker has loaded is then that draft under a number above all
published ones; `VersionsOK` that publishing has moved the time stamp on, so that no
second worker gets past the comparison in `Store.Publish`. The lease plays no
part in it: a publication stays correct with any number of workers on one request.
`ClaimsOK` and `ReviewOK` carry the approval to the worker, `OutcomeOK` the version it
reports. That the comparison identifies a draft rests on `updated_at` never repeating
for a template, see section 2.

`MigrationGateProofs` proves, for any processes, calls, operators, tables and migrations,
every property of the run `migration_gate`. The first invariant, `IInv`, has the types and
says that a call is among the readers of its process exactly while it works, and that
readers and a holder exclude each other; `GateHoldsInItsProcess` follows. The second,
`BundlesOK`, is about calls that are under way, statement by statement:

- `ExportsOK`: an export belongs to the migration the source is frozen for, or to one that
  was given up. As long as nothing passes the gate, the tables it has counted have no
  lease and the tables it has read are as it read them, so that what it records is one
  snapshot although it never took one;
- `ImportsOK`: a table an import has seen is unchanged, or was empty and has been filled by
  another import of the same bundle; once the import has decided what to do, the bundle
  is there. Hence repeated and overlapping imports agree;
- `SidesOK` and `RowsOK`: who is on which side with which bundle, and that only rows
  that are there have leases, without which an empty table could hide one.

`MailboxProofs` proves all four properties of the run `mailbox`, for any users, items,
reports, queries, delegations and page sizes. For `PagingMissesNothing` the invariant
says that what is steady has not moved: it has been listed once if it is not behind the
cursor, and not at all if it is; the order on `(updated_at, id)` being total is
what makes the cursor a cut. `AccessIsEntitled` is carried by the request: its owners
are among those entitled when it was authorised.

`DataLifecycleProofs` proves `IntentsAreIdempotent` for any intents, catalogs, producers,
workers, batches, holds, limits and leases, with everything in the module running side by
side. That a conflict is found rests on the row of the event being there, and the row
may be purged; so its `IInv` relates four clocks. A row, and what a worker has claimed
and may write back, is dated no earlier than the first sending of its intent
(`EventOK`, `WorkOK`); hence what retention lists, and still deletes by its ID much later,
belongs to an intent that was first sent at least `Retention` ago (`BatchOK`); a call under
way ends within `RepeatFor` of that sending (`CallOK`); and therefore, as `RepeatFor` is less
than `Retention`, what was once stored is either still there or not sent any more
(`StoredOK`). Erasure keeps a row's source and time (`KeepsEvents`, `KeepsSources`), and what
it rewrites never equals what the compiler renders, so that `LookUp` takes only the stored
event itself for a repetition.

Its second theorem is `ErasureIsComplete`, from the same specification and on top of that
invariant. Another one, `EInv`, says of every row, and of every copy a worker holds, that an
erased user whom it names is accounted for (`Clean`), and likewise a text under the
anonymous name (`Veiled`). A plan takes the text of its event's plan, so a plan's text is
accounted for as well if the event was `pending` (`VeiledPlan`), and that an event which is
still to be materialised under the anonymous name was so at the erasure is a part of the
invariant too (`Awaited`): nothing reopens a settled event. The plans inside an event name
nobody whom the event does not (`PlansAlike`), which makes the code's test of the event's own
recipients enough for both. The copies are why `tainted` is there: an erasure accounts for each
copy that names the user at that moment, and `Materialize` and `ReserveBatch` can then only
write what is accounted for. An item may carry two names, the one in its column and the
one its event was addressed to, so `Owns` ties both to the user in its identity. That
the anonymous name is new when it is given (`FreshName`) rests on `NameAssumption`, which
TLC evaluates on the instance.

`RetentionProofs` proves `TypeOK` and the action property `PurgeLosesNothing` of the same
module, so that all four properties of `data_lifecycle` are theorems. `TypeOK` says that the keys
of the tables hold, and most of them rest on each other (`TInv`). A plan has the ID that its
event gave it and the compiler numbers the plans of one event apart (`Planned`), of the row and
of the copy that a worker materialises. A failure is numbered by the attempt that
failed, and no attempt comes twice: the row's counter only grows (`EventsMove`), and an event
that is gone is `Taken`, that is, its row is there or its intent is too old to be sent, so that
its counter does not begin anew (`FailureTyped`). A worker that still holds a row
knows its number of attempts (`CopyTyped`), which bounds them. The groups of an erased
user move to another recipient, which `EraseSubject` checks beforehand.

`PurgeLosesNothing` is about what a batch listed some steps ago and now deletes by its ID, with
no look at the row. `PInv` says of each candidate that whatever goes by its ID, now
or later, is settled and old enough (`CandidateOK`). What settles stays so (`PlansMove`,
`GroupsMove`, `EventsMove`). Plans and groups come of an event when it is
materialised, and never again (`Done`), so no young row takes the ID of an old one. A candidate
for an alert group is an event that the groups of several recipients share, and deletes them
all: `GroupsAgree` says that they are resolved together and at the same time, which is why one
of them may stand for the others. Every step of anybody else keeps all rows
(`NothingVanishes`); the deletion itself finds its entry in the archive, because the row was
there when it was archived, or it was archived before (`BatchOf`).

The proofs about `DataLifecycle` use its named assumptions: `IntentAssumption`,
`NameAssumption`, `TimeAssumption`, `BoundAssumption` and `CatalogAssumption`, the last of
which says only that `Catalogs` is a sequence.

Only model-checked: liveness, and anything with ENABLED. Every safety and action property of
the passing runs is a theorem.

## 5. Not modelled

The dispatch boundary, identity services and `domainry-foundation`
(`worker.RetryPolicy`) are external and modelled by how the code uses them.
Rendering, wording, fallbacks, JSON payloads and SQL dialects are left out.
HTTP transports, schema management and the identity adapters are I/O. Besides:

- the caches of published templates (`RefreshPublished`): a stale cache renders an
  older published version, and no document says how stale it may be;
- opening, resolving and closing of bindings, and the runtime's worker pools except
  for the polling that the fairness of `plan_delivery_liveness` stands for;
- what only reads: previews, exports of a subject, dry runs of retention, facets and
  governance metrics;
- the two tables of the publication policy in retention;
- the signed tokens of saved views in the HTTP layer;
- how `IsActionTerminal` follows from the items of an event: `PlanDelivery` lets the
  answer change at any time.

## 6. Plan

What is left, most important first:

1. `TemplateCatalog`: the caches of several processes that follow
   `PublishedRevision`, with two templates.
2. `NotificationFlow`: `EventInbox` and `PlanDelivery` composed, so that
   `IsActionTerminal` is computed from the items.
3. `Runtime`: opening, resolving and closing bindings while workers run.

## 7. Running

In this directory:

```
tlc -workers 2 -config plan_delivery.cfg MCPlanWatch
tlapm PlanDeliveryProofs.tla
```
