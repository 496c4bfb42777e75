# Career Assistant: TLA+ models of the background work

Career Assistant is a self-hosted web application (FastAPI, SQLAlchemy, one
process) whose slow and periodic work runs inside the server process: a table
of background jobs drained by an asyncio worker pool, a scheduler loop that
enqueues jobs, and, on top of both, the retrieval runs that build and maintain
vector spaces under a lock, the notifications that report on them, and the
extensions an admin imports, whose code runs in sandboxed child processes. This
is where the program's concurrency, its crash recovery and its timeouts live,
and what these modules model. Source paths
below are relative to `src/backend/app/`.

## 1. Inventory

### Modelled

| Component | Code | State | Operations |
|---|---|---|---|
| Job table | `models/background_job_model.py` | rows with type, status, attempts, cancel flag, lock key, idempotency key, heartbeat; two unique indexes over *active* rows | insert, claim, finish, requeue, reap, recover |
| Worker pool | `services/job_worker.py`, lifespan in `main.py` | worker tasks, each with one long-lived session; the drain; the process | `claim_next`, `execute`, `_finish`, `_fail`, `recover_orphans`, `start_workers`, `drain_queue` |
| Jobs API | `api/v1/background_jobs.py` | a request between its read and its write | `cancel_job` |
| Stall reaper | `services/retrieval_jobs.py` | the rows a pass has read | `reap_stale_runs` |
| Retrieval runs | `services/retrieval_jobs.py`, `services/retrieval_actions.py` | requests in flight, payloads, stored responses | `enqueue_retrieval_job`, `begin/finish/fail_action_run`, `retry_run`, `cancel_run`, the continuation of `_run_vector_reconcile` |
| Bulk reprocess (part) | `services/job_reprocess_service.py` | - | clone of an exhausted row |
| Scheduler | `services/scheduler/runner.py` | `schedules` rows, the pass of the loop | `tick`, `_handle_due`, `run_now`, `set_enabled`, attach and detach |
| Vector spaces | `services/vector_space_lifecycle.py`, `storage/vector_store.py`, `services/vector_index_service.py` | the `vector_spaces` rows of a name; what each task has read | `build_space`, `activate_space` with its remap hook, `retire_space`, `drop_space`, the space creation and healing in `prepare` |
| Extension lifecycle | `extensions/lifecycle.py`, job sources in `api/v1/admin.py` | sources, install row, minted job source, consent records; in-memory locks; sessions | `add_source`, `remove_source`, `sync_source`, `install_extension`, `apply_update`, `set_install_enabled`, `park_install`, `tombstone_install`, `self_disable`, `reconcile`, `update_posting_source`, `delete_posting_source` |
| Extension sandbox | `extensions/runtime/sandbox/host.py` | the concurrency counter; per fetch: caller, reader task, child, run row | `run_fetch`, `run`, `_invoke`, `_dispose`, `_reader`, `_serve`, `terminate`, `interrupt_orphans` |
| Notification funnel | `services/notification_service.py`, `services/notification_webhook.py`, `services/retrieval_alerts.py` | notifications with dedup keys, deliveries, delivery jobs, the open transactions of sweep and digest | `emit`, `evaluate`/`_sync`, `process_delivery`, `flush_deferred_email` |

How they interact: the scheduler, the HTTP API and handlers insert job rows;
pool workers claim them with a conditional UPDATE and write the outcome by id;
the reaper, the cancel API and the boot recovery write the same rows from other
sessions. A retrieval run additionally holds `lock_key` of its space, which a
partial unique index keeps unique among queued and running rows, and a chained
reconcile hands that key to its continuation. The scheduler reads the status of
the last job it enqueued before it enqueues the next one. An activation that
replaces a vector space enqueues a remap job; the alert sweep and the digest are
scheduled jobs that end in `emit`, which enqueues webhook deliveries into the same
table. A sync of an imported extension runs a sandboxed fetch, and the death of
the sandbox disables the extension. Apart from the pipe to a sandbox child there
is no message passing: every interaction goes through the database, so the
interesting steps are the commits, and the interesting bugs sit between a read
and a commit.

Hard behaviours: interleaved read-then-write transactions; a session that
answers from a stale copy (`expire_on_commit=False`); unconditional writes by
id after somebody else settled the row; crashes between two commits; a
heartbeat timeout racing a slow but live worker; retries and replays of
requests; a bounded drain beside a running pool; a failure ladder and a misfire
rule on a host that sleeps; in-memory locks of two granularities over one row;
a second process (the operator's command line) that takes none of them; a child
process that answers late, wrongly or never; a unique index that outlives the
window it is meant for.

What makes each part correct:

* pool: a job is executed by one worker at a time, at most `max_attempts`
  times, no running row is without a worker, a settled row stays settled, and
  a lane keeps a hanging family from starving the others;
* retrieval runs: one run at a time per space, across chains and retries; the
  pool's guarantees survive synchronous actions, replays and recovery; a lock is
  always released;
* scheduler: one job per schedule at a time, and one more per lost pass; the failure
  ladder is never undercut; a schedule that stays enabled keeps running, unless
  passes keep ending at an alert or a trigger that raises;
* vector spaces: readers that follow the active row never see two and never go back,
  and lose it only when the other process was taking the space away as it was
  activated; the remap hook is called for replaced spaces only; an active space gets
  its index;
* extensions: content moves only together with the record of a consent to it; only an
  admin turns an install or its job source on; a tombstoned install is off;
* sandbox: the slot counter is the number of fetches under way, at most the cap, and
  the only children beside them are those of a start that failed after the spawn; a
  row that says completed is not that of a run raised as a death; every fetch ends;
* notifications: what is recorded as sent is not sent again, the outbox never loses
  a pending webhook, an alert is announced once per window and again after it,
  deliveries and deferred emails come to an end.

### Not modelled

`PROJECT.json` lists every component with the reason. In short: the reconcile
scan's cursor, the bulk reprocess guard, the calendar triggers, AI budgets and
proposals have protocol content and are in the plan or candidates for it; the AI
graphs, the CV engine, the catalog, profile and chat services, the storage layer,
the desktop shell, the frontend, migrations and packaging are I/O, layout, model
output or single-row access.

The models stand for a small share of the repository: the backend alone has some
150 000 lines of Python, beside a frontend, migrations and build scripts, and most
of them would not make a model. Most of the backend turns one request into reads
and writes of one user's rows, prompts for a language model, or documents. Its
operations neither interleave with others on shared state nor recover, retry or
wait; what could be stated of them restates their assignments. The modelled
components are those with an actor other than the request itself.

## 2. Modules

    JobTable                  one row, the indexes, the UPDATE statements
      JobQueue                the pool, drain, cancel, reaper, crash and boot
        JobQueueProofs        theorems about JobQueue
        MCJobQueue            instances for TLC
        RetrievalRuns         requests, locks, replays, continuations (composes JobQueue)
          RetrievalRunsProofs the pool's guarantees under them (uses JobQueueProofs)
            RunLockProofs     one run per space
          MCRetrievalRuns
    Scheduler                 the scheduler loop
      SchedulerProofs, MCScheduler
    ActivePointer             what readers of a space name rely on (abstract)
    VectorSpaces              the life of the spaces of a name (implements ActivePointer)
      VectorSpacesProofs, MCVectorSpaces
    Extensions                sources, install, switch, tombstone, reconcile
      ExtensionsProofs, MCExtensions
    Sandbox                   one sandboxed fetch and the cap over all of them
      SandboxProofs, MCSandbox
    Notifications             emit, alert sweep, webhook deliveries, deferred email
      NotificationsProofs, MCNotifications

**JobTable.** `rows[j]` is row *j* in `created_at` order. Each operator is one
statement of the code as a function from table to table: `Claim`, `SetStatus`
(`_finish` and the requeue of `_fail`, which write by id only), `Beat`,
`Stalled`/`Reap`, `Recovered`/`RecoverOrphans`, `UniqueIndexes`. A heartbeat is
fresh or stale. Job types are those the control tells apart: a plain type
(`digest`), an ingest type and the four vector types.

**JobQueue.** One action is one transaction or one await-free stretch of a task.
A worker goes `idle -> selected -> claimed -> running -> writing -> idle`:
`SelectOldest` is the SELECT of `claim_next`, `ClaimWon`/`ClaimLost` its
conditional UPDATE, `Refresh` the reload, `HandlerReturns`/`HandlerRaises` the
two ends of `execute`, `WriteOutcome`/`WriteRefused` the write by id and its
refusal by a unique index. `seen[w]` is what the worker's session believes of
`cancel_requested`: loaded by the refresh, not updated by other sessions,
dropped by a rollback (`HandlerRollback`). `cancel_job` and the reaper are two
steps each, a read and a commit. `BeginShutdown` starts the drain (worker 0)
beside the pool, `StopWorkers` ends it with everything else, `Crash` can happen
anywhere, and `Boot` reaps, recovers orphans and starts the pool. One process
owns the table: `recover_orphans` requeues every running row, which is right only
then, and the model assumes it.

**RetrievalRuns** extends JobQueue with requests in three transactions (replay
lookup, lock check, insert), synchronous actions that act on a row the request
itself created in status running, `HandlerContinues` (the chained reconcile with
its hand-over of the lock), `RequeueFailed` (bulk reprocess of one row) and
replays that go on with an existing row (`ResumeReplay`). Rows are younger than
the 24 hour replay window. The constant `Faults` switches the disturbances
(stalls, job cancels, bulk requeues) per run. Each admin action has an operator for
the row it asks for (`ReindexRow` ... `CancelRow`); what it does to the vector
tables, the comparison row an activation records on the way, and the name lock of
`build_space` are not in this module; what they do to the spaces is VectorSpaces.

**Scheduler.** Times are relative to now, so that the state space is finite without a
horizon: `wait` is `next_run_at - now` and stops counting where every lateness is too
late, `age` is `now - last_run_at` and stops at the longest delay of the ladder. One
pass per time unit while awake; a pass is split at its commits (`ClaimDue`, the branches
of `_handle_due`, `EnqueueRun` which commits the job, `RecordRun` which names it) and
interleaves with `run_now`, `set_enabled`, `Attach`, `Detach` and jobs that end.
`PassFails` is a database error or the end of the process between two commits;
`Sleep`/`Wake` a host that sleeps or an application that is off. A failed run that is
folded in may raise an alert (`AlertFailure`), under a dedup key of schedule and count
that is free, in its window or after it. Nothing releases such a key, and the unique
index outlives the window: `AlertRefused` is the insert that raises and ends the pass,
`TriggerRaises` a `next_after` that does, both as often as the pass comes to them
(`Jams`), without counting against the bound on faults. Whether anybody is to be told is
left open. `next_after` is any value of `Slots`, strictly ahead of now. `GRACE` stands
for `max(period * 2, 2 h)`: for interval triggers without large jitter and for
boot_stale the estimated period is one minute, so two hours decide. `streak` is a
history variable that counts the runs that really failed in a row.

**VectorSpaces.** `row[s]` is a row of `vector_spaces`, its key standing for the
whole embedding configuration. The store's sessions are synchronous, so a task
holds the event loop of its process between two awaits (`Turn`), but not the
database: the command line is a process of its own. Each operation is therefore a
read and a write (`activate_space`, `FlipRead`, `Flip`, then the awaited
`Invalidate`; `build_space`, `BuildInsert`, `Provision`; `prepare`, `CreateSpace`,
`CreateInsert`, `Provision`), and writes go by primary key, refused by
`uq_vector_spaces_name_active` or when the row is gone. The coverage and quality
gates, the grace period and the forced drop decide only whether an operation
starts, and are left open. The processes overlap freely. `served` and `contested` are
history: the active space is contested when a `retire_space` or `drop_space` had read
its row before it was activated (`InHand`), and has yet to write it. The refinement maps
the pointer of **ActivePointer** to the set of active rows: it moves from nothing to a
space or from one space to a fresh one, in one step, and is withdrawn only from a
contested space.

**Extensions.** One extension id with its install row, job source and sources. A
request is kept with the columns its session is going to send and their values: those
in which the copy it wants differs from the copy it loaded (`Sends`), as in
SQLAlchemy's UPDATE, so that two overlapping requests merge column by column
(`Merged`). A consent record is appended to a list that then always counts as changed
(`SendsRecord`). `SourceFree` and `InstallFree` are the two kinds of `_exclusive` lock; a
request that finds its lock taken gives up. Requests overlap wherever these locks let
them: a source's lock and the install's do not exclude each other. `self_disable`
changes its copy inside the lock and leaves the commit to its caller.
`update_posting_source` and `delete_posting_source` are the admin's endpoints for job
sources, which write the minted one without a lock and without its install, so the two
switches need not agree. A fetched tree is any digest; `buried` is history. A request
reads the job source and commits it in one step, except for the self-disable, whose
fetch lies in between.

What the overlaps break is not claimed: an enable that overlaps an import turns on
content imported meanwhile, of two overlapping consent writers the later commit's list
wins (`lifecycle.py:1824` appends to a copy read before the locks), the job source does
not mirror the install (`admin.py:1044`, against `extension_model.py:99`), and
`tombstone_undone` shows a tombstone overwritten.

**Sandbox.** A fetch is two tasks, the caller (`main`) and the reader, with the call
both wait for (`future`), the child, the recorded cause of death and the run row. The
child may answer, refuse, break the protocol, call a capability, fall silent or exit at
any moment, and a killed child may still have output in its pipe. Every watchdog may
fire whenever it runs. The start has its own steps: the slot (`RunFetch`), the process
(`Spawned`, `SpawnFails`), then row and session (`Started`, `StartFails`). The finally
block that terminates the child begins only after the last of these, so a start that
fails there, or is cancelled, gives the slot back and leaves the child behind: `strays`
counts such children until they exit. The cap therefore bounds fetches, not processes.
`HostRestarts` ends everything, strays too (`--die-with-parent`); uncommitted rows are
gone. `StreamWriter.write` does not raise on a closed pipe, so the error `_send` reports
after a child is gone is not a step of the caller; a configuration longer than a line
does raise there (`HelloAnswered`).

**Notifications.** A notification is kept with its dedup key, the state of its
window, its webhook delivery and job, and its email. A window may expire at any
step, also between the instant a sweep took as now and the emits at its end;
`SyncCollides` is what the unique index then does. The sweep's transaction stages
releases and inserts until `SweepCommit`. The job queue is the one of JobQueue as
far as it matters: claims, a bounded number of attempts, recovery at the start.
Which recipients, channels, caps and quiet hours apply is left open
(`Dispatched`). A row that nobody looks at again is forgotten and its id reused,
so that the runs can go on for ever.

## 3. Runs

Passing runs:

| Run | Instance | Shows |
|---|---|---|
| `pool` | 1 generic + 1 ingest worker + drain, 2 rows, 2 attempts, 1 stop, fairness; plain jobs, locked runs, ingest handlers that may hang for ever | `TypeOK`, `ExclusiveExecution`, `AttemptBudget`, `NoOrphanWhileUp`, `SettledStaysSettled`, and `OthersSettle`: what hangs in its own lane keeps no other job from settling (unless a worker died of a refused requeue, see `worker_dies`) |
| `runs_space` | 2 workers, 2 requests, 2 keys, 3 rows, no faults | `OneRunPerSpace` through retries, retirements and chains |
| `runs_faults` | 1 worker + drain, 2 rows, 1 stop, all faults | `RunsSafe`: the pool's guarantees with reindex, retry, retry of failed documents and its dry run, continuation, reprocess |
| `runs_release` | as above with the other kinds, replays after a crash, fairness | `RunsTypeOK`, `RunsSafe`, `LockIsReleased` |
| `scheduler` | a user's locked schedule and a banner, 2 faults, grace 1, rungs of 1, 2 and 3, alerts from the second failure, fairness | `SchedTypeOK`, `OneJobPerSchedule`, `BackoffRespected`, `RunsAgain` |
| `extensions` | 1 source, 2 digests, 2 requests | `ExtTypeOK`, `TombstoneIsOff`, `ContentMovesWithRecord`, `OnlyAdminsEnable` |
| `sandbox` | 2 fetches, cap 1, 1 stray, fairness | `SandboxTypeOK`, `SandboxesBounded`, `CompletedDidNotDie`, `FetchEnds` |
| `vector_spaces` | request and worker of the application, command line; 3 rows, 2 keys, 1 fault, fairness | `SpaceTypeOK`, `RemapsReplaced`, `ServesOn` (the refinement of ActivePointer), `IndexHeals` |
| `notifications` | 1 alert with a webhook, 1 other emitter with deferred email, 2 rows, 2 attempts, 1 fault, fairness | `NotifyTypeOK`, `SentOnce`, `OutboxHolds`, `QuietWhileLive`, `RaisedIsAnnounced`, `DeliveryEnds`, `DeferredGoesOut` |

Runs that show a disagreement between the code and what it says of itself (each
has a finding with the quoted line):

| Run | Property | What happens |
|---|---|---|
| `cancel_ignored` | `CancelHonoured` | the worker's session never reloads the row, so a cancel committed while the handler runs is not seen and the job is recorded as succeeded; only a handler that rolls back notices |
| `worker_dies` | `WorkersServeUntilShutdown` | `cancel_job` cancels a row as a worker claims it, another run takes the space, the worker's requeue then violates the lock index and the error ends the worker task |
| `tombstone_undone` | `TombstoneNeedsReimport` | a request that parks or disables (`remove_source`, shortest; a self-disable, with the widest window) loads the install, the admin tombstones it, and the request's commit puts the state of its copy back: the switch then serves the extension without a re-import |

More was seen with TLC while modelling, and is described by the hazards in
`PROJECT.json`: a slow run that the reaper failed goes back to the queue when its
worker raises; a drain ends at its first lost claim; a slow duplicate of a keyed
request inserts a second run once the first one has ended; a crash between the
hand-over of a space lock and the parent's end runs parent and continuation at
once; one failed job is counted again at every look of the scheduler during its own
back-off; a boot_stale schedule is skipped as a misfire at every start of a host
that was off over its slot; a capability answer longer than a line leaves the
sandbox run's row open; a start that fails after the spawn leaves a child without a
slot; a failure alert whose key is spent, or a trigger that raises, ends every later pass
at its schedule; a cutover beside a retire or a drop by another process leaves a name
without an active space; a crash after the flip loses the remap hook; a dedup key that
expires during a sweep loses the sweep.

**Bounds.** `MaxJobs` (rows), `MaxAttempts`, `MaxStops` (crashes and shutdowns),
`Requests`, `Keys`, `MaxFaults`, `MaxStrays`, and the scaled delays of the scheduler. Two rows are
enough for one worker to be overtaken on a row by a second one while another row
competes for the same lock or lane; the lock runs add a third for parent, continuation
and competitor. Two attempts is the code's default, and gives a retry, a last attempt
and the boundary between them. One stop gives a crash in every state and the recovery
after it. The scheduler's delays are scaled so that a slot can be shorter than a rung of
the ladder and a sleep can outlast the grace, as in the code (5 minute slots, rungs of 2
to 1024 minutes, 2 h grace); every failure count from the alert threshold on has one key,
the last for all counts from `MaxRung` on. Two requests on one extension give every pair of operations in
every order of their steps that the locks allow, and two digests an update and a consent
that does not cover it. Two fetches under a cap of one give the refusal, and a slot that
is used again beside a stray. Three rows of one name give an active space, its
successor and a competitor; the ids bound the run (`OutOfIds`). Its request builds,
activates and retires, the command line drops as well, the worker only indexes. Two
notifications are the key that is released and the one that takes its place, with
another emitter's in between; one fault is a crash, a failed digest or evaluator, or an
answer that cannot be decoded, in every state. Requests, keys and digests are symmetric
and the safety runs use that symmetry; the liveness runs do not. Deadlock is checked
except in `runs_faults`, `runs_release` and `vector_spaces`, where the bound on rows can
leave nothing to do.

**Fairness.** Worker tasks and requests whose await is over are resumed by the event
loop (weak fairness per task); handlers end, except the hanging ones the lane run is
about; the drain is bounded by `wait_for`, so a shutdown ends; a stopped process is
started again. Nothing is assumed of cancels, stalls, crashes or new requests. In the
scheduler the pass has strong fairness (the loop ticks as soon as the process starts or
resumes), the clock has too (sleep does not stop it), jobs settle (what `pool` shows of
the pool), and a sleeping host wakes; `RunsAgain` speaks of hosts that eventually stay
awake, and excuses passes that are lost again and again to `Jams`; both kinds of jam do
starve a schedule. In Sandbox only the caller's task is fair, whose every wait has a
deadline; nothing is asked of the child or the reader. In VectorSpaces a started
operation goes on, and documents keep coming to be indexed, by a worker with its own
turn (strong fairness of `prepare`, because the event loop is taken from it again and
again). In Notifications the scheduler runs sweep and digest again and again
(`RunsAgain`) and the pool executes what is queued (`OthersSettle`).

Each property has a mutant in `PROJECT.json`: an operator next to the original
(`..._off_by_one`, `..._dropped` and the like) that changes the definition the
way a slip in the code would and makes TLC report the property violated.

## 4. Proofs

Every safety invariant and action property of the passing runs is also a theorem,
for every value of the constants that the named assumptions of its module allow.
Each rests on one inductive invariant, which TLC checked as an invariant of a run
before it was proved; the theorems named here are listed in `PROJECT.json`.

| Module | Theorems | Inductive invariant |
|---|---|---|
| `JobQueueProofs` | `TypeCorrectness`, `ExclusiveExecutionHolds`, `AttemptBudgetHolds`, `NoOrphanWhileUpHolds`, `SettledStaysSettledHolds` | `PoolInvariant` |
| `RetrievalRunsProofs` | `RunsTypes`, `RunsSafeHolds` | `RunsInvariant` |
| `RunLockProofs` | `OneRunPerSpaceHolds`, under `Undisturbed` | `RunsInvariant /\ LockInvariant` |
| `SchedulerProofs` | `SchedTypes`, `OneJobPerScheduleHolds`, `BackoffRespectedHolds` | `SchedulerInvariant` |
| `VectorSpacesProofs` | `SpaceTypes`, `RemapsReplacedHolds`, `ServesOnHolds` (refinement) | `SpaceInvariant` |
| `ExtensionsProofs` | `ExtTypes`, `TombstoneIsOffHolds`, `ContentMovesWithRecordHolds`, `OnlyAdminsEnableHolds` | `ExtensionsInvariant` |
| `SandboxProofs` | `SandboxTypes`, `SandboxesBoundedHolds`, `CompletedDidNotDieHolds` | `SandboxInvariant` |
| `NotificationsProofs` | `NotifyTypes`, `SentOnceHolds`, `OutboxHoldsHolds`, `QuietWhileLiveHolds` | `NotifyInvariant` |

Each proof has one lemma per action or group of actions over the conjuncts it can
disturb; the temporal theorems combine initialisation and preservation.

**Hypotheses.** One result needs more than the assumptions on the constants, and says so
in its statement: `OneRunPerSpaceHolds` assumes `Undisturbed` (`Faults = {}`,
`MaxStops = 0`), which its run satisfies. Each part is needed: TLC breaks `OneRunPerSpace`
in a few steps with any of the four disturbances alone. The reaper frees the lock of a
run that still works; `cancel_job` writes a status over one; a bulk requeue clones a row
without its lock; and a crash hands the row of a synchronous action to the workers, whose
replays then carry it out twice. What survives all of them is `RunsSafe`, which has no
hypothesis.

**The pool.** `PoolInvariant`: none of the properties is inductive alone. Exclusive
execution needs that an executing worker's row is never queued, and this in turn
needs that tasks exist only while the process does (`ProcessShape`), because the boot
requeues every running row. The budget needs that a worker which has decided to
requeue its row decided so within the budget (`RequeueWithinBudget`), because the
decision is taken from a row read before the write. That nothing is orphaned needs
exclusivity: a worker that finishes settles its own row and no other's.
`ExecutedRowExists` keeps inserts away from rows under execution, and
`UniqueIndexes(rows)` is kept because every write that would break it is refused. The
invariant is `PoolCore`, which the retrieval layer keeps as well, and
`NoOrphanWhileUp`, which it does not: there a synchronous action may stand behind a
running row.

**The pool under the retrieval layer.** `RunsInvariant` replaces `NoOrphanWhileUp`
by `Backed` (a worker or an acting request behind every running row) and adds what
the layer's own steps need: rows are inserted in order and a cursor stays behind its
row (`Dense`), so that a continuation, which moves the cursor by one, keeps its type;
what a cancel, a reaper pass or an action has read is a row that exists (`Known`); a
row about to be inserted starts its attempts, running for a synchronous request and
queued for any other (`Asked`). Steps of the pool are covered by the lemma `CoreStep` of
`JobQueueProofs`.

**One run per space.** The unique index keeps one *active* row per lock key, so it is
enough that whoever works on a space has a running row that holds the lock. This has to
be told apart for rows a worker executes and rows a request carries out itself
(`Direct`): a direct row is never queued, so a worker never claims one; a queued
row holds the lock of the space in its payload (`InOrder`); a worker's session
remembers the lock of its row until a continuation takes it over (`WorkerInOrder`);
nobody but its own request acts on a direct row that holds a lock (`Alone`, with
`Stored`: a replay of an action that succeeded finds the answer and does not act
again).

**Scheduler.** `OneJobPerSchedule` bounds the jobs of a schedule by one and the
faults so far. The invariant says where the others come from (`SlipsCounted`):
each job that no row names, and the one in the hand of a pass whose row was detached,
has cost a fault. `BackoffRespected` speaks of the runs that really failed, the code
of the counter in the row: `FailuresCounted` says that the counter, once the last
run is folded in, is never less. The ladder's powers of two are a recursive function
(`Doubled`). That the function equals its defining equation needs an induction over
the naturals; instead of the induction theorems, which take an operator, the proof
takes the least counterexample of a set (`Least`, from the library's
well-foundedness of `<`). It follows that delays never decrease along the ladder
(`DelayGrows`) and that `age` stays in its range.

**Vector spaces.** That the life cycle implements `ActivePointer` is proved step by
step: every step of the database leaves the set of active rows alone or replaces it
by one space that has not served (`PointerMoves`), and processes that do not write
stutter. `Coherent` says what a task may still rely on of what it read before an
await or in another process: the target of a flip is still building unless somebody
activated it meanwhile, and then nothing the flip saw active still is, so the index
refuses a second active row or the write retires what the read saw. `HandsCoherent` says
whoever has the active space in hand to take it away had it there before the activation:
`retire_space` and `drop_space` start from a row that is not active, and with two
processes nobody else is left to activate it after that, so that only a contested pointer
is ever withdrawn.

**Extensions.** The invariant says of every request what it may send (`Patch`): a digest
only with the records that hold it, TRUE only for an admin's enable, the state removed
only for a tombstone, the name of a source only for an import or a restore. `Agrees` says
what its lock keeps true of the tables until it commits: the source of an import is
registered, the row of an enable is not tombstoned, and that of a tombstone that sends no
switch is off. `Compatible` carries the locks. What merges then follows from the
patch and the row alone, however old the copies are.

**Sandbox.** `live` is the number of fetches that hold a slot (`ActiveFetches`), by
the cardinality lemmas of the library, and a child that runs belongs to such a fetch or
is counted in `strays`. `SessionRecorded` orders the end of a fetch: a
death is recorded and the row still open when the caller raises it, and
the row is closed before the slot is given back.

**Notifications.** `RowCoherent` counts: every execution that leaves a pending row
behind has cost a fault, so a row with its attempts used up has seen as many.
`SweepCoherent` says what the open transaction of a sweep has staged, one event per
alert whose old key it has released and whose window it saw expired, which is why the
unique index finds nothing live at its commit. `DigestCoherent` says that what a digest has
read is still deferred.

**Only model-checked.** Liveness, which is outside what the proof system decides:
`OthersSettle`, `LockIsReleased`, `RunsAgain`, `FetchEnds`, `IndexHeals`,
 `RaisedIsAnnounced`, `DeliveryEnds`, `DeferredGoesOut`; and the three
disagreements of section 3, which are counterexamples.

## 5. Plan

1. *Done:* JobTable, JobQueue, RetrievalRuns, Scheduler, VectorSpaces with
   ActivePointer, Extensions, Sandbox, Notifications; every safety property of their
   runs as a theorem.
2. Proofs: an abstract specification of one job (queued, executing, settled, with its
   attempts) that JobQueue implements for each row; the part of `OneRunPerSpace` that
   survives stops when no synchronous action is under way; `LockInvariant` per
   disturbance.
3. **Triggers**: daily_at, weekly and cron `next_after` as functions over a small
   calendar, checked against the least matching minute after now.
4. **Reprocess**: the guard row with its takeover, caps and sweep collapse.
5. **Reconcile**: the keyset scan with limit, budget and cursor as an abstract
   specification the chain of continuations implements.
