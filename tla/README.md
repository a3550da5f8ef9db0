# TLA+ models of CodeFixer

CodeFixer watches ticket systems (TAPD, Redmine), routes bug tickets to
projects, and repairs them: for each ticket it runs a localization agent and a
coding agent over a copy of the project's source, verifies the change, freezes
it and delivers it (patch directory, GitLab branch, GitHub pull request).  One
Python process serves the API, runs the scheduler and starts a thread per run;
the durable truth is one SQLite database and the artifact files beside it.

This directory holds TLA+ models of the parts whose correctness depends on
interleavings, crashes and time, the TLC configurations that check them, and
proofs checked by TLAPS.  All source paths below are under
`backend/src/codefixer/` unless they say otherwise.

## 1. Inventory

| Component | State | Operations | Hard because |
|---|---|---|---|
| Task store (`infrastructure/task_store.py`, `migrations/0002_tasks.sql`) | tickets, snapshots, tasks, runs | ingest, start, cancel, retry delivery, claim, complete, fail, cancel a run | methods read outside the transaction they write in; most writes are unconditional |
| Scheduler (`orchestration/scheduler.py`) | `_active` executors, poll times | tick (reap, poll, dispatch), execute, recovery at start | capacity in memory, queue in the database, exceptions in threads |
| Executor and pipeline (`orchestration/factory.py`, `pipeline.py`) | the run's phase, the frozen change on disk | claim, stages, cancel checks, freeze, deliver, resume, cleanup | errors in and outside the `try`, cancel racing every stage, re-execution after crash or retry |
| Task and settings API (`api/tasks.py`, `api/settings.py`) | requests under way | start, cancel, retry-delivery, execution mode | concurrent requests read, then write |
| LLM slot pool (`infrastructure/llm_slots.py`, `application/services/llm_slots.py`) | waiters, leases, heartbeat threads | enqueue, try_acquire, heartbeat, release, cancel, reap | FIFO over processes that stall or die; pools with different limits over one table |
| Ingestion, routing, ticket adapters (`application/services/ingestion.py`, `routing.py`, `adapters/tickets/`) | provider cursors, the poll in flight | poll page by page, read details, route, ingest a batch, advance the cursor | one cursor for all projects of a source, a batch that fails half-way, tickets that change during the poll |
| Project API (`api/projects.py`) | the configured projects | create, update, enable, disable | enabling takes seconds and writes configuration, cursor and health, one after the other, during polls and beside other requests |
| Worker leases (`infrastructure/leases.py`) | named leases | acquire, heartbeat, release | read and write of acquire are apart |
| Baseline cohorts (`infrastructure/baseline_cohorts.py`, `application/services/baseline_cohorts.py`) | cohorts, members, the leader's threads | join, resolve, seal, fail, wait | leader and followers, deadlines, clocks read before the lock, cancellation |
| Delivery (`application/services/delivery.py`, `infrastructure/delivery_store.py`, `adapters/delivery/`, `adapters/delivery_patch.py`) | action and target rows, patch files, remote branches and pull requests | execute, resume, retry, fall back | lost answers of a remote, partial success, crashes between a push and its row |
| Artifacts, freeze, localization apply (`protocols/artifacts.py`, `application/services/freeze.py`, `localization_apply.py`) | the frozen directory, the localization directory | atomic write, freeze, apply | crash between files, two requests at once |
| Source adapters and verification (`adapters/sources/`, `application/services/verification.py`) | the worktree of a run | prepare, collect, verify, restore, clean up | verification commands change the tree they verify; what git stores is not what the worktree holds; renames |
| Configuration (`infrastructure/config_store.py`) | effective configuration, etag, secrets | replace with If-Match, reload | compare and write |
| Git cache (`application/services/git_repository_cache.py`) | clones on disk | clone, refresh | several executors |
| Process runner, agents (`infrastructure/process_runner.py`, `adapters/agents/`) | process groups | run, kill | timeout against exit and cancel |
| Preflight and health (`application/services/preflight.py`, `infrastructure/project_health_store.py`) | a row per project | probe, store | read twice by a tick and its poll |
| Workspace detection, similar reports, frontend | little or none | queries, formatting | no state machine of their own |

How they interact: the scheduler's loop polls providers and **ingests** tickets
into the store, then **dispatches** queued runs to executor threads; API
requests write the same rows; an executor **claims** its run, walks the
pipeline, **waits for an LLM slot** for each agent and **joins a cohort** for
its baseline, freezes what was verified, delivers it, and at the end writes the
run and its task.  After a crash,
recovery rewrites the running rows before anything else happens.

What makes each modelled component correct is stated with the properties in
section 3; the hazards, each at its line, are in `PROJECT.json`.

## 2. Modules

| Module | What it is |
|---|---|
| `TaskStore` | the task and run tables; one operator per store method, its write transaction |
| `TaskLifecycle` | scheduler, executors, pipeline, API requests, crash and recovery over `TaskStore` |
| `FifoPool` | abstract: requests are served once, in the order they came, within a capacity |
| `LlmSlots` | the slot tables, the acquire loop, heartbeat threads, release, time, crashes; implements `FifoPool` |
| `CohortPromise` | abstract: a cohort is decided once, and everybody gets its decision |
| `BaselineCohorts` | the cohort tables, the coordinator's leader and followers, the refresh lease of `LeaseStore`, time, crashes; implements `CohortPromise` |
| `DeliveryPromise` | abstract: a branch is created once, a target gets one pull request, completed means all of it is there |
| `Delivery` | coordinator, patch actions, GitLab push, GitHub pull requests, their rows, the remote, crashes and retries; implements `DeliveryPromise` |
| `TicketIntake` | the source, the poll, the cursor, routing to projects, the projects' health, requests that enable and disable them |
| `FrozenChange` | the worktree from the coding stage on, verification, freeze, delivery or recovery of the frozen change, its application to the localization directory |
| `LifecycleClaims`, `IntakeClaims` | a sentence of `docs/design-spec.md` each that the code does not keep |
| `MCLifecycle`, `MCSlots`, `MCCohorts`, `MCDelivery`, `MCIntake`, `MCFrozen` | instances for TLC |
| `NumberLemmas` | least and greatest elements, division |
| `TaskLifecycleProofs`, `LlmSlotsProofs`, `CohortProofs`, `DeliveryProofs`, `FrozenChangeProofs`, `TicketIntakeProofs` | theorems |

`TaskLifecycle` sees a stage as its outcomes; the other modules open stages up:
`LlmSlots` what an agent call waits for, `BaselineCohorts` what `prepare` waits
for, `FrozenChange` coding to freeze, `Delivery` the last stage, `TicketIntake`
what a tick ingests.  Where two of them meet they agree on the interface: a
frozen change on disk (`frozen`) makes an execution deliver only, and a retry or
a recovery needs its manifest.

### Correspondence: tasks and runs

A step of the model is what the code does without another thread being able to
come between: one SQLite transaction, or one read whose result is used later.
The Python driver opens a transaction at the first INSERT or UPDATE, so the
SELECT at the head of `start_task`, `cancel_task`, `retry_frozen_delivery` and
`claim_run` is *outside* it.  Hence the pairs `StartRead`/`Write`,
`CancelRead`/`Write`, `RetryRead`/`Write` and `ClaimRead`/`ClaimWrite`; what was
read is kept in `req[c]` and `picked[r]`.  `ingest` writes before it reads the
task and is one step.  `cancel_run` reads only the run's `task_id`, which never
changes, and is one step too, as are `complete_run` and `fail_run`.

| Model | Code |
|---|---|
| `taskStatus, bound, current, result` | columns of `tasks` (`bound`: `project_id` is not the unbound id) |
| `snapshot, stored` | `ticket_records.current_snapshot_id`, rows of `ticket_snapshots` |
| `runTask, runStatus, runSnapshot` | columns of `task_runs`; runs are numbered by `created_at` |
| `ticket` | what the ticket's source shows now (external) |
| `tick` | `Scheduler.tick`: the mode it read and the tickets it still has to ingest |
| `pc` | where the thread of a run is; `"idle"` means not in `Scheduler._active` |
| `plan` | the branch `RunExecutor.execute` took: fresh, resume a frozen change, reject |
| `frozen` | `freeze-change/change-manifest.json` exists |
| `lost` | history: runs whose executor was locked out when it was to record their failure |

Phases follow the program order of `ChangedPipeline.run`.  Each stage may pass,
fail with an error the pipeline handles (`StageFails`), raise one it does not
(`StageRaises`, then `Unwind` is `Scheduler._execute`'s `except`), or be stopped
by a cancel request (`AgentCanceled`).  `check_start` stands outside the
pipeline's `try`; `CleanUp` is the `finally` block.  Routing, preflight,
agents, verification and delivery appear as their possible outcomes.

With `DatabaseLocks` any access to the database may fail because somebody holds
the lock for longer than the driver waits.  For an executor that is an exception
no handler of the pipeline is for (`LockedOut`); it leads to the handler in
`Scheduler._execute`, which opens the database itself and may fail in turn
(`UnwindLockedOut`).  A tick that cannot read the queue ends
(`DispatchLockedOut`), and a request that cannot write is answered with an error
(`WriteLockedOut`).

`Asked`, `Routings` and `Arrival` are bounds: what requests ask for, what routing
makes of the tickets, and which of them exist before others.

Left out: provider cursors (they are in `TicketIntake`), stage rows, events and
artifacts (no transition of tasks and runs reads them), the graceful stop (a
crash allows more), the time between polls (a tick's batch may be any set of
tickets), and a change of `maxConcurrentTasks`, which every tick reads again: a
lower limit only keeps new executors from starting.

### Correspondence: LLM slots

Every store operation runs in `BEGIN IMMEDIATE` and is one step.  A request is
one call of `LeasedAgentRuntime.run`; its id is a fresh uuid, so `enqueue`
always inserts and `try_acquire` never finds itself already granted.  Expiry
is compared with the clock only, so `waitLeft` and `leaseLeft` count the units
left until it and `Advance` counts them down; `Ttl` is in units of the
heartbeat interval, which is a third of the lease time (hence `Ttl = 3` in
`slot_threads`; in `slot_tables`, where a stall may come at any time, two units
already tell a renewed row from one that is left to expire).  `FifoPool` sees
what the rows mean: who waits in front of whom, who holds which number, who is
gone.
`pc` distinguishes the two steps of the acquire loop (cancel check, try),
because a cancel request may arrive between them.  `Faults` switches on what
the environment may do: `"delay"` (threads or the machine stall past an
expiry), `"locked"` (a database operation raises), `"crash"`.

`enqueue`, `try_acquire` and `heartbeat` take the time before they wait for the
write lock (`llm_slots.py:85`, 127, 222) and the model at the step itself.  An
old time reaps less, renews for less, and lets a heartbeat renew a lease that has
expired since, if nobody has reaped it.  Each is what the operation would have
done had it got the lock at once, and for the properties a lease ends when its
row goes, so none of them depends on it; the wait is bounded by the connection's
timeout of seconds, against a lease of a minute.  For the cohorts, whose deadline
decides who may join, the old clock is modelled (below).

### Correspondence: baseline cohorts and leases

The runs are those of one source (one cohort key).  A run prepares its repair
workspace once, so it belongs to at most one cohort and the cohort it opens is
named by it: `state[r]`, `left[r]`, `revision[r]`, `failure[r]` are the row of
that cohort, `member` is `baseline_cohort_members`, `owner` and `leaseLeft` the
row of `worker_leases`.

| Action | Code |
|---|---|
| `Create`, `Follow` | `join_or_create`, one `BEGIN IMMEDIATE` transaction |
| `AcquireRead`, then `AcquireInsert`, `AcquireUpdate` or `AcquireCollides` | `LeaseStore.acquire`, whose SELECT is outside the transaction the write opens |
| `Look`, `Refresh`, `CheckLease`, `Resolve`, `Fail`, `Release` | `_resolve_as_leader` from the heartbeat's start to the finally block |
| `Heartbeat`, `HeartbeatDies` | the leader's thread; it catches `LeaseBusyError` only |
| `Poll`, `WaiterCanceled` | `_wait_for_resolution` |
| `StoreLocked` | `database is locked` in any operation, through each handler above it |

A store operation takes `now` and then waits for the write lock, up to the
connection's timeout.  So `Create`, `Follow` and `Resolve` act with a clock that
is `lag` units old, no older than the step before it in its thread (`since`).

### Correspondence: delivery

A step ends after what somebody else can see: a commit of the database, a
change of the remote, a file.  A commit matters only by whether it is the one a
branch holds, so two values do: a new commit is the one its branch does not
hold.  `Faults` switches on failing commands (`"commands"`), commands that do
their work and then seem to have failed (`"answers"`), a full disk (`"disk"`,
which leaves a part of a patch file), a locked database and crashes.
`CalmDown` ends all of them.  `Crash` and a failed run lead to `Resume`: the
execution begins with the first action again, with the rows, files, worktrees
and remote as they are.  That another party pushes to the task branches is not
modelled: their names hold the run's id.

### Correspondence: intake

Time is counted in seconds, the grain of the source's timestamps.  A poll is

| Action | Code |
|---|---|
| `DecidePoll` | `tick`: some project of the source is enabled and healthy |
| `BeginPoll` | `_poll_provider`, which reads configuration and health again, writes a first cursor if it finds a project, and goes on in any case |
| `FetchPage`, once per page | the list requests of `poll` |
| `ReadTicket`, once per ticket | details, comparison with the cursor, next cursor |
| `IngestTicket`, once per ticket | `route_ticket`, `TaskStore.ingest` |
| `EndPoll` | `set_cursor` |

`PollFails` may end it anywhere; what was ingested stays.  `CheckHealth` is the
scheduled preflight of a project or that of an execution.  `Format` chooses the
two providers' comparison with the cursor (`After`).

`set_project_enabled` is four steps, and any number of clients may be in it:
`Request` (the ETag is compared and the time taken that the project is to start
at), `WriteConfig` (after the preflight, which takes seconds), `WriteCursor`
(only if no other enabled project polls the source) and `SaveHealth`; it may
fail before each (`RequestFails`).  The handler compares the ETag only at its
beginning, so nothing in the code keeps two requests, or a request and a poll,
from overlapping.  `Apart` names what a configuration of the model assumes not
to coincide: `"requests"` with each other, `"polls"` with the enabling of a
project they do not know, polls with a red `"health"` of an enabled project.

A task is unbound (`None`) when routing failed.  The task store keeps a task's
project while it runs, so what a ticket's task is bound to after an ingestion is
a set (`Bindings`).

### Correspondence: the frozen change

Three things are told apart: the bytes in the worktree, what git's index stores
of them, and the patch.  `Clean` gives of each worktree what `git add` stores
(line endings and other filters, as the attributes in that worktree say),
`CheckOut` of each index what a checkout writes, `Follow` what opening a file
reads (through a symbolic link; of a directory with a repository of its own,
nothing), `Ignored` what the `.gitignore` of a worktree names, and `Lossy` the
indexes whose patch is not UTF-8, so that the process runner's decoding with
`errors=replace` has lost bytes of it.  Assumed of them (`Filters`,
`FiltersAgree`, `Opening`): a filter neither creates nor removes a file and
leaves a link a link, and what was checked out is stored as it was.  A patch is
made with `--binary` and contains the hashes of what it changes, so against the
fixed baseline the patch, its hash and the index it was made from stand for each
other.

`Staged` is `git add -A`, `Changed` the names and `Operation` the status
`collect_change` reads off git.  `Restored` is `restore_candidate`, command by
command: `Reset` (`reset --hard` removes what is in the index and not in the
baseline, a nested repository excepted), `Scrubbed` (`clean -fd`, by the
`.gitignore` of the baseline, which is there again), the deletions, and
`checkout-index`.  Which deleted and new files git calls a rename is a parameter
(`Renames`), constrained as git's matching is; names git quotes (`Quoted`) are
not found in the name-status listing, which is read without `-z`.  Agent and
verification commands may leave any worktree behind, and stage nothing
themselves.  Each artifact of the freeze is written atomically in a step of its
own, so that a crash may come between any two; `files/` gets what `Follow` reads
from the worktree, not what the index stores.  What git does here (name listing
of renames, `--diff-filter=D`, quoting, ignored files that are in the index,
nested repositories) was tried out with git itself.

## 3. What the runs check

| Run | Instance | Properties |
|---|---|---|
| `operated` | 1 ticket, 2 runs, 2 API requests at a time, 1 executor, locked databases, 1 crash, cleanup may time out | `TypeOK`, `OneActiveRun`, `NoOrphanRun`, `FrozenIsFinal`, `ExecutorsBounded` |
| `unattended` | 1 ticket with 3 contents, 3 runs, no API request, locked databases, 2 crashes | `TaskMirrorsRun`, `RunKeepsSnapshot` |
| `queue` | 3 tickets that arrive one by one, 3 runs, 2 executors, 1 request at a time that retries a delivery, cleanup may time out, fair | `QueuedIsServed`, `ExecutorsFinish` |
| `slot_tables` | 3 requests, limits 1 and 2, every fault | `TypeOK`, `SlotsExclusive`, `GrantWithinCapacity`, `PromiseKept`, `LeaseEndsProperly` |
| `slot_threads` | 3 requests, limit 1, crashes, fair | `AgentsHaveLeases`, `WaitersServed` |
| `cohorts` | 3 runs, 2 cohorts, window, lock wait and lease of one unit, 1 commit, delays and crashes | `TypeOK`, `SharedBaseline`, `FreshBaseline`, `RefreshExclusive`, `ClosedForGood`, `PromiseKept` |
| `cohorts_live` | 3 runs, 2 cohorts, a lease of two units, locked databases and crashes, fair | `WaitersAnswered` |
| `delivery` | a GitHub action with 2 targets, or a patch and a GitLab push, every fault, fair | `TypeOK`, `SuccessIsReal`, `FallbackIsWhole`, `PromiseKept`, `IntentFirst`, `SucceededIsKept`, `RetriesDeliver` |
| `intake` | Redmine, 2 tickets, 2 projects, pages of one ticket, 3 seconds, one of the tickets may change later, 1 failure (of a poll, a request or a project's health), 2 switches, fair | `TypeOK`, `CursorCovers`, `TicketsArrive` |
| `frozen` | 4 files (a `.gitignore` with two kinds of line endings; tracked with a quoted name and denied; new: text, a link or not UTF-8; new: ignored or not, text or a nested repository), 2 verification steps, 2 crashes, 2 requests | `TypeOK`, `FrozenIsVerified`, `DeliversTheFrozen`, `ScopeKept`, `FreezeIsFinal`, `LeftoversAreScrubbed`, `AppliedIsWhole` |

All of them pass.  Two more runs find what section 4 begins with.

**Bounds.**  `MaxRuns` bounds the runs ever created.  Two runs of one ticket
are the least for a conflict between an old run (retried, recovered, cleaning
up) and a new one; two requests are the least for two stale writes.  In
`unattended` the ticket is edited twice, so that it is reopened twice and three
runs follow each other; one executor is the tightest capacity there: any second
one waits.  In `queue` three tickets arrive in a fixed order, which only names
them, and their runs want two executors: the third waits behind two others, and
a run that is retried while its old executor still cleans up is first in the
queue and skipped.  It has no crash: a restart only queues or ends the runs that
were running, which retries and failing stages do as well.  The symmetric sets
(tickets, contents, requests) are only permuted in runs of safety properties.

For the slot pool, three requests give a holder, a first and a second waiter;
limits 1 and 2 give pools of different capacity over one table.  For the
cohorts, three runs are a leader, a follower and a second leader; with the
window, the lock wait and the lease equal, every order of a deadline, an expiry
and a stale clock occurs.  In `cohorts_live` they are the leader whose lease is
in the way, a leader that waits for it, and that one's follower.

Two targets give the partial success of a GitHub delivery; the GitLab plan has a
patch before the push, so that the fallback finds one to adopt.  Two tickets on
pages of one, a project that is there from the start and one that is switched
while a poll is under way are the least for the cursor to pass somebody's
ticket; both projects want one ticket each.  Only one of the two tickets changes
after it appears (`Edited`): it can come before or after the other and overtake
it in the answer, which a change of the other would only repeat.  The four files of `frozen` can form
a rename, a checkout changes line endings, a command may change them back, take
the ignore rule away, put a link or a repository where a file was, and two
requests meet in the localization directory.  The safety properties are moreover
proved for all values of the constants (section 5), `PromiseKept` of each of the
three promises included.

`slot_threads` leaves stalls and locked databases out because both properties
are about punctual threads: with a stall an agent outlives its lease until the
next heartbeat notices, and with a locked database a waiter gives up with an
exception.  `slot_tables` has them all.

`cohorts_live` is a run of its own because symmetry, which `cohorts` needs, is
not sound for liveness.

**What the environment is assumed not to do.**  `intake` assumes a quiet source
(`Quiet`): nobody changes a ticket between its listing and its details, or in a
second in which a poll has read a page; and that what `Apart` names does not
coincide: no poll reads its projects while a client is between the time and the
configuration of a project it enables, or while an enabled project is red.  With
one client, requests do not overlap.  Nothing in the code ensures any of this.
Section 4 says what is lost otherwise, and section 5 what of this the proof
needs.  The kept run is a Redmine source; the safety properties of a TAPD source,
where `CursorCovers` excepts the tickets last changed on the day their pipeline
began (`OnFirstDay`, the subject of `claim_tapd_cursor`), are covered by the
theorems.  `frozen` assumes that no process of a finished command still writes
into the worktree, that agents and commands leave git's index alone, and that
nobody edits the localization directory while a request writes into it
(`EditLocalization` happens between requests; two requests may overlap).  A
delivery assumes that nobody else pushes to its branches.

**Deadlock** is checked in every run except `delivery` and `intake`, which end
when the run is completed, or when the bounds on time, failures and switches
are reached.  Elsewhere a ticket can always be edited or a tick begin, time
always advances or a thread is due, and the localization directory can be
edited.

**`TaskMirrorsRun` needs an unattended service.**  With an operator it does not
hold: a cancel written over a claim separates a task from its run, which is the
subject of several stories below.

**Fairness.**  `FairSpec` of the lifecycle assumes that the scheduler's loop
goes on (`_run_loop` catches every exception of a tick), executor threads take
steps (agents, verification and source commands have timeouts, so a stage comes
to some end; which end is not assumed), requests that were read are answered,
and the service is restarted (`deploy/systemd`: `Restart=`).  No user, ticket
change or crash is assumed, but nobody retries deliveries for ever.  `queue` has
no locked database: where the lock is never free, nothing is served.  `FairSpec`
of the slots assumes that waiting
threads poll, time advances, agents end (timeout) and the finally block runs.
That of the cohorts is that leaders and waiting runs take steps and time passes;
no run has to join, no heartbeat has to come and nobody has to cancel a run, so
a leader waits for another cohort's lease until that is released or expires.
`WaitersAnswered` excepts the followers of a leader whose thread died without a
word (`Abandoned`).  That of the delivery is that an
execution goes on and that a failed or interrupted run is executed again: an
interrupted one by recovery, a failed one by somebody who asks for
retry-delivery.  `RetriesDeliver` is about what such retries lead to once the
faults have stopped (`calm`), so it assumes the asking and lists the dead ends
that no retry leaves (`DeadEnd`).  That of the intake is the scheduler's loop
and the end of a request; polls fail a bounded number of times.  `TicketsArrive`
says nothing of the time while an enabled project is red.

## 4. Where code and design disagree

Two runs check a sentence of `docs/design-spec.md` each, and TLC finds a
behaviour of the code that breaks it.

| Run | What happens |
|---|---|
| `claim_stale_cancel` | `cancel_task` reads `queued`; the executor claims; the cancel writes `canceled` over `running`.  The checks look for `cancel_requested` only, so the pipeline goes on and delivers a canceled run (against 15.1). |
| `claim_tapd_cursor` | The first cursor of a TAPD source is a pipeline's `intakeStartedAt`, `2024-05-01T08:00:00+00:00`.  `poll` compares it as a string with `2024-05-01 09:12:00`; the blank sorts before the `T`, so every ticket changed on that day is skipped, and later cursors are past them (against 5.1). |

The models show further differences, for which no run is kept.

Tasks and runs:

- An executor fails with an error of the database, and the handler in
  `Scheduler._execute` that is to record it opens the database itself and
  handles `KeyError` only (`scheduler.py:193`).  When that is locked too, the
  run stays `running` with no thread on it, until the next start of the service
  recovers it: start and retry are refused, a cancel makes the task
  `cancel_requested` and no more, and ingestion takes it for busy.  The comment
  there says that no exception may leave a run so; `NoOrphanRun` excepts exactly
  these runs (`lost`).
- A request that activates the waiting tasks stops at the first locked write:
  the rest of its list stays waiting although the mode is automatic.
- A run completes; then `git worktree remove` in the finally block times out;
  the exception reaches `Scheduler._execute`, which fails the completed run and
  its task (28.2 has no such transition).
- `cancel_task` reads `running`, the run completes, the UPDATE writes
  `cancel_requested`.  No executor is left to honour it, and start, cancel and
  retry all refuse that status; ingestion skips it as busy (against 15.1).
- A crash after the freeze with a cancel request pending: recovery queues the
  delivery and the request is gone (against 15.1).
- The ticket is edited and ingested while its run is busy; the delivery fails
  and is retried for the old content (against 15.3).
- A reopened task waits to be started with the old `current_run_id`; canceling
  it marks the completed run canceled (against 28.5).
- A queued task canceled after its executor started is first canceled, as
  15.1 says; then `claim_run` refuses the canceled run and `_execute` records
  the refusal as a failure.
- A cancel request that arrives between the claim and the first stage meets
  `_check_cancel` before the pipeline's `try`: the run ends failed, not
  canceled.
- A completed task reopened by an edit shows the old `result` while it waits or
  is queued (8.2: only a completed task has one).
- Switching to automatic mode leaves tasks waiting (against 5.3) when
  `PUT /settings` does it, or when a poll that read the old mode ingests after
  the activation listed the waiting tasks.
- A database error ends the heartbeat thread of an agent silently; the lease
  expires under the living agent and is granted again: two agents under a
  limit of one (against section 17).
- A lowered `maxConcurrentLlmCalls` does not hold for executors built before:
  their pool keeps the limit it was given (against section 17 of the design).
- An old run whose delivery is retried again and again goes before all newer
  ones, since the queue is ordered by the creation of the run: `QueuedIsServed`
  is checked under the assumption that retries end.

Cohorts and leases:

- Two leaders of one key may INSERT the lease row at once.  The loser's
  `IntegrityError` (`leases.py:42`) is outside every handler of
  `_resolve_as_leader`: its cohort is never decided and its followers poll until
  they are canceled, where 775 of the design gives them the leader's failure.
- After a crash within the window, a run may still join the open cohort of the
  dead leader, and waits in the same way.
- Once a refresh lease has expired under a slow leader, two may refresh at once:
  the slow one still does, and of two that read the expired row both may take
  it.  `RefreshExclusive` speaks of the time before the first expiry.

Delivery:

- GitLab: the commit of a push is stored on success only.  When the push
  arrives and its answer is lost, the retry builds another commit and refuses
  the branch as foreign (`push.py:81`); the design (13.5) reconciles it.
- GitHub: a retry that fails while it lists pull requests or branches writes a
  target row without `expectedCommit` (`delivery.py:304`); the branch an earlier
  attempt pushed is foreign from then on.
- A crash leaves the worktree of a delivery commit behind, and every later
  attempt fails because it exists (`materializer.py:53`).
- A crash or a full disk leaves a part of the patch under its final name, which
  a later attempt refuses as another content unless `overwrite` is set.
- A resumed delivery reports `delivery_failed` even when the fallback patch
  failed too, and a GitLab row that succeeded loses its commit when the refresh
  of a later attempt fails.

Intake:

- Redmine: a ticket changed between the list and its details moves the cursor
  past tickets changed in between.  Tickets changed in a second the cursor has
  already reached are passed over as well, and so are tickets that move to an
  earlier page because one that is already listed changes (with TAPD: because
  any ticket changes between two pages).
- Two requests that enable projects of one source overlap: the one that took
  its time later writes configuration and cursor first, and then the other one
  enables its project, with an earlier time, without a cursor of its own.  What
  was created between the two times belongs to that project and is behind the
  cursor.
- A project is enabled while a poll that does not know it is under way: the
  tickets of that poll which only this project wants end as failed tasks bound
  to no project, or are ignored, and the cursor passes them.
- A poll fetches for the projects that are enabled and healthy.  The tickets of
  a red project whose source a healthy one shares end as failed tasks bound to no
  project, and the cursor passes them; the first cursor does not look at red
  projects either.
- Between a tick's decision to poll and the poll the last project of a source is
  disabled or turns red: the poll goes on (`scheduler.py:210` has no guard of its
  own), from the stored cursor or, if there is none, from the beginning of the
  source, and makes a failed task bound to no project of every ticket it lists.
- Two pipelines want the same ticket and the one that ranks higher began after
  the ticket was created: the ticket is ignored, and the cursor passes it.  When
  that pipeline is disabled the other one wants the ticket, and no poll shows it
  again.
- A ticket is routed when it is ingested: a project enabled later gets it only
  after its next change.

Frozen change:

- The write policy is asked about the new name of a renamed file only; the old
  one may lie outside the allowed roots.
- `restore_candidate` does not delete the old file of a rename, so a run whose
  verification leaves anything behind fails with
  `verification_mutated_workspace` if its change has a rename.
- A file with a non-ASCII name that the change deletes is listed as modified
  (the status listing quotes it), and the freeze fails because it is missing; a
  rename of such a file leaves the old one in the localization directory.
- The freeze reads the files from the worktree again, after the verification.
  What it reads is only known to be stored by git as the patch has it
  (`FrozenIsVerified`): the comparison after the verification is one of patches,
  made from the index.  A command that changes line endings alone goes unnoticed,
  and the frozen file, and the localization directory after it, have its bytes.
  The design (89) forbids to read again.
- A symbolic link is frozen as the content it leads to, where the patch has a
  link; one that leads nowhere or to a directory makes the freeze fail.
- The text of a patch is decoded with replacement (`process_runner.py:149`).  A
  change of a file that is not UTF-8 is frozen and delivered with lost bytes, and
  once a verification command leaves anything behind it cannot be restored, so
  the run fails.  `FrozenIsVerified` and `DeliversTheFrozen` name a patch by the
  index it was made from: that it is the same patch every time, not that it
  applies.
- `clean -fd` leaves repositories inside the worktree alone, and knows the
  `.gitignore` of the baseline: a verification command that makes such a
  repository, or that puts an ignore rule back which the candidate has removed
  and leaves a file the rule names, may cost the run its candidate (`LeftoversAreScrubbed` names these
  exceptions).  A `.gitignore` the candidate itself changes does no harm: the
  `git add` before the comparison has put the leftovers into the index, and
  `reset --hard` removes them.
- A request that fails half-way leaves the localization directory half
  changed, and a run that starts meanwhile reads it so.

Configuration: `config_store.py` compares the ETag and writes the whole file
without a lock; two writers with one ETag both succeed, and one change is lost,
although all write interfaces are to prevent that (1336 of the design).

## 5. Proofs

TLAPS checks the following for every number of tickets, contents, runs,
requests, executors, crashes, slots, targets, files and every lease time.

`TaskLifecycleProofs`:
`TypeCorrect`, `ActiveRunUnique`, `NoOrphans`, `FrozenFinal`, `SnapshotKept`,
`ExecutorsLimited`, `RunsMirrored` state the safety properties of the runs
`operated` and `unattended`, with a database that may be locked at any access.
The base is `LifecycleTypes`, the inductive invariant `TypeOK /\ Rows`: a type
invariant alone is not inductive because `ClaimRun` and its like write
`taskStatus[runTask[r]]`, which has a meaning only if an executor's run, a
request's run and a task's current run are rows that exist (`Rows`).
Every step of `Next` is shown once to be either *opening* (it inserts a run or
queues one, guarded by the absence of another active run) or *updating* (no run
becomes active): lemma `StepOpensOrUpdates`.  `ActiveRunUnique` needs nothing
else.  `NoOrphans` and `FrozenFinal` strengthen their properties by what the
executor remembers (`FrozenResumes`: a claimed frozen run has the plan to
resume), `SnapshotKept` by `PickedIsOwn`: what `claim_run` selected is the
run's own snapshot whenever it has one.
`RunsMirrored` is about a service without requests (`Clients = {}`) whose
cleanup cannot raise (`~CleanupRaises`, a Subversion project), because with
either `TaskMirrorsRun` is false.  The store's writes overwrite the task without
looking at it; the strengthening `ExecutorsOwnRuns` says that an executor which
may still write owns an active run, so that by `OneActiveRun` no other run's
task is overwritten, and `DownIsIdle` that recovery meets no executor.

`LlmSlotsProofs`:
`SlotTypes`, `SlotExclusion`, `GrantCapacity`, `LeaseEnds`, `GrantOrder` and the
refinement `PoolKeepsPromise` for every environment, `AgentLeases` for one
without stalls and locked databases.
That `try_acquire` always finds a free slot number when fewer leases than the
capacity exist is a pigeonhole argument (`FreeSlotExists`); `GrantOrder` rests
on positions being distinct and below the counter (`Positions`).
`PoolKeepsPromise` reads a request's place in the pool off both tables, so it
needs that they agree (`RowsAgree`: a row is `granted` exactly as long as its
lease exists, and a request that is not queued yet has no row).  An `enqueue` is
then a `Join`, because its position is above all others; a grant is a `Serve`
that parts with everything `_reap_expired_locked` finds, a refused poll is the
same without the service (`GiveUp`), a canceled wait and a release are a
`Leave` unless the row was reaped before, and every other step, a crash and the
passing of time included, is a stutter.

`CohortProofs`: `CohortTypes`, `SharedByAll`, `CohortsStayClosed`,
`OneRefresher`, `BaselineIsFresh` and the refinement `CoordinatorKeepsPromise`.
The inductive invariant is `TypeOK` with four parts: who is member of what
(`Membership`), that a cohort is decided once and a decision agrees with its
state (`Decisions`), that a leader before its decision has written none
(`Leaders`), and that an answer is the decision of the cohort (`Answers`).
`SharedBaseline` follows from `Answers` alone; `OneRefresher` adds `LeaseHeld`
(until an expiry, whoever is between taking and releasing the lease owns its
row, and nobody updates a row it read as expired), `BaselineIsFresh` adds
`Fresh`.  Each action is shown to be a `Join`, a `Decide` or an `Answer` of
`CohortPromise`, or a stutter.

`DeliveryProofs`: `DeliveryTypes`, `SuccessesAreReal`, `FallbacksAreWhole`,
`IntentsFirst`, `SucceededStays` and the refinement `DeliveryKeepsPromise`.  The
invariant has `Control` (which rows the place in the execution implies), `Loop`
(what the GitHub loop has behind it), `Reality` (what a row says exists on the
remote) and `Files`.  That a pull request is not opened twice rests on `Loop`:
between the listing and the answer of the proposal the target has none.

`FrozenChangeProofs`: `FrozenInvariant` and from it `FrozenTypes`,
`FrozenVerified`, `FrozenDelivered`, `FrozenInScope`, `FrozenForGood`,
`LeftoversScrubbed`, `AppliedWhole`.  The invariant has `Candidate` (after the
verification the staged worktree is the candidate), `Freeze` (what is on disk so
far is part of it, wherever the freeze stopped) and `Apply` (what a request has
behind it is in the directory, whatever the others do).  `LeftoversScrubbed`
rests on a lemma about indexes alone (`RestoredIsCandidate`): but for the named
exceptions `Restored` stages to the candidate from any worktree.  That a frozen
file is what git stores in the patch (`Read`) follows from the comparison of the
staged worktree with the candidate, whatever filters, links, ignore rules and
rename detection are, as long as `Filters`, `FiltersAgree`, `Opening` and
`RenameDetection` hold of them.

`TicketIntakeProofs`: `IntakeTypes` and `CursorPassesNobody`, for both sources,
any page length and any number of tickets, pipelines, failing polls and
requests.  `Typed` is the inductive type invariant: beyond `TypeOK` it says that
the poll's copy of the configuration and the requests in flight are well formed,
that a ticket a poll has found exists, and that no ticket was changed before it
was created or in the future.
`CoverInv` is the inductive invariant behind the cursor.  It speaks of the
tickets that are `Entitled`: those a pipeline wants, or may come to want when
a request in flight is done.  Its parts:

- a cursor is a second in which no ticket changes any more, or no later than the
  pipelines began (`CursorsNotAhead`), and pipelines only begin later
  (`StartsInOrder`; `SettingsStand` for a service where nobody switches them);
- what a poll has found or read of a ticket is its content, or the ticket has
  changed since and the next poll will see it (`FoundHolds`, `BatchHolds`);
- the pages fetched so far are a prefix of the answer (`PagesHold`), and a poll
  that reads forgets no entitled ticket (`NothingForgotten`);
- the stored cursor, and the one the poll started from, pass no entitled ticket
  whose task has not its content; a cursor that an enabled pipeline wrote during
  the poll passes none at all (`CursorsCover`).

The k-th ticket of an answer is the one that k - 1 others come before; that
every ticket has its place is a counting argument (`Ranked`, `AnswerRanks`).

The theorem assumes what the code needs.  Nobody changes a ticket in a second in
which a page was read (`"seconds"`).  For Redmine, nobody changes one between
its listing and its details (`"listed"`); then changes between two pages do no
harm, since a change puts a ticket at the end of the list and those on earlier
pages keep their places (`PagesStay`).  For TAPD, which is not asked to sort by
time, nobody changes one between two pages (`"pages"`).  A poll
finds the enabled pipelines healthy (`"health"`).  If pipelines are switched at
all (`MaxSwitches`), requests do not overlap (`"requests"`), none is between its
time and its configuration while a poll reads the projects (`"polls"`), and no two
pipelines take the same ticket.  Section 4 tells what the cursor passes without
one of them.

The assumptions are the named ASSUMEs of the modules, which TLC evaluates.

Only model-checked: the liveness properties `QueuedIsServed`,
`ExecutorsFinish`, `WaitersServed`, `WaitersAnswered`, `RetriesDeliver` and
`TicketsArrive`, since the prover handles neither fairness nor ENABLED.

## 6. Plan

1. (done) `TaskStore`, `TaskLifecycle`, `LlmSlots`, their runs and proofs.
2. (done) `BaselineCohorts` with the worker leases, its promise and proofs.
3. (done) `Delivery`, its promise and proofs.
4. (done) `TicketIntake`; `FrozenChange` and its proofs.
5. (done) Proofs of `TypeOK` and `CursorCovers` of the intake.
6. (done) `FifoPool`, which `LlmSlots` implements.
7. An abstract life of one run that `TaskLifecycle` implements; `ProcessRunner` (exit, timeout, cancel of a process group), `GitCache`,
   Subversion working copies.

## 7. Not modelled

Agent command lines and output parsing, the parsing of foreign records,
workspace detection, similarity scoring, the probes of a preflight, the frontend, JSON
schemas and deployment files: input, output and formatting without state that
another component depends on.  Where they influence the models they appear as
nondeterministic outcomes.  The configuration store is one unlocked read and
write of a file: a model would restate it (section 4).  The git cache, the
Subversion adapter and the process runner have states of their own and are left
for later (section 6).  Left out of modelled components: stage rows and events,
the artifact index, the editing of projects (`PUT /projects`: routing rules that
change under a poll), agents and commands that stage files themselves, the
delivery by path mappings (it counts as the delivery
commit), texts of commits and pull requests, the fields of routing rules.
