--------------------------- MODULE TaskLifecycle ---------------------------
(***************************************************************************)
(* The life of tasks and runs: the scheduler's tick, the executor threads  *)
(* it starts (RunExecutor and ChangedPipeline), the HTTP handlers that     *)
(* start, cancel and retry tasks or switch the execution mode, and crashes *)
(* of the service with the recovery at the next start.  Every database     *)
(* transaction and every read that another thread's transaction may        *)
(* invalidate is a step of its own.                                        *)
(***************************************************************************)
EXTENDS TaskStore

CONSTANTS
  Clients,             \* HTTP requests served at the same time
  Asked,               \* bound: what they ask for
  Routings,            \* bound: what routing makes of the tickets
  Arrival,             \* bound: pairs of tickets, the first of which reaches
                       \* its source, and is listed, before the second
  MaxConcurrentTasks,  \* execution.maxConcurrentTasks
  CleanupRaises,       \* the workspace's cleanup runs commands that can time
                       \* out (git worktrees); FALSE for SVN, which only
                       \* removes the directory and ignores errors
  MaxCrashes,          \* bound: crashes of the service
  DatabaseLocks        \* accesses to the database may fail because it stays
                       \* locked for longer than the driver waits

ASSUME LifecycleConstants ==
  /\ Asked \subseteq {"start", "cancel", "retry", "mode"}
  /\ Routings \subseteq Routes
  /\ Arrival \subseteq Tasks \X Tasks
  /\ MaxConcurrentTasks \in Nat \ {0}
  /\ CleanupRaises \in BOOLEAN
  /\ MaxCrashes \in Nat
  /\ DatabaseLocks \in BOOLEAN

VARIABLES
  ticket,  \* the content a ticket has at its source
  mode,    \* execution.mode of the effective configuration
  tick,    \* the tick under way: the mode it read and the tickets to ingest
  req,     \* what each HTTP request has read and is about to write
  pc,      \* where the executor of a run is; "idle": not in Scheduler._active
  plan,    \* what RunExecutor.execute decided to do with the run
  picked,  \* the snapshot the SELECT of claim_run returned
  frozen,  \* runs whose change manifest is on disk
  up, crashes,
  lost     \* runs whose executor, since their claim, was locked out when it
           \* was to record their failure

execVars == <<pc, plan, picked, frozen>>
vars == <<dbVars, ticket, mode, tick, req, execVars, up, crashes, lost>>

\* The pipeline's stages and cancel checks in program order.
NextPhase ==
  [check_start |-> "prepare", prepare |-> "discovery",
   discovery |-> "check_discovery", check_discovery |-> "workspace",
   workspace |-> "repair", verify |-> "check_verify",
   check_verify |-> "stability", stability |-> "freeze", freeze |-> "index",
   index |-> "check_freeze", check_freeze |-> "deliver"]

Checks == {"check_start", "check_discovery", "check_verify", "check_freeze"}
\* Phases before the repair workspace exists: nothing to clean up after them.
Unprepared == {"check_start", "prepare", "discovery", "check_discovery", "workspace"}
\* Phases whose agent or command polls the cancel request.
Cancelable == {"discovery", "repair", "verify"}
Stages == (DOMAIN NextPhase \ Checks) \cup {"repair", "recheck", "deliver"}
\* The executor is alive and has not yet written the end of the run.
Working == DOMAIN NextPhase \cup {"repair", "recheck", "deliver", "unwind"}
Phases == Working \cup {"idle", "begin", "claim", "claimed", "cleanup", "done"}
\* Phases that may still change the repair workspace.
Repairing == Working \ {"index", "check_freeze", "deliver", "unwind"}

NoTick == [phase |-> "idle", mode |-> "automatic", batch |-> {}]
NoReq == [op |-> "idle", task |-> None, run |-> NoRun, todo |-> {}]
Ops == {"idle", "start", "cancelNow", "requestCancel", "retry", "list", "activate"}

Init ==
  /\ StoreInit
  /\ ticket \in [Tasks -> Versions]
  /\ mode \in Modes
  /\ tick = NoTick
  /\ req = [c \in Clients |-> NoReq]
  /\ pc = [r \in RunIds |-> "idle"]
  /\ plan = [r \in RunIds |-> "fresh"]
  /\ picked = [r \in RunIds |-> None]
  /\ frozen = {}
  /\ up = TRUE
  /\ crashes = 0
  /\ lost = {}

---------------------------------------------------------------------------
\* Somebody edits a ticket.
EditTicket(t) ==
  /\ \E v \in Versions \ {ticket[t]} : ticket' = [ticket EXCEPT ![t] = v]
  /\ UNCHANGED <<dbVars, mode, tick, req, execVars, up, crashes, lost>>

(***************************************************************************)
(* The scheduler.  One tick forgets the finished executors, polls the      *)
(* providers that are due, then starts executors for queued runs.          *)
(***************************************************************************)
Active == {r \in RunIds : pc[r] # "idle"}

\* What a poll may find: any tickets that are at their source.
Batches ==
  {b \in SUBSET Tasks :
     \A p \in Arrival : p[2] \in b => p[1] \in b \/ snapshot[p[1]] # None}

\* Mutant: the tick does not forget the finished executors.
BeginTickWithoutReap ==
  /\ up
  /\ tick.phase = "idle"
  /\ \E batch \in Batches :
       tick' = [phase |-> "poll", mode |-> mode, batch |-> batch]
  /\ UNCHANGED <<dbVars, ticket, mode, req, execVars, up, crashes, lost>>

\* The effective configuration is read before the network poll that fetches
\* the batch; the batch is empty when no provider is due.  A finished thread is
\* forgotten with what it decided.
BeginTick ==
  /\ up
  /\ tick.phase = "idle"
  /\ pc' = [r \in RunIds |-> IF pc[r] = "done" THEN "idle" ELSE pc[r]]
  /\ plan' = [r \in RunIds |-> IF pc[r] = "done" THEN "fresh" ELSE plan[r]]
  /\ \E batch \in Batches :
       tick' = [phase |-> "poll", mode |-> mode, batch |-> batch]
  /\ UNCHANGED <<dbVars, ticket, mode, req, picked, frozen, up, crashes, lost>>

IngestTicket ==
  /\ up
  /\ \E t \in tick.batch, route \in Routings :
       /\ \A p \in Arrival : p[2] = t => p[1] \notin tick.batch
       /\ Ingest(t, ticket[t], route, tick.mode)
       /\ tick' = [tick EXCEPT !.batch = @ \ {t}]
  /\ UNCHANGED <<ticket, mode, req, execVars, up, crashes, lost>>

\* An error of the ticket source drops the rest of the batch.
PollFails ==
  /\ up
  /\ tick.batch # {}
  /\ tick' = [tick EXCEPT !.batch = {}]
  /\ UNCHANGED <<dbVars, ticket, mode, req, execVars, up, crashes, lost>>

\* Mutant: LIMIT counts the runs of every status.
QueuedAmongOldest(limit) == {r \in 1 .. limit : r \in RunIds /\ runStatus[r] = "queued"}

\* list_queued_run_ids(limit): the oldest queued runs.
QueuedRuns(limit) ==
  {r \in RunIds : /\ runStatus[r] = "queued"
                  /\ Cardinality({q \in 1 .. r : runStatus[q] = "queued"}) <= limit}

\* Mutant: the executors still active are not subtracted from the capacity.
DispatchWithoutCount ==
  /\ up
  /\ tick.phase = "poll" /\ tick.batch = {}
  /\ tick' = NoTick
  /\ LET started == QueuedRuns(MaxConcurrentTasks) \ Active
     IN pc' = [r \in RunIds |-> IF r \in started THEN "begin" ELSE pc[r]]
  /\ UNCHANGED <<dbVars, ticket, mode, req, plan, picked, frozen, up, crashes, lost>>

Dispatch ==
  /\ up
  /\ tick.phase = "poll" /\ tick.batch = {}
  /\ tick' = NoTick
  /\ LET capacity == MaxConcurrentTasks - Cardinality(Active)
         started == IF capacity <= 0 THEN {} ELSE QueuedRuns(capacity) \ Active
     IN pc' = [r \in RunIds |-> IF r \in started THEN "begin" ELSE pc[r]]
  /\ UNCHANGED <<dbVars, ticket, mode, req, plan, picked, frozen, up, crashes, lost>>

\* Somebody's access to the database fails.
Locked == up /\ DatabaseLocks

\* The tick cannot read the queue; _run_loop goes on with the next tick.
DispatchLockedOut ==
  /\ Locked
  /\ tick.phase = "poll" /\ tick.batch = {}
  /\ tick' = NoTick
  /\ UNCHANGED <<dbVars, ticket, mode, req, execVars, up, crashes, lost>>

---------------------------------------------------------------------------
(***************************************************************************)
(* RunExecutor.execute.                                                    *)
(***************************************************************************)
Goto(r, phase) == pc' = [pc EXCEPT ![r] = phase]

\* Mutant: the frozen change on disk is not looked at.
ExecAfresh(r) ==
  /\ up
  /\ pc[r] = "begin"
  /\ plan' = [plan EXCEPT ![r] = "fresh"]
  /\ Goto(r, "claim")
  /\ UNCHANGED <<dbVars, ticket, mode, tick, req, picked, frozen, up, crashes, lost>>

\* A run with a frozen change only delivers.  Otherwise a missing project, a
\* failed preflight or an incomplete configuration rejects it before it runs.
ExecBegin(r) ==
  /\ up
  /\ pc[r] = "begin"
  /\ \E p \in IF r \in frozen THEN {"resume"} ELSE {"fresh", "reject"} :
       plan' = [plan EXCEPT ![r] = p]
  /\ Goto(r, "claim")
  /\ UNCHANGED <<dbVars, ticket, mode, tick, req, picked, frozen, up, crashes, lost>>

\* The SELECT and the checks of claim_run; every caller lets the ValueError
\* escape to Scheduler._execute.
ClaimRead(r) ==
  /\ up
  /\ pc[r] = "claim"
  /\ IF runStatus[r] = "queued" /\ ClaimSnapshot(r) # None
     THEN picked' = [picked EXCEPT ![r] = ClaimSnapshot(r)] /\ Goto(r, "claimed")
     ELSE picked' = picked /\ Goto(r, "unwind")
  /\ UNCHANGED <<dbVars, ticket, mode, tick, req, plan, frozen, up, crashes, lost>>

\* The UPDATEs of claim_run, then get_run_context, which raises KeyError when
\* the run still has no snapshot.  A rejected run is failed next.
ClaimWrite(r) ==
  /\ up
  /\ pc[r] = "claimed"
  /\ ClaimRun(r, picked[r])
  /\ Goto(r, IF runSnapshot'[r] = None \/ plan[r] = "reject" THEN "unwind"
             ELSE IF plan[r] = "resume" THEN "deliver" ELSE "check_start")
  /\ picked' = [picked EXCEPT ![r] = None]
  /\ lost' = lost \ {r}
  /\ UNCHANGED <<ticket, mode, tick, req, plan, frozen, up, crashes>>

---------------------------------------------------------------------------
(***************************************************************************)
(* ChangedPipeline.run after the claim, and _resume_frozen_delivery.       *)
(***************************************************************************)
\* Where the executor goes once it has written the end of the run.
AfterEnd(r) ==
  IF pc[r] \in Unprepared \/ plan[r] = "resume" THEN "done" ELSE "cleanup"

\* _check_cancel.  The first check is outside the try block: its exception
\* escapes to Scheduler._execute.  The others end in cancel_run.
CheckCancel(r) ==
  /\ up
  /\ pc[r] \in Checks
  /\ IF ~CancelRequested(r)
     THEN Goto(r, NextPhase[pc[r]]) /\ UNCHANGED dbVars
     ELSE IF pc[r] = "check_start"
          THEN Goto(r, "unwind") /\ UNCHANGED dbVars
          ELSE CancelRun(r) /\ Goto(r, AfterEnd(r))
  /\ UNCHANGED <<ticket, mode, tick, req, plan, picked, frozen, up, crashes, lost>>

\* The ticket as its source shows it is the one the run was claimed with.
Stable(r) == ticket[runTask[r]] = runSnapshot[r]

\* A stage that finishes; "freeze" puts the change manifest on disk.
PassStage(r) ==
  /\ up
  /\ pc[r] \in DOMAIN NextPhase \ Checks
  /\ pc[r] = "stability" => Stable(r)
  /\ Goto(r, NextPhase[pc[r]])
  /\ frozen' = IF pc[r] = "freeze" THEN frozen \cup {r} ELSE frozen
  /\ UNCHANGED <<dbVars, ticket, mode, tick, req, plan, picked, up, crashes, lost>>

\* The repair agent reports a change, or that none is needed; the stage looks
\* at the cancel request once more before it accepts the result.
PassRepair(r) ==
  /\ up
  /\ pc[r] = "repair"
  /\ ~CancelRequested(r)
  /\ Goto(r, "verify") \/ Goto(r, "recheck")
  /\ UNCHANGED <<dbVars, ticket, mode, tick, req, plan, picked, frozen, up, crashes, lost>>

\* The stability check of a run that needs no change passes, or delivery does.
Complete(r) ==
  /\ up
  /\ \/ pc[r] = "recheck" /\ Stable(r) /\ CompleteRun(r, "no_change")
     \/ pc[r] = "deliver" /\ CompleteRun(r, "changed")
  /\ Goto(r, AfterEnd(r))
  /\ UNCHANGED <<ticket, mode, tick, req, plan, picked, frozen, up, crashes, lost>>

\* The agent or the verification command was stopped by the cancel request.
AgentCanceled(r) ==
  /\ up
  /\ pc[r] \in Cancelable
  /\ CancelRequested(r)
  /\ CancelRun(r)
  /\ Goto(r, AfterEnd(r))
  /\ UNCHANGED <<ticket, mode, tick, req, plan, picked, frozen, up, crashes, lost>>

\* A stage fails with an error the pipeline handles.
StageFails(r) ==
  /\ up
  /\ pc[r] \in Stages
  /\ FailRun(r)
  /\ Goto(r, AfterEnd(r))
  /\ UNCHANGED <<ticket, mode, tick, req, plan, picked, frozen, up, crashes, lost>>

\* A stage raises an exception the pipeline does not handle (a source command
\* that fails, a cancel request seen while waiting for the shared baseline).
\* The workspace is cleaned up on the way out.
StageRaises(r) ==
  /\ up
  /\ pc[r] \in Stages
  /\ plan[r] # "resume"
  /\ Goto(r, "unwind")
  /\ UNCHANGED <<dbVars, ticket, mode, tick, req, plan, picked, frozen, up, crashes, lost>>

\* The executor cannot connect, read or commit, wherever it is: no handler of
\* the pipeline is for that.
LockedOut(r) ==
  /\ Locked
  /\ pc[r] \in Phases \ {"idle", "unwind", "cleanup", "done"}
  /\ Goto(r, "unwind")
  /\ picked' = [picked EXCEPT ![r] = None]
  /\ UNCHANGED <<dbVars, ticket, mode, tick, req, plan, frozen, up, crashes, lost>>

\* Mutant: an escaping exception only ends the thread.
UnwindSilently(r) ==
  /\ up
  /\ pc[r] = "unwind"
  /\ Goto(r, "done")
  /\ UNCHANGED <<dbVars, ticket, mode, tick, req, plan, picked, frozen, up, crashes, lost>>

\* Scheduler._execute fails the run of an executor that raised (and
\* _fail_before_execution that of a rejected run).
Unwind(r) ==
  /\ up
  /\ pc[r] = "unwind"
  /\ FailRun(r)
  /\ Goto(r, "done")
  /\ UNCHANGED <<ticket, mode, tick, req, plan, picked, frozen, up, crashes, lost>>

\* The handler itself opens the database and writes, and handles only KeyError:
\* the thread ends and the run stays as it is.
UnwindLockedOut(r) ==
  /\ Locked
  /\ pc[r] = "unwind"
  /\ Goto(r, "done")
  /\ lost' = IF runStatus[r] = "running" THEN lost \cup {r} ELSE lost
  /\ UNCHANGED <<dbVars, ticket, mode, tick, req, plan, picked, frozen, up, crashes>>

\* The pipeline's finally block.  A cleanup command that times out raises, after
\* the end of the run was written.
CleanUp(r) ==
  /\ up
  /\ pc[r] = "cleanup"
  /\ Goto(r, "done") \/ (CleanupRaises /\ Goto(r, "unwind"))
  /\ UNCHANGED <<dbVars, ticket, mode, tick, req, plan, picked, frozen, up, crashes, lost>>

---------------------------------------------------------------------------
(***************************************************************************)
(* HTTP requests: what each reads is one step, what it writes the next.    *)
(***************************************************************************)
Ask(c, op, t, r) == req' = [req EXCEPT ![c] = [op |-> op, task |-> t, run |-> r, todo |-> {}]]
CanStart(t) == bound[t] /\ taskStatus[t] \in Startable
unchangedByRequests == <<ticket, execVars, tick, up, crashes, lost>>

\* POST /tasks/{id}/start: the guards of start_task.
StartRead(c, t) ==
  /\ up /\ "start" \in Asked
  /\ req[c].op = "idle"
  /\ CanStart(t)
  /\ Ask(c, "start", t, NoRun)
  /\ UNCHANGED <<dbVars, mode, unchangedByRequests>>

\* POST /tasks/{id}/cancel: cancel_task's SELECT decides what it will write.
CancelRead(c, t) ==
  /\ up /\ "cancel" \in Asked
  /\ req[c].op = "idle"
  /\ \/ taskStatus[t] \in {"awaiting_start", "queued"} /\ Ask(c, "cancelNow", t, current[t])
     \/ taskStatus[t] = "running" /\ Ask(c, "requestCancel", t, NoRun)
  /\ UNCHANGED <<dbVars, mode, unchangedByRequests>>

\* POST /tasks/{id}/retry-delivery: the current run has a frozen change, and
\* the run and its task failed.
RetryRead(c, t) ==
  /\ up /\ "retry" \in Asked
  /\ req[c].op = "idle"
  /\ current[t] \in frozen
  /\ taskStatus[t] = "failed" /\ runStatus[current[t]] = "failed"
  /\ Ask(c, "retry", t, current[t])
  /\ UNCHANGED <<dbVars, mode, unchangedByRequests>>

\* PUT /settings/execution-mode: switching to automatic goes on to activate
\* the waiting tasks.  PUT /settings replaces the mode and nothing else.
SetMode(c) ==
  /\ up /\ "mode" \in Asked
  /\ req[c].op = "idle"
  /\ mode' \in Modes \ {mode}
  /\ \/ req' = req
     \/ mode' = "automatic" /\ Ask(c, "list", None, NoRun)
  /\ UNCHANGED <<dbVars, unchangedByRequests>>

ListWaiting(c) ==
  /\ up
  /\ req[c].op = "list"
  /\ req' = [req EXCEPT ![c].op = "activate",
                        ![c].todo = {t \in Tasks : taskStatus[t] = "awaiting_start"}]
  /\ UNCHANGED <<dbVars, mode, unchangedByRequests>>

\* start_task for the next listed task; one it refuses is skipped.
ActivateRead(c) ==
  /\ up
  /\ req[c].op = "activate"
  /\ \/ req[c].todo = {} /\ req' = [req EXCEPT ![c] = NoReq]
     \/ \E t \in req[c].todo :
          req' = [req EXCEPT ![c].todo = @ \ {t},
                             ![c].op = IF CanStart(t) THEN "start" ELSE "activate",
                             ![c].task = IF CanStart(t) THEN t ELSE None]
  /\ UNCHANGED <<dbVars, mode, unchangedByRequests>>

\* The transaction of the request.
Write(c) ==
  /\ up
  /\ \/ req[c].op = "start" /\ StartTask(req[c].task)
     \/ req[c].op = "cancelNow" /\ CancelNow(req[c].task, req[c].run)
     \/ req[c].op = "requestCancel" /\ RequestCancel(req[c].task)
     \/ req[c].op = "retry" /\ RetryDelivery(req[c].task, req[c].run)
  /\ req' = [req EXCEPT ![c] = IF req[c].todo = {} THEN NoReq
                               ELSE [@ EXCEPT !.op = "activate", !.task = None]]
  /\ UNCHANGED <<mode, unchangedByRequests>>

\* The transaction fails and the request is answered with an error; an
\* activation leaves the rest of its list waiting.
WriteLockedOut(c) ==
  /\ Locked
  /\ req[c].op \in {"start", "cancelNow", "requestCancel", "retry"}
  /\ req' = [req EXCEPT ![c] = NoReq]
  /\ UNCHANGED <<dbVars, mode, ticket, execVars, tick, up, crashes, lost>>

---------------------------------------------------------------------------
\* The process dies: threads and requests are gone, tables and files stay.
Crash ==
  /\ up /\ crashes < MaxCrashes
  /\ up' = FALSE
  /\ crashes' = crashes + 1
  /\ tick' = NoTick
  /\ req' = [c \in Clients |-> NoReq]
  /\ pc' = [r \in RunIds |-> "idle"]
  /\ plan' = [r \in RunIds |-> "fresh"]
  /\ picked' = [r \in RunIds |-> None]
  /\ lost' = {}
  /\ UNCHANGED <<dbVars, ticket, mode, frozen>>

\* Scheduler.start: recovery runs before the loop and the API.
Restart ==
  /\ ~up
  /\ up' = TRUE
  /\ RecoverRuns(frozen)
  /\ UNCHANGED <<ticket, mode, tick, req, execVars, crashes, lost>>

Execute(r) ==
  \/ ExecBegin(r) \/ ClaimRead(r) \/ ClaimWrite(r)
  \/ CheckCancel(r) \/ PassStage(r) \/ PassRepair(r) \/ Complete(r)
  \/ AgentCanceled(r) \/ StageFails(r) \/ StageRaises(r) \/ Unwind(r) \/ CleanUp(r)
  \/ LockedOut(r) \/ UnwindLockedOut(r)

Request(c) ==
  \/ \E t \in Tasks : StartRead(c, t) \/ CancelRead(c, t) \/ RetryRead(c, t)
  \/ SetMode(c)

Respond(c) == ListWaiting(c) \/ ActivateRead(c) \/ Write(c) \/ WriteLockedOut(c)

Tick == BeginTick \/ IngestTicket \/ PollFails \/ Dispatch \/ DispatchLockedOut

Next ==
  \/ \E t \in Tasks : EditTicket(t)
  \/ Tick
  \/ \E r \in RunIds : Execute(r)
  \/ \E c \in Clients : Request(c) \/ Respond(c)
  \/ Crash \/ Restart

Spec == Init /\ [][Next]_vars

\* Threads keep running, the loop keeps ticking, requests are answered and the
\* service manager restarts the process.  Nothing makes a user act, a ticket
\* arrive or a crash happen; but nobody retries deliveries for ever, since a
\* retried run keeps its place before all newer ones.
Fairness ==
  /\ WF_vars(Tick)
  /\ WF_vars(Restart)
  /\ \A r \in RunIds : WF_vars(Execute(r))
  /\ \A c \in Clients : WF_vars(Respond(c))
  /\ <>[][\A c \in Clients, t \in Tasks : ~RetryRead(c, t)]_vars

FairSpec == Spec /\ Fairness

---------------------------------------------------------------------------
\* Every row, request and executor is in one of the states the code has.
TypeOK ==
  /\ StoreTypeOK
  /\ ticket \in [Tasks -> Versions]
  /\ mode \in Modes
  /\ tick \in [phase : {"idle", "poll"}, mode : Modes, batch : SUBSET Tasks]
  /\ req \in [Clients -> [op : Ops, task : Tasks \cup {None},
                         run : RunIds \cup {NoRun}, todo : SUBSET Tasks]]
  /\ pc \in [RunIds -> Phases]
  /\ plan \in [RunIds -> {"fresh", "resume", "reject"}]
  /\ picked \in [RunIds -> Versions \cup {None}]
  /\ frozen \in SUBSET RunIds
  /\ up \in BOOLEAN
  /\ crashes \in 0 .. MaxCrashes
  /\ lost \in SUBSET RunIds

\* A task never has two active runs, however start, activation, ingestion,
\* retry and recovery interleave.
OneActiveRun ==
  \A q, r \in RunIds :
    ActiveRun(q) /\ ActiveRun(r) /\ runTask[q] = runTask[r] => q = r

\* While the service is up, a run recorded as running has an executor that
\* will still write its end: no error of a stage, race, locked transaction or
\* crash leaves a run "running" with nobody working on it (Scheduler._execute,
\* recovery).  The one way out is a handler in _execute that is locked out
\* itself; the next start of the service repairs that.
NoOrphanRun ==
  up => \A r \in RunIds :
          runStatus[r] = "running" => pc[r] \in Working \/ r \in lost

\* Once a change is frozen no executor works on the run's repair again: every
\* later execution only delivers the frozen change.
FrozenIsFinal == \A r \in frozen : pc[r] \notin Repairing

\* There are never more executors than maxConcurrentTasks.
ExecutorsBounded == Cardinality(Active) <= MaxConcurrentTasks

\* The ticket snapshot a run was claimed with is the one it keeps, across
\* recovery and delivery retries, whatever the poll stores meanwhile.
RunKeepsSnapshot ==
  [][\A r \in RunIds :
       runSnapshot[r] # None => runSnapshot'[r] = runSnapshot[r]]_vars

\* Without an operator, a task's status is that of its current run while the
\* run is active, and no other run of it is active.
TaskMirrorsRun ==
  \A r \in RunIds : ActiveRun(r) =>
    /\ current[runTask[r]] = r
    /\ taskStatus[runTask[r]] = runStatus[r]

\* No run stays queued for ever: it is claimed, canceled or failed in the end,
\* whatever is queued before it and whichever executors are still busy.
QueuedIsServed == \A r \in RunIds : []<>(runStatus[r] # "queued")

\* Every executor comes to its end and is reaped.
ExecutorsFinish == \A r \in RunIds : []<>(pc[r] = "idle")
=============================================================================
