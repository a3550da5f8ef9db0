----------------------------- MODULE TaskStore -----------------------------
(***************************************************************************)
(* The durable task and run tables (infrastructure/task_store.py) and the  *)
(* transactions that write them.  Each operator below is the WRITE part of *)
(* one store method: the statements of one `with self.connection` block,   *)
(* which SQLite commits together.  The SELECT a method does before its     *)
(* first write runs outside that transaction (the driver opens it at the   *)
(* first INSERT/UPDATE), so the callers in TaskLifecycle take it as a step *)
(* of its own, and the values it read arrive here as arguments.            *)
(***************************************************************************)
EXTENDS Naturals, FiniteSets

CONSTANTS
  Tasks,      \* tickets of the sources; a task row exists once ingested
  Versions,   \* distinct contents (content hashes) a ticket can have
  MaxRuns,    \* bound: number of TaskRuns ever created
  None        \* SQL NULL

ASSUME RunBound == MaxRuns \in Nat
ASSUME NoneIsNull == None \notin Tasks \cup Versions

VARIABLES
  taskStatus,   \* tasks.status, "absent" while there is no row
  bound,        \* tasks.project_id is a real project (not the UNBOUND id)
  current,      \* tasks.current_run_id, NoRun for NULL
  result,       \* tasks.result
  snapshot,     \* ticket_records.current_snapshot_id (its content)
  stored,       \* contents of the ticket that have a ticket_snapshots row
  runTask,      \* task_runs.task_id
  runStatus,    \* task_runs.status, "unused" while there is no row
  runSnapshot   \* task_runs.ticket_snapshot_id (its content)

ticketVars == <<bound, snapshot, stored>>
runVars == <<runTask, runStatus, runSnapshot>>
dbVars == <<taskStatus, current, result, ticketVars, runVars>>

NoRun == 0
\* Runs are numbered in the order of task_runs.created_at.
RunIds == 1 .. MaxRuns

Idle == {"awaiting_start", "completed", "failed", "canceled"}
Busy == {"queued", "running", "cancel_requested"}
TaskStatuses == Idle \cup Busy \cup {"absent"}
RunStatuses == {"unused", "queued", "running", "completed", "failed", "canceled"}
Startable == {"awaiting_start", "failed", "canceled"}
Modes == {"automatic", "awaitingStart"}
\* What routing makes of a ticket: no unique project, a project but the
\* ticket is not eligible, or a project and eligible.
Routes == {"unrouted", "ineligible", "matched"}

ActiveRun(r) == runStatus[r] \in {"queued", "running"}
HasActiveRun(t) == \E r \in RunIds : runTask[r] = t /\ ActiveRun(r)

StoreInit ==
  /\ taskStatus = [t \in Tasks |-> "absent"]
  /\ bound = [t \in Tasks |-> FALSE]
  /\ current = [t \in Tasks |-> NoRun]
  /\ result = [t \in Tasks |-> None]
  /\ snapshot = [t \in Tasks |-> None]
  /\ stored = [t \in Tasks |-> {}]
  /\ runTask = [r \in RunIds |-> None]
  /\ runStatus = [r \in RunIds |-> "unused"]
  /\ runSnapshot = [r \in RunIds |-> None]

---------------------------------------------------------------------------
\* The INSERT branch of _create_run: the task's new current run is queued.
InsertRun(t) ==
  \E r \in RunIds :
    /\ runStatus[r] = "unused"
    /\ \A q \in RunIds : q < r => runStatus[q] # "unused"
    /\ runTask' = [runTask EXCEPT ![r] = t]
    /\ runStatus' = [runStatus EXCEPT ![r] = "queued"]
    /\ current' = [current EXCEPT ![t] = r]

\* _create_run as start_task calls it: an active run is reused and then no
\* row changes, not even the task's status.
StartTask(t) ==
  /\ \/ /\ ~HasActiveRun(t)
        /\ InsertRun(t)
        /\ taskStatus' = [taskStatus EXCEPT ![t] = "queued"]
     \/ /\ HasActiveRun(t)
        /\ UNCHANGED <<runTask, runStatus, current, taskStatus>>
  /\ UNCHANGED <<result, ticketVars, runSnapshot>>

\* A ticket of the poll opens its task when it is new, when its content was
\* never stored, or when an unbound task now has a project; never while the
\* task is busy.
Opens(t, v, route) ==
  /\ taskStatus[t] \notin Busy
  /\ v \notin stored[t] \/ (~bound[t] /\ route # "unrouted")

\* Mutant: the execution mode is stored where the status belongs.
OpenedStatusIsMode(route, execMode) ==
  CASE route = "unrouted"   -> "failed"
    [] route = "ineligible" -> "canceled"
    [] OTHER -> execMode

OpenedStatus(route, execMode) ==
  CASE route = "unrouted"   -> "failed"
    [] route = "ineligible" -> "canceled"
    [] OTHER -> IF execMode = "automatic" THEN "queued" ELSE "awaiting_start"

\* ingest: store the snapshot, make it current, and open the task if Opens.
Ingest(t, v, route, execMode) ==
  /\ stored' = [stored EXCEPT ![t] = @ \cup {v}]
  /\ snapshot' = [snapshot EXCEPT ![t] = v]
  /\ IF Opens(t, v, route)
     THEN /\ bound' = [bound EXCEPT ![t] = route # "unrouted"]
          /\ taskStatus' = [taskStatus EXCEPT ![t] = OpenedStatus(route, execMode)]
          /\ IF OpenedStatus(route, execMode) = "queued" /\ ~HasActiveRun(t)
             THEN InsertRun(t)
             ELSE UNCHANGED <<runTask, runStatus, current>>
     ELSE UNCHANGED <<bound, taskStatus, runTask, runStatus, current>>
  /\ UNCHANGED <<result, runSnapshot>>

\* Mutant: no unique index on the active runs of a task.
RetryUnindexed(t, r) ==
  /\ runStatus' = [runStatus EXCEPT ![r] = "queued"]
  /\ taskStatus' = [taskStatus EXCEPT ![t] = "queued"]
  /\ result' = [result EXCEPT ![t] = None]
  /\ UNCHANGED <<current, ticketVars, runTask, runSnapshot>>

\* retry_frozen_delivery.  The partial unique index on active runs rejects the
\* UPDATE (and rolls the transaction back) when another run became active.
RetryDelivery(t, r) ==
  \/ /\ \E q \in RunIds \ {r} : runTask[q] = t /\ ActiveRun(q)
     /\ UNCHANGED dbVars
  \/ /\ \A q \in RunIds \ {r} : runTask[q] = t => ~ActiveRun(q)
     /\ runStatus' = [runStatus EXCEPT ![r] = "queued"]
     /\ taskStatus' = [taskStatus EXCEPT ![t] = "queued"]
     /\ result' = [result EXCEPT ![t] = None]
     /\ UNCHANGED <<current, ticketVars, runTask, runSnapshot>>

\* cancel_task for a task read as awaiting_start or queued with current run r.
CancelNow(t, r) ==
  /\ taskStatus' = [taskStatus EXCEPT ![t] = "canceled"]
  /\ runStatus' = IF r = NoRun THEN runStatus
                  ELSE [runStatus EXCEPT ![r] = "canceled"]
  /\ UNCHANGED <<current, result, ticketVars, runTask, runSnapshot>>

\* cancel_task for a task read as running.
RequestCancel(t) ==
  /\ taskStatus' = [taskStatus EXCEPT ![t] = "cancel_requested"]
  /\ UNCHANGED <<current, result, ticketVars, runVars>>

---------------------------------------------------------------------------
\* Mutant: a resumed run takes the ticket's newest snapshot.
NewestSnapshot(r) == snapshot[runTask[r]]

\* The SELECT of claim_run picks the run's own snapshot, else the ticket's.
ClaimSnapshot(r) ==
  IF runSnapshot[r] # None THEN runSnapshot[r] ELSE snapshot[runTask[r]]

\* The UPDATEs of claim_run.  Only the run's is conditional on the status.
ClaimRun(r, v) ==
  /\ IF runStatus[r] = "queued"
     THEN /\ runStatus' = [runStatus EXCEPT ![r] = "running"]
          /\ runSnapshot' = [runSnapshot EXCEPT ![r] = v]
     ELSE UNCHANGED <<runStatus, runSnapshot>>
  /\ taskStatus' = [taskStatus EXCEPT ![runTask[r]] = "running"]
  /\ UNCHANGED <<current, result, ticketVars, runTask>>

\* complete_run, fail_run and cancel_run write the run and its task whatever
\* their statuses are.
FinishRun(r, status, outcome) ==
  /\ runStatus' = [runStatus EXCEPT ![r] = status]
  /\ taskStatus' = [taskStatus EXCEPT ![runTask[r]] = status]
  /\ result' = [result EXCEPT ![runTask[r]] = outcome]
  /\ UNCHANGED <<current, ticketVars, runTask, runSnapshot>>

CompleteRun(r, outcome) == FinishRun(r, "completed", outcome)
FailRun(r) == FinishRun(r, "failed", None)
CancelRun(r) == FinishRun(r, "canceled", None)

\* is_cancel_requested looks at the task only.
CancelRequested(r) == taskStatus[runTask[r]] = "cancel_requested"

\* Mutant: recovery queues a frozen run and forgets its task's row.
RecoverRunsOnly(frozenRuns) ==
  LET interrupted == {r \in RunIds : runStatus[r] = "running"}
      lost == interrupted \ frozenRuns
  IN /\ runStatus' = [r \in RunIds |->
                        IF r \in lost THEN "failed"
                        ELSE IF r \in interrupted THEN "queued" ELSE runStatus[r]]
     /\ taskStatus' = [t \in Tasks |->
                         IF \E r \in lost : runTask[r] = t THEN "failed"
                         ELSE taskStatus[t]]
     /\ UNCHANGED <<current, result, ticketVars, runTask, runSnapshot>>

\* recover_interrupted_runs, given the runs whose change manifest is on disk.
RecoverRuns(frozenRuns) ==
  LET interrupted == {r \in RunIds : runStatus[r] = "running"}
      resumed == interrupted \cap frozenRuns
      lost == interrupted \ frozenRuns
  IN /\ runStatus' = [r \in RunIds |->
                        CASE r \in resumed -> "queued"
                          [] r \in lost -> "failed"
                          [] OTHER -> runStatus[r]]
     /\ taskStatus' = [t \in Tasks |->
                         CASE \E r \in resumed : runTask[r] = t -> "queued"
                           [] \E r \in lost : runTask[r] = t -> "failed"
                           [] OTHER -> taskStatus[t]]
     /\ result' = [t \in Tasks |->
                     IF \E r \in lost : runTask[r] = t THEN None ELSE result[t]]
     /\ UNCHANGED <<current, ticketVars, runTask, runSnapshot>>

StoreTypeOK ==
  /\ taskStatus \in [Tasks -> TaskStatuses]
  /\ bound \in [Tasks -> BOOLEAN]
  /\ current \in [Tasks -> RunIds \cup {NoRun}]
  /\ result \in [Tasks -> {None, "changed", "no_change"}]
  /\ snapshot \in [Tasks -> Versions \cup {None}]
  /\ stored \in [Tasks -> SUBSET Versions]
  /\ runTask \in [RunIds -> Tasks \cup {None}]
  /\ runStatus \in [RunIds -> RunStatuses]
  /\ runSnapshot \in [RunIds -> Versions \cup {None}]
=============================================================================
