------------------------ MODULE TaskLifecycleProofs ------------------------
(***************************************************************************)
(* Proofs about TaskLifecycle, for every set of tickets, contents and HTTP *)
(* requests, and every bound on runs, crashes and executors.               *)
(***************************************************************************)
EXTENDS TaskLifecycle, NumberLemmas, TLAPS

---------------------------------------------------------------------------
(***************************************************************************)
(* The transactions of the store keep its types.                           *)
(***************************************************************************)
\* A new run is one of the rows, and it is the current run of its task.
LEMMA InsertTyped ==
  ASSUME StoreTypeOK, NEW t \in Tasks, InsertRun(t)
  PROVE  /\ runTask' \in [RunIds -> Tasks \cup {None}]
         /\ runStatus' \in [RunIds -> RunStatuses]
         /\ current' \in [Tasks -> RunIds \cup {NoRun}]
BY DEF StoreTypeOK, InsertRun, RunStatuses

\* start_task.
LEMMA StartTyped ==
  ASSUME StoreTypeOK, NEW t \in Tasks, StartTask(t)
  PROVE  StoreTypeOK'
BY InsertTyped DEF StoreTypeOK, StartTask, TaskStatuses, Busy, ticketVars

\* ingest.
LEMMA IngestTyped ==
  ASSUME StoreTypeOK, NEW t \in Tasks, NEW v \in Versions, NEW route \in Routes,
         NEW execMode \in Modes, Ingest(t, v, route, execMode)
  PROVE  StoreTypeOK'
<1>1. OpenedStatus(route, execMode) \in TaskStatuses
  BY DEF OpenedStatus, TaskStatuses, Idle, Busy
<1>2. /\ runTask' \in [RunIds -> Tasks \cup {None}]
      /\ runStatus' \in [RunIds -> RunStatuses]
      /\ current' \in [Tasks -> RunIds \cup {NoRun}]
  BY InsertTyped DEF Ingest, StoreTypeOK
<1>3. bound' \in [Tasks -> BOOLEAN] /\ taskStatus' \in [Tasks -> TaskStatuses]
  BY <1>1 DEF Ingest, StoreTypeOK
<1>4. stored' \in [Tasks -> SUBSET Versions] /\ snapshot' \in [Tasks -> Versions \cup {None}]
  BY DEF Ingest, StoreTypeOK
<1>5. QED
  BY <1>2, <1>3, <1>4 DEF Ingest, StoreTypeOK

\* retry_frozen_delivery.
LEMMA RetryTyped ==
  ASSUME StoreTypeOK, NEW t \in Tasks, NEW r \in RunIds \cup {NoRun}, RetryDelivery(t, r)
  PROVE  StoreTypeOK'
BY DEF StoreTypeOK, RetryDelivery, TaskStatuses, Busy, RunStatuses, dbVars,
   ticketVars, runVars

\* cancel_task, for a task that waits and for one that runs.
LEMMA CancelTyped ==
  ASSUME StoreTypeOK, NEW t \in Tasks, NEW r \in RunIds \cup {NoRun},
         CancelNow(t, r) \/ RequestCancel(t)
  PROVE  StoreTypeOK'
BY DEF StoreTypeOK, CancelNow, RequestCancel, TaskStatuses, Idle, Busy, RunStatuses,
   ticketVars, runVars

\* claim_run.
LEMMA ClaimTyped ==
  ASSUME StoreTypeOK, NEW r \in RunIds, NEW v \in Versions \cup {None}, ClaimRun(r, v)
  PROVE  StoreTypeOK'
BY DEF StoreTypeOK, ClaimRun, TaskStatuses, Busy, RunStatuses, ticketVars

\* complete_run, fail_run and cancel_run.
LEMMA FinishTyped ==
  ASSUME StoreTypeOK, NEW r \in RunIds,
         NEW status \in {"completed", "failed", "canceled"},
         NEW outcome \in {None, "changed", "no_change"},
         FinishRun(r, status, outcome)
  PROVE  StoreTypeOK'
BY DEF StoreTypeOK, FinishRun, TaskStatuses, Idle, RunStatuses, ticketVars

\* recover_interrupted_runs.
LEMMA RecoverTyped ==
  ASSUME StoreTypeOK, NEW frozenRuns, RecoverRuns(frozenRuns)
  PROVE  StoreTypeOK'
BY DEF StoreTypeOK, RecoverRuns, TaskStatuses, Idle, Busy, RunStatuses, ticketVars

\* A transaction whose every write is to the tables only.
LEMMA DbUnchanged ==
  ASSUME StoreTypeOK, UNCHANGED dbVars
  PROVE  StoreTypeOK'
BY DEF StoreTypeOK, dbVars, ticketVars, runVars

---------------------------------------------------------------------------
(***************************************************************************)
(* The pipeline's program order.                                           *)
(***************************************************************************)
\* The phase after a stage or check is a phase the executor works in.
LEMMA NextPhaseWorks == \A p \in DOMAIN NextPhase : NextPhase[p] \in Working
BY DEF NextPhase, Working

---------------------------------------------------------------------------
(***************************************************************************)
(* Type correctness.                                                       *)
(*                                                                         *)
(* TypeOK is not inductive alone: claim_run joins a run with its task and  *)
(* reads the ticket's snapshot, so a run that an executor claims must be a *)
(* row with a task.  Rows says that everything that names a run names a    *)
(* row, and that row's own task.                                           *)
(***************************************************************************)
RowsHaveTasks == \A r \in RunIds : runStatus[r] # "unused" => runTask[r] \in Tasks
IsRowOf(r, t) == runStatus[r] # "unused" /\ runTask[r] = t
CurrentIsRow == \A t \in Tasks : current[t] # NoRun => IsRowOf(current[t], t)
RequestsNameRows ==
  \A c \in Clients : req[c].op \in {"cancelNow", "retry"} /\ req[c].run # NoRun =>
    IsRowOf(req[c].run, req[c].task)
RequestsHaveTasks ==
  \A c \in Clients : req[c].op \in {"start", "cancelNow", "requestCancel", "retry"} =>
    req[c].task \in Tasks
ExecutorsHaveRows == \A r \in RunIds : pc[r] # "idle" => runStatus[r] # "unused"

Rows ==
  /\ RowsHaveTasks /\ CurrentIsRow
  /\ RequestsNameRows /\ RequestsHaveTasks /\ ExecutorsHaveRows

\* The executor's control state.
ExecTypeOK ==
  /\ pc \in [RunIds -> Phases]
  /\ plan \in [RunIds -> {"fresh", "resume", "reject"}]
  /\ picked \in [RunIds -> Versions \cup {None}]
  /\ frozen \in SUBSET RunIds

\* The scheduler's steps keep the types.
LEMMA TickTyped ==
  ASSUME TypeOK, Tick
  PROVE  TypeOK'
<1> USE DEF TypeOK
<1>1. CASE BeginTick
  <2>1. StoreTypeOK'
    BY <1>1, DbUnchanged DEF BeginTick
  <2>2. tick' \in [phase : {"idle", "poll"}, mode : Modes, batch : SUBSET Tasks]
    BY <1>1 DEF BeginTick, Batches
  <2>3. pc' \in [RunIds -> Phases]
    BY <1>1 DEF BeginTick, Phases
  <2>4. QED
    BY <1>1, <2>1, <2>2, <2>3 DEF BeginTick
<1>2. CASE IngestTicket
  <2>1. PICK t \in tick.batch, route \in Routes :
          /\ Ingest(t, ticket[t], route, tick.mode)
          /\ tick' = [tick EXCEPT !.batch = @ \ {t}]
    BY <1>2, LifecycleConstants DEF IngestTicket
  <2>2. t \in Tasks /\ ticket[t] \in Versions /\ tick.mode \in Modes
    OBVIOUS
  <2>3. StoreTypeOK'
    BY <2>1, <2>2, IngestTyped
  <2>4. tick' \in [phase : {"idle", "poll"}, mode : Modes, batch : SUBSET Tasks]
    BY <2>1
  <2>5. QED
    BY <1>2, <2>3, <2>4 DEF IngestTicket, execVars
<1>3. CASE PollFails
  <2>1. StoreTypeOK'
    BY <1>3, DbUnchanged DEF PollFails
  <2>2. tick' \in [phase : {"idle", "poll"}, mode : Modes, batch : SUBSET Tasks]
    BY <1>3 DEF PollFails
  <2>3. QED
    BY <1>3, <2>1, <2>2 DEF PollFails, execVars
<1>4. CASE Dispatch
  <2>1. StoreTypeOK'
    BY <1>4, DbUnchanged DEF Dispatch
  <2>2. tick' \in [phase : {"idle", "poll"}, mode : Modes, batch : SUBSET Tasks]
    BY <1>4 DEF Dispatch, NoTick, Modes
  <2>3. pc' \in [RunIds -> Phases]
    BY <1>4 DEF Dispatch, Phases
  <2>4. QED
    BY <1>4, <2>1, <2>2, <2>3 DEF Dispatch
<1>5. CASE DispatchLockedOut
  <2>1. StoreTypeOK'
    BY <1>5, DbUnchanged DEF DispatchLockedOut
  <2>2. tick' \in [phase : {"idle", "poll"}, mode : Modes, batch : SUBSET Tasks]
    BY <1>5 DEF DispatchLockedOut, NoTick, Modes
  <2>3. QED
    BY <1>5, <2>1, <2>2 DEF DispatchLockedOut, execVars
<1>6. QED
  BY <1>1, <1>2, <1>3, <1>4, <1>5 DEF Tick

\* An executor's steps keep the types.
LEMMA ExecuteTyped ==
  ASSUME TypeOK, RowsHaveTasks, NEW r \in RunIds, Execute(r)
  PROVE  TypeOK'
<1> DEFINE rest == <<ticket, mode, tick, req, up, crashes>>
<1>1. SUFFICES StoreTypeOK' /\ ExecTypeOK' /\ lost' \subseteq RunIds /\ UNCHANGED rest
  BY DEF TypeOK, ExecTypeOK
<1>2. UNCHANGED rest
  BY DEF Execute, ExecBegin, ClaimRead, ClaimWrite, CheckCancel, PassStage,
     PassRepair, Complete, AgentCanceled, StageFails, StageRaises, Unwind, CleanUp,
     LockedOut, UnwindLockedOut
<1>3. StoreTypeOK'
  <2>1. CASE UNCHANGED dbVars
    BY <2>1, DbUnchanged DEF TypeOK
  <2>2. CASE ClaimWrite(r)
    BY <2>2, ClaimTyped DEF ClaimWrite, TypeOK
  <2>3. CASE CancelRun(r) \/ FailRun(r) \/ CompleteRun(r, "changed") \/ CompleteRun(r, "no_change")
    BY <2>3, FinishTyped DEF CancelRun, FailRun, CompleteRun, TypeOK
  <2>4. QED
    BY <2>1, <2>2, <2>3 DEF Execute, ExecBegin, ClaimRead, CheckCancel, PassStage,
       PassRepair, Complete, AgentCanceled, StageFails, StageRaises, Unwind, CleanUp,
       LockedOut, UnwindLockedOut
<1>4. ExecTypeOK'
  <2> USE DEF TypeOK, ExecTypeOK
  <2>1. \A p \in Phases : Goto(r, p) => pc' \in [RunIds -> Phases]
    BY DEF Goto
  <2>2. CASE ExecBegin(r)
    BY <2>1, <2>2 DEF ExecBegin, Phases
  <2>3. CASE ClaimRead(r)
    <3>1. runStatus[r] = "queued" => ClaimSnapshot(r) \in Versions \cup {None}
      BY DEF ClaimSnapshot, StoreTypeOK, RowsHaveTasks
    <3>2. QED
      BY <2>1, <2>3, <3>1 DEF ClaimRead, Phases, Working
  <2>4. CASE ClaimWrite(r)
    BY <2>1, <2>4 DEF ClaimWrite, Phases, Working, NextPhase
  <2>5. CASE CheckCancel(r) \/ PassStage(r)
    BY <2>1, <2>5, NextPhaseWorks DEF CheckCancel, PassStage, AfterEnd, Phases,
       Working, Checks
  <2>6. CASE PassRepair(r) \/ StageRaises(r) \/ Unwind(r) \/ CleanUp(r) \/ LockedOut(r)
             \/ UnwindLockedOut(r)
    BY <2>1, <2>6 DEF PassRepair, StageRaises, Unwind, CleanUp, LockedOut,
       UnwindLockedOut, Phases, Working, NextPhase
  <2>7. CASE Complete(r) \/ AgentCanceled(r) \/ StageFails(r)
    BY <2>1, <2>7 DEF Complete, AgentCanceled, StageFails, AfterEnd, Phases
  <2>8. QED
    BY <2>2, <2>3, <2>4, <2>5, <2>6, <2>7 DEF Execute
<1>5. lost' \subseteq RunIds
  BY DEF TypeOK, Execute, ExecBegin, ClaimRead, ClaimWrite, CheckCancel, PassStage,
     PassRepair, Complete, AgentCanceled, StageFails, StageRaises, Unwind, CleanUp,
     LockedOut, UnwindLockedOut
<1>6. QED
  BY <1>2, <1>3, <1>4, <1>5

\* What an HTTP request's steps do to the types.
LEMMA RequestTyped ==
  ASSUME TypeOK, RequestsHaveTasks, NEW c \in Clients, Request(c) \/ Respond(c)
  PROVE  TypeOK'
<1> DEFINE reqs == [Clients -> [op : Ops, task : Tasks \cup {None},
                                run : RunIds \cup {NoRun}, todo : SUBSET Tasks]]
<1> DEFINE entries == [op : Ops, task : Tasks \cup {None},
                       run : RunIds \cup {NoRun}, todo : SUBSET Tasks]
<1>1. SUFFICES StoreTypeOK' /\ req' \in reqs /\ mode' \in Modes
               /\ UNCHANGED unchangedByRequests
  BY DEF TypeOK, unchangedByRequests, execVars
<1>2. \A op \in Ops, t \in Tasks \cup {None}, r \in RunIds \cup {NoRun} :
        Ask(c, op, t, r) => req' \in reqs
  BY DEF Ask, TypeOK
<1>3. ASSUME NEW t \in Tasks, StartRead(c, t) \/ CancelRead(c, t) \/ RetryRead(c, t)
      PROVE  StoreTypeOK' /\ req' \in reqs /\ mode' \in Modes
             /\ UNCHANGED unchangedByRequests
  <2>1. current[t] \in RunIds \cup {NoRun}
    BY DEF TypeOK, StoreTypeOK
  <2>2. req' \in reqs
    BY <1>2, <1>3, <2>1 DEF StartRead, CancelRead, RetryRead, Ops
  <2>3. QED
    BY <1>3, <2>2, DbUnchanged DEF StartRead, CancelRead, RetryRead, TypeOK
<1>4. CASE SetMode(c)
  BY <1>2, <1>4, DbUnchanged DEF SetMode, TypeOK, Ops, Modes
<1>5. CASE ListWaiting(c)
  <2> DEFINE waiting == {t \in Tasks : taskStatus[t] = "awaiting_start"}
             q == [op |-> "activate", task |-> req[c].task, run |-> req[c].run, todo |-> waiting]
  <2>1. req' \in reqs
    <3>1. req[c] \in entries /\ "activate" \in Ops
      BY DEF TypeOK, Ops
    <3>2. req'[c] = q /\ \A d \in Clients \ {c} : req'[d] = req[d]
      BY <1>5, <3>1 DEF ListWaiting, TypeOK
    <3>3. q \in entries
      BY <3>1
    <3>4. QED
      BY <1>5, <3>2, <3>3 DEF ListWaiting, TypeOK
  <2>2. QED
    BY <1>5, <2>1, DbUnchanged DEF ListWaiting, TypeOK
<1>6. CASE ActivateRead(c)
  <2>1. \E q \in entries : req' = [req EXCEPT ![c] = q]
    <3>1. CASE req' = [req EXCEPT ![c] = NoReq]
      BY <3>1 DEF NoReq, Ops
    <3>2. CASE req' # [req EXCEPT ![c] = NoReq]
      <4>1. PICK t \in req[c].todo :
              req' = [req EXCEPT ![c].todo = @ \ {t},
                                 ![c].op = IF CanStart(t) THEN "start" ELSE "activate",
                                 ![c].task = IF CanStart(t) THEN t ELSE None]
        BY <1>6, <3>2 DEF ActivateRead
      <4> DEFINE q == [op |-> IF CanStart(t) THEN "start" ELSE "activate",
                       task |-> IF CanStart(t) THEN t ELSE None,
                       run |-> req[c].run, todo |-> req[c].todo \ {t}]
      <4>2. req[c] \in entries
        BY DEF TypeOK
      <4>3. q \in entries
        BY <4>2 DEF Ops
      <4>4. req'[c] = q
        BY <4>1, <4>2 DEF TypeOK
      <4>5. \A d \in Clients \ {c} : req'[d] = req[d]
        BY <4>1 DEF TypeOK
      <4>6. req' = [d \in Clients |-> req'[d]]
        BY <4>1 DEF TypeOK
      <4>7. req' = [req EXCEPT ![c] = q]
        <5> HIDE DEF q
        <5> QED BY <4>4, <4>5, <4>6 DEF TypeOK
      <4>8. QED
        BY <4>3, <4>7
    <3>3. QED
      BY <3>1, <3>2
  <2>2. req' \in reqs
    BY <2>1 DEF TypeOK
  <2>3. QED
    BY <1>6, <2>2, DbUnchanged DEF ActivateRead, TypeOK
<1>7. CASE Write(c)
  <2>1. \E q \in entries : req' = [req EXCEPT ![c] = q]
    <3>1. req[c] \in entries
      BY DEF TypeOK
    <3>2. NoReq \in entries /\ [req[c] EXCEPT !.op = "activate", !.task = None] \in entries
      BY <3>1 DEF NoReq, Ops
    <3>3. QED
      BY <1>7, <3>2 DEF Write
  <2>2. req' \in reqs
    BY <2>1 DEF TypeOK
  <2>3. StoreTypeOK'
    <3>1. StoreTypeOK /\ req[c].run \in RunIds \cup {NoRun}
      BY DEF TypeOK
    <3>2. PICK t \in Tasks : t = req[c].task
      BY <1>7 DEF Write, RequestsHaveTasks
    <3>3. StartTask(t) \/ CancelNow(t, req[c].run) \/ RequestCancel(t)
            \/ RetryDelivery(t, req[c].run)
      BY <1>7, <3>2 DEF Write
    <3>4. QED
      BY <3>1, <3>3, StartTyped, CancelTyped, RetryTyped
  <2>4. QED
    BY <1>7, <2>2, <2>3 DEF Write, TypeOK
<1>8. CASE WriteLockedOut(c)
  <2>1. req' \in reqs
    BY <1>8 DEF WriteLockedOut, TypeOK, NoReq, Ops
  <2>2. QED
    BY <1>8, <2>1, DbUnchanged DEF WriteLockedOut, TypeOK, unchangedByRequests
<1>9. QED
  BY <1>3, <1>4, <1>5, <1>6, <1>7, <1>8 DEF Request, Respond

LEMMA InitTyped == Init => TypeOK
<1> USE DEF Init, StoreInit, TypeOK, StoreTypeOK
<1>1. Init => StoreTypeOK
  BY DEF TaskStatuses, RunStatuses
<1>2. Init => tick \in [phase : {"idle", "poll"}, mode : Modes, batch : SUBSET Tasks]
  BY DEF NoTick, Modes
<1>3. Init => req \in [Clients -> [op : Ops, task : Tasks \cup {None},
                                 run : RunIds \cup {NoRun}, todo : SUBSET Tasks]]
  BY DEF NoReq, Ops
<1>4. Init => pc \in [RunIds -> Phases] /\ crashes \in 0 .. MaxCrashes
  BY LifecycleConstants DEF Phases
<1>5. QED
  BY <1>1, <1>2, <1>3, <1>4

LEMMA StepTyped ==
  ASSUME TypeOK, Rows, [Next]_vars
  PROVE  TypeOK'
<1>1. CASE \E t \in Tasks : EditTicket(t)
  BY <1>1, DbUnchanged DEF EditTicket, TypeOK, execVars
<1>2. CASE Tick
  BY <1>2, TickTyped
<1>3. CASE \E r \in RunIds : Execute(r)
  BY <1>3, ExecuteTyped DEF Rows
<1>4. CASE \E c \in Clients : Request(c) \/ Respond(c)
  BY <1>4, RequestTyped DEF Rows
<1>5. CASE Crash
  <2>1. StoreTypeOK'
    BY <1>5, DbUnchanged DEF Crash, TypeOK
  <2>2. tick' \in [phase : {"idle", "poll"}, mode : Modes, batch : SUBSET Tasks]
    BY <1>5 DEF Crash, NoTick, Modes
  <2>3. req' \in [Clients -> [op : Ops, task : Tasks \cup {None},
                            run : RunIds \cup {NoRun}, todo : SUBSET Tasks]]
    BY <1>5 DEF Crash, NoReq, Ops
  <2>4. crashes' \in 0 .. MaxCrashes
    BY <1>5, LifecycleConstants DEF Crash, TypeOK
  <2>5. ExecTypeOK' /\ up' \in BOOLEAN /\ lost' = {} /\ UNCHANGED <<ticket, mode>>
    BY <1>5 DEF Crash, ExecTypeOK, TypeOK, Phases
  <2>6. QED
    BY <2>1, <2>2, <2>3, <2>4, <2>5 DEF TypeOK, ExecTypeOK
<1>6. CASE Restart
  <2>1. StoreTypeOK'
    BY <1>6, RecoverTyped DEF Restart, TypeOK
  <2>2. QED
    BY <1>6, <2>1 DEF Restart, TypeOK, execVars
<1>7. CASE UNCHANGED vars
  BY <1>7, DbUnchanged DEF vars, TypeOK, execVars
<1>8. QED
  BY <1>1, <1>2, <1>3, <1>4, <1>5, <1>6, <1>7 DEF Next

---------------------------------------------------------------------------
(***************************************************************************)
(* What a step can do to the rows of task_runs: open one for a task that   *)
(* has no active run, or update the status of rows, where a run becomes    *)
(* active again only if no other run of its task is.                       *)
(***************************************************************************)
Opening == \E t \in Tasks : ~HasActiveRun(t) /\ InsertRun(t)
Updating ==
  /\ UNCHANGED <<runTask, current>>
  /\ \A r \in RunIds : runStatus'[r] = "unused" <=> runStatus[r] = "unused"
  /\ \A r \in RunIds : ActiveRun(r)' /\ ~ActiveRun(r) =>
       \A q \in RunIds \ {r} : runTask[q] = runTask[r] => ~ActiveRun(q)'

\* start_task and ingest open rows, and nothing else.
LEMMA StartOpens ==
  ASSUME NEW t \in Tasks, StartTask(t)
  PROVE  Opening \/ Updating
BY DEF StartTask, Opening, Updating, ActiveRun

LEMMA IngestOpens ==
  ASSUME NEW t \in Tasks, NEW v, NEW route, NEW execMode, Ingest(t, v, route, execMode)
  PROVE  Opening \/ Updating
BY DEF Ingest, Opening, Updating, ActiveRun

\* The unique index on active runs keeps a retry from being the second.
LEMMA RetryUpdates ==
  ASSUME StoreTypeOK, NEW t \in Tasks, NEW r \in RunIds \cup {NoRun},
         r # NoRun => IsRowOf(r, t), RetryDelivery(t, r)
  PROVE  Updating
<1>1. CASE UNCHANGED dbVars
  BY <1>1 DEF Updating, ActiveRun, dbVars, runVars
<1>2. CASE /\ \A q \in RunIds \ {r} : runTask[q] = t => ~ActiveRun(q)
           /\ runStatus' = [runStatus EXCEPT ![r] = "queued"]
           /\ UNCHANGED <<current, runTask>>
  <2>1. CASE r = NoRun
    BY <1>2, <2>1 DEF Updating, ActiveRun, StoreTypeOK, NoRun, RunIds
  <2>2. CASE r \in RunIds
    <3>1. /\ runStatus[r] # "unused" /\ runTask[r] = t
      BY <2>2 DEF IsRowOf, NoRun, RunIds
    <3>2. /\ runStatus'[r] = "queued"
          /\ \A q \in RunIds \ {r} : runStatus'[q] = runStatus[q]
      BY <1>2, <2>2 DEF StoreTypeOK
    <3>3. QED
      BY <1>2, <3>1, <3>2 DEF Updating, ActiveRun
  <2>3. QED
    BY <2>1, <2>2
<1>3. QED
  BY <1>1, <1>2 DEF RetryDelivery, runVars

LEMMA CancelUpdates ==
  ASSUME StoreTypeOK, NEW t \in Tasks, NEW r \in RunIds \cup {NoRun},
         r # NoRun => IsRowOf(r, t), CancelNow(t, r) \/ RequestCancel(t)
  PROVE  Updating
BY DEF StoreTypeOK, CancelNow, RequestCancel, Updating, ActiveRun, IsRowOf, runVars

LEMMA ClaimUpdates ==
  ASSUME StoreTypeOK, NEW r \in RunIds, NEW v, ClaimRun(r, v)
  PROVE  Updating
BY DEF StoreTypeOK, ClaimRun, Updating, ActiveRun

LEMMA FinishUpdates ==
  ASSUME StoreTypeOK, NEW r \in RunIds, runStatus[r] # "unused",
         CancelRun(r) \/ FailRun(r) \/ CompleteRun(r, "changed") \/ CompleteRun(r, "no_change")
  PROVE  Updating
BY DEF StoreTypeOK, CancelRun, FailRun, CompleteRun, FinishRun, Updating, ActiveRun

LEMMA RecoverUpdates ==
  ASSUME StoreTypeOK, NEW frozenRuns, RecoverRuns(frozenRuns)
  PROVE  Updating
BY DEF StoreTypeOK, RecoverRuns, Updating, ActiveRun

\* Every step of the system opens or updates.
LEMMA StepOpensOrUpdates ==
  ASSUME TypeOK, Rows, [Next]_vars
  PROVE  Opening \/ Updating
<1>1. CASE UNCHANGED dbVars
  BY <1>1 DEF Updating, ActiveRun, dbVars, runVars
<1>2. CASE IngestTicket
  <2>1. PICK t \in tick.batch, route \in Routes : Ingest(t, ticket[t], route, tick.mode)
    BY <1>2, LifecycleConstants DEF IngestTicket
  <2>2. t \in Tasks
    BY DEF TypeOK
  <2>3. QED
    BY <2>1, <2>2, IngestOpens
<1>3. ASSUME NEW r \in RunIds, Execute(r), ~UNCHANGED dbVars
      PROVE  Opening \/ Updating
  <2>1. pc[r] # "idle"
    BY <1>3 DEF Execute, ExecBegin, ClaimRead, ClaimWrite, CheckCancel, PassStage,
       PassRepair, Complete, AgentCanceled, StageFails, StageRaises, Unwind, CleanUp,
       LockedOut, UnwindLockedOut, Checks, Stages, Cancelable, NextPhase
  <2>2. StoreTypeOK /\ runStatus[r] # "unused"
    BY <2>1 DEF TypeOK, Rows, ExecutorsHaveRows
  <2>3. CASE ClaimWrite(r)
    BY <2>2, <2>3, ClaimUpdates DEF ClaimWrite
  <2>4. CASE CancelRun(r) \/ FailRun(r) \/ CompleteRun(r, "changed") \/ CompleteRun(r, "no_change")
    BY <2>2, <2>4, FinishUpdates
  <2>5. QED
    BY <1>3, <2>3, <2>4 DEF Execute, ExecBegin, ClaimRead, CheckCancel, PassStage,
       PassRepair, Complete, AgentCanceled, StageFails, StageRaises, Unwind, CleanUp,
       LockedOut, UnwindLockedOut
<1>4. ASSUME NEW c \in Clients, Write(c) PROVE Opening \/ Updating
  <2>1. StoreTypeOK /\ req[c].run \in RunIds \cup {NoRun}
    BY DEF TypeOK
  <2>2. req[c].task \in Tasks
    BY <1>4 DEF Write, Rows, RequestsHaveTasks
  <2>3. CASE StartTask(req[c].task)
    BY <2>2, <2>3, StartOpens
  <2>4. CASE RequestCancel(req[c].task)
    BY <2>4 DEF RequestCancel, Updating, ActiveRun, runVars
  <2>5. CASE /\ req[c].op \in {"cancelNow", "retry"}
             /\ CancelNow(req[c].task, req[c].run) \/ RetryDelivery(req[c].task, req[c].run)
    <3>1. req[c].run # NoRun => IsRowOf(req[c].run, req[c].task)
      BY <2>5 DEF Rows, RequestsNameRows
    <3>2. QED
      BY <2>1, <2>2, <2>5, <3>1, CancelUpdates, RetryUpdates
  <2>6. QED
    BY <1>4, <2>3, <2>4, <2>5 DEF Write
<1>5. CASE Restart
  BY <1>5, RecoverUpdates DEF Restart, TypeOK
<1>6. CASE \/ \E t \in Tasks : EditTicket(t)
           \/ BeginTick \/ PollFails \/ Dispatch \/ DispatchLockedOut \/ Crash \/ UNCHANGED vars
           \/ \E c \in Clients : Request(c) \/ ListWaiting(c) \/ ActivateRead(c) \/ WriteLockedOut(c)
  <2>1. UNCHANGED dbVars
    BY <1>6 DEF EditTicket, BeginTick, PollFails, Dispatch, DispatchLockedOut, Crash,
       vars, Request, StartRead, CancelRead, RetryRead, SetMode, ListWaiting,
       ActivateRead, WriteLockedOut
  <2>2. QED
    BY <1>1, <2>1
<1>7. QED
  BY <1>1, <1>2, <1>3, <1>4, <1>5, <1>6 DEF Next, Tick, Respond

---------------------------------------------------------------------------
(***************************************************************************)
(* Rows is preserved.                                                      *)
(***************************************************************************)
\* A row stays a row of its task.
LEMMA RowsPersist ==
  ASSUME StoreTypeOK, Opening \/ Updating, NEW r \in RunIds, runStatus[r] # "unused"
  PROVE  runStatus'[r] # "unused" /\ runTask'[r] = runTask[r]
BY DEF StoreTypeOK, Opening, Updating, InsertRun

LEMMA TablesKeepRows ==
  ASSUME TypeOK, Rows, Opening \/ Updating
  PROVE  RowsHaveTasks' /\ CurrentIsRow'
<1> USE DEF TypeOK, StoreTypeOK, Rows, RowsHaveTasks, CurrentIsRow, IsRowOf
<1>1. CASE Opening
  BY <1>1 DEF Opening, InsertRun, NoRun, RunIds
<1>2. CASE Updating
  BY <1>2 DEF Updating, NoRun
<1>3. QED
  BY <1>1, <1>2

\* A request that is answered goes on with the next task it listed.
LEMMA NextActivation ==
  ASSUME NEW q, q \in [op : Ops, task : Tasks \cup {None},
                       run : RunIds \cup {NoRun}, todo : SUBSET Tasks]
  PROVE  [q EXCEPT !.op = "activate", !.task = None].op = "activate"
OBVIOUS

\* After a list, an activation or a transaction a request names no run it
\* would write.
LEMMA RespondLeaves ==
  ASSUME TypeOK, NEW c \in Clients, Respond(c)
  PROVE  \/ req'[c].op \in {"activate", "idle"}
         \/ req'[c].op = "start" /\ req'[c].task \in Tasks
<1>1. req[c] \in [op : Ops, task : Tasks \cup {None},
                 run : RunIds \cup {NoRun}, todo : SUBSET Tasks]
  BY DEF TypeOK
<1>2. CASE ListWaiting(c)
  BY <1>1, <1>2 DEF ListWaiting, TypeOK
<1>3. CASE ActivateRead(c)
  <2>1. CASE req' = [req EXCEPT ![c] = NoReq]
    BY <2>1 DEF NoReq, TypeOK
  <2>2. CASE req' # [req EXCEPT ![c] = NoReq]
    <3>1. PICK t \in req[c].todo :
            req' = [req EXCEPT ![c].todo = @ \ {t},
                               ![c].op = IF CanStart(t) THEN "start" ELSE "activate",
                               ![c].task = IF CanStart(t) THEN t ELSE None]
      BY <1>3, <2>2 DEF ActivateRead
    <3>2. req'[c] = [op |-> IF CanStart(t) THEN "start" ELSE "activate",
                     task |-> IF CanStart(t) THEN t ELSE None,
                     run |-> req[c].run, todo |-> req[c].todo \ {t}]
      BY <1>1, <3>1 DEF TypeOK
    <3>3. QED
      BY <1>1, <3>2
  <2>3. QED
    BY <2>1, <2>2
<1>4. CASE Write(c)
  <2>1. req'[c] = NoReq \/ req'[c] = [req[c] EXCEPT !.op = "activate", !.task = None]
    BY <1>4 DEF Write, TypeOK
  <2>2. CASE req'[c] = NoReq
    BY <2>2 DEF NoReq
  <2>3. CASE req'[c] = [req[c] EXCEPT !.op = "activate", !.task = None]
    BY <1>1, <2>3, NextActivation
  <2>4. QED
    BY <2>1, <2>2, <2>3
<1>5. CASE WriteLockedOut(c)
  BY <1>5 DEF WriteLockedOut, NoReq, TypeOK
<1>6. QED
  BY <1>2, <1>3, <1>4, <1>5 DEF Respond

\* A request that names a run read it from its task just now, or earlier.
LEMMA RequestsRemember ==
  ASSUME TypeOK, [Next]_vars, NEW c \in Clients, req'[c].op \in {"cancelNow", "retry"}
  PROVE  \/ req'[c] = req[c]
         \/ req'[c].task \in Tasks /\ req'[c].run = current[req'[c].task] /\ UNCHANGED dbVars
<1> USE DEF TypeOK
<1>1. CASE UNCHANGED req
  BY <1>1
<1>2. ASSUME NEW d \in Clients, Request(d) \/ Respond(d)
      PROVE  \/ req'[c] = req[c]
             \/ req'[c].task \in Tasks /\ req'[c].run = current[req'[c].task] /\ UNCHANGED dbVars
  <2>1. CASE d # c
    BY <1>2, <2>1 DEF Request, Respond, StartRead, CancelRead, RetryRead, SetMode, Ask,
       ListWaiting, ActivateRead, Write, WriteLockedOut
  <2>2. CASE d = c
    <3>1. CASE Request(d)
      BY <2>2, <3>1 DEF Request, StartRead, CancelRead, RetryRead, SetMode, Ask
    <3>2. CASE Respond(d)
      BY <2>2, <3>2, RespondLeaves
    <3>3. QED
      BY <1>2, <3>1, <3>2
  <2>3. QED
    BY <2>1, <2>2
<1>3. CASE Crash
  BY <1>3 DEF Crash, NoReq
<1>4. QED
  BY <1>1, <1>2, <1>3 DEF Next, EditTicket, Tick, BeginTick, IngestTicket, PollFails,
     Dispatch, DispatchLockedOut, Execute, ExecBegin, ClaimRead, ClaimWrite,
     CheckCancel, PassStage, PassRepair, Complete, AgentCanceled, StageFails,
     StageRaises, Unwind, CleanUp, LockedOut, UnwindLockedOut, Restart, vars

LEMMA RequestsKeepTasks ==
  ASSUME TypeOK, Rows, [Next]_vars
  PROVE  RequestsHaveTasks'
<1> USE DEF TypeOK
<1>1. CASE UNCHANGED req
  BY <1>1 DEF Rows, RequestsHaveTasks
<1>2. ASSUME NEW d \in Clients, Request(d) \/ Respond(d) PROVE RequestsHaveTasks'
  <2>1. ASSUME NEW c \in Clients \ {d} PROVE req'[c] = req[c]
    BY <1>2 DEF Request, Respond, StartRead, CancelRead, RetryRead, SetMode, Ask,
       ListWaiting, ActivateRead, Write, WriteLockedOut
  <2>2. req'[d].op \in {"start", "cancelNow", "requestCancel", "retry"} => req'[d].task \in Tasks
    <3>1. CASE Request(d)
      BY <3>1 DEF Request, StartRead, CancelRead, RetryRead, SetMode, Ask, Rows,
         RequestsHaveTasks
    <3>2. CASE Respond(d)
      BY <3>2, RespondLeaves
    <3>3. QED
      BY <1>2, <3>1, <3>2
  <2>3. QED
    BY <2>1, <2>2 DEF Rows, RequestsHaveTasks
<1>3. CASE Crash
  BY <1>3 DEF Crash, NoReq, RequestsHaveTasks
<1>4. QED
  BY <1>1, <1>2, <1>3 DEF Next, EditTicket, Tick, BeginTick, IngestTicket, PollFails,
     Dispatch, DispatchLockedOut, Execute, ExecBegin, ClaimRead, ClaimWrite,
     CheckCancel, PassStage, PassRepair, Complete, AgentCanceled, StageFails,
     StageRaises, Unwind, CleanUp, LockedOut, UnwindLockedOut, Restart, vars

\* An executor that starts is that of a queued run.
LEMMA ExecutorsStart ==
  ASSUME TypeOK, [Next]_vars, NEW r \in RunIds, pc'[r] # "idle"
  PROVE  pc[r] # "idle" \/ runStatus[r] = "queued"
<1> USE DEF TypeOK, ExecTypeOK
<1>1. ASSUME NEW q \in RunIds, Execute(q) PROVE pc[r] # "idle" \/ runStatus[r] = "queued"
  <2>1. CASE q = r
    BY <1>1, <2>1 DEF Execute, ExecBegin, ClaimRead, ClaimWrite, CheckCancel,
       PassStage, PassRepair, Complete, AgentCanceled, StageFails, StageRaises,
       Unwind, CleanUp, LockedOut, UnwindLockedOut, Checks, Stages, Cancelable,
       NextPhase
  <2>2. CASE q # r
    BY <1>1, <2>2 DEF Execute, ExecBegin, ClaimRead, ClaimWrite, CheckCancel,
       PassStage, PassRepair, Complete, AgentCanceled, StageFails, StageRaises,
       Unwind, CleanUp, LockedOut, UnwindLockedOut, Goto
  <2>3. QED
    BY <2>1, <2>2
<1>2. CASE BeginTick \/ Dispatch
  BY <1>2 DEF BeginTick, Dispatch, QueuedRuns
<1>3. CASE Crash
  BY <1>3 DEF Crash
<1>4. CASE UNCHANGED pc
  BY <1>4
<1>5. QED
  BY <1>1, <1>2, <1>3, <1>4 DEF Next, EditTicket, Tick, IngestTicket, PollFails,
     DispatchLockedOut, Request, Respond, StartRead, CancelRead, RetryRead, SetMode,
     ListWaiting, ActivateRead, Write, WriteLockedOut, Restart, vars,
     unchangedByRequests, execVars

LEMMA StepKeepsRows ==
  ASSUME TypeOK, Rows, [Next]_vars
  PROVE  Rows'
<1>1. Opening \/ Updating
  BY StepOpensOrUpdates
<1>2. StoreTypeOK
  BY DEF TypeOK
<1>3. RequestsNameRows'
  <2>1. ASSUME NEW c \in Clients, req'[c].op \in {"cancelNow", "retry"}, req'[c].run # NoRun
        PROVE  IsRowOf(req[c].run, req[c].task)'
    <3>1. CASE req'[c] = req[c]
      <4>1. req[c].run \in RunIds /\ IsRowOf(req[c].run, req[c].task)
        BY <2>1, <3>1 DEF TypeOK, Rows, RequestsNameRows
      <4>2. QED
        BY <1>1, <1>2, <3>1, <4>1, RowsPersist DEF IsRowOf
    <3>2. CASE /\ req'[c].task \in Tasks /\ req'[c].run = current[req'[c].task]
               /\ UNCHANGED dbVars
      BY <2>1, <3>2 DEF Rows, CurrentIsRow, IsRowOf, dbVars, runVars
    <3>3. QED
      BY <2>1, <3>1, <3>2, RequestsRemember
  <2>2. QED
    BY <2>1 DEF RequestsNameRows
<1>4. ExecutorsHaveRows'
  <2>1. ASSUME NEW r \in RunIds, pc'[r] # "idle" PROVE runStatus'[r] # "unused"
    <3>1. runStatus[r] # "unused"
      BY <2>1, ExecutorsStart DEF Rows, ExecutorsHaveRows
    <3>2. QED
      BY <1>1, <1>2, <3>1, RowsPersist
  <2>2. QED
    BY <2>1 DEF ExecutorsHaveRows
<1>5. QED
  BY <1>1, <1>3, <1>4, TablesKeepRows, RequestsKeepTasks DEF Rows

---------------------------------------------------------------------------
\* Rows, requests and executors stay in the states the code has, and whatever
\* names a run names a row of task_runs and its task.
THEOREM LifecycleTypes == Spec => [](TypeOK /\ Rows)
<1>1. Init => TypeOK /\ Rows
  <2>1. Init => Rows
    BY DEF Init, StoreInit, Rows, RowsHaveTasks, CurrentIsRow, RequestsNameRows,
       RequestsHaveTasks, ExecutorsHaveRows, NoReq
  <2>2. QED
    BY <2>1, InitTyped
<1>2. TypeOK /\ Rows /\ [Next]_vars => TypeOK' /\ Rows'
  BY StepTyped, StepKeepsRows
<1>3. QED
  BY <1>1, <1>2, PTL DEF Spec

\* The type invariant of the runs, for every instance.
THEOREM TypeCorrect == Spec => []TypeOK
BY LifecycleTypes, PTL

---------------------------------------------------------------------------
\* However start, activation, ingestion, retry, cancellation and recovery
\* interleave, a task has at most one queued or running run: start_task and
\* ingest look for one in the transaction that inserts, and the unique index
\* stops a retry that read the run before another became active.
THEOREM ActiveRunUnique == Spec => []OneActiveRun
<1>1. Init => OneActiveRun
  BY DEF Init, StoreInit, OneActiveRun, ActiveRun
<1>2. ASSUME TypeOK, Rows, OneActiveRun, [Next]_vars
      PROVE  OneActiveRun'
  <2>1. Opening \/ Updating
    BY <1>2, StepOpensOrUpdates
  <2>2. CASE Opening
    BY <1>2, <2>2 DEF Opening, InsertRun, OneActiveRun, ActiveRun, HasActiveRun,
       TypeOK, StoreTypeOK
  <2>3. CASE Updating
    BY <1>2, <2>3 DEF Updating, OneActiveRun, ActiveRun
  <2>4. QED
    BY <2>1, <2>2, <2>3
<1>3. QED
  BY <1>1, <1>2, LifecycleTypes, PTL DEF Spec

---------------------------------------------------------------------------
(***************************************************************************)
(* No orphans: a run is "running" only between its executor's claim and    *)
(* the transaction with which that executor, or recovery, ends it.         *)
(***************************************************************************)
\* Only claim_run makes a run running.
LEMMA RunningIsClaimed ==
  ASSUME TypeOK, [Next]_vars, NEW r \in RunIds,
         runStatus'[r] = "running", runStatus[r] # "running"
  PROVE  ClaimWrite(r)
<1> USE DEF TypeOK, StoreTypeOK
<1>1. ASSUME NEW t \in Tasks, InsertRun(t) PROVE FALSE
  BY <1>1 DEF InsertRun
<1>2. CASE IngestTicket
  <2>1. PICK t \in tick.batch, route \in Routes : Ingest(t, ticket[t], route, tick.mode)
    BY <1>2, LifecycleConstants DEF IngestTicket
  <2>2. QED
    BY <1>1, <2>1 DEF Ingest
<1>3. ASSUME NEW q \in RunIds, Execute(q) PROVE ClaimWrite(r)
  <2>1. CASE UNCHANGED dbVars
    BY <2>1 DEF dbVars, runVars
  <2>2. CASE ClaimWrite(q)
    <3>1. q = r
      BY <2>2 DEF ClaimWrite, ClaimRun
    <3>2. QED
      BY <2>2, <3>1
  <2>3. CASE CancelRun(q) \/ FailRun(q) \/ CompleteRun(q, "changed") \/ CompleteRun(q, "no_change")
    BY <2>3 DEF CancelRun, FailRun, CompleteRun, FinishRun
  <2>4. QED
    BY <1>3, <2>1, <2>2, <2>3 DEF Execute, ExecBegin, ClaimRead, CheckCancel,
       PassStage, PassRepair, Complete, AgentCanceled, StageFails, StageRaises,
       Unwind, CleanUp, LockedOut, UnwindLockedOut
<1>4. ASSUME NEW c \in Clients, Write(c) PROVE FALSE
  <2>1. CASE StartTask(req[c].task)
    BY <2>1 DEF StartTask, InsertRun
  <2>2. CASE CancelNow(req[c].task, req[c].run)
    BY <2>2 DEF CancelNow
  <2>3. CASE RequestCancel(req[c].task)
    BY <2>3 DEF RequestCancel, runVars
  <2>4. CASE RetryDelivery(req[c].task, req[c].run)
    BY <2>4 DEF RetryDelivery, dbVars, runVars
  <2>5. QED
    BY <1>4, <2>1, <2>2, <2>3, <2>4 DEF Write
<1>5. CASE Restart
  BY <1>5 DEF Restart, RecoverRuns
<1>6. CASE UNCHANGED dbVars
  BY <1>6 DEF dbVars, runVars
<1>7. QED
  BY <1>2, <1>3, <1>4, <1>5, <1>6 DEF Next, Tick, EditTicket, BeginTick, PollFails,
     Dispatch, DispatchLockedOut, Crash, vars, Request, Respond, StartRead,
     CancelRead, RetryRead, SetMode, ListWaiting, ActivateRead, WriteLockedOut

\* An executor goes on working until it writes the end of its run.
LEMMA WorkerStays ==
  ASSUME TypeOK, [Next]_vars, NEW r \in RunIds,
         pc[r] \in Working, runStatus'[r] = "running"
  PROVE  pc'[r] \in Working \/ r \in lost' \/ up' = FALSE
<1> USE DEF TypeOK, StoreTypeOK, ExecTypeOK
<1>1. ASSUME NEW q \in RunIds \ {r}, Execute(q) PROVE pc'[r] = pc[r]
  BY <1>1 DEF Execute, ExecBegin, ClaimRead, ClaimWrite, CheckCancel, PassStage,
     PassRepair, Complete, AgentCanceled, StageFails, StageRaises, Unwind, CleanUp,
     LockedOut, UnwindLockedOut, Goto
<1>2. CASE Execute(r)
  <2>1. CASE CancelRun(r) \/ FailRun(r) \/ CompleteRun(r, "changed") \/ CompleteRun(r, "no_change")
    BY <2>1 DEF CancelRun, FailRun, CompleteRun, FinishRun
  <2>2. CASE CheckCancel(r) /\ ~CancelRun(r)
    BY <2>2, NextPhaseWorks DEF CheckCancel, Goto, Checks, NextPhase, Working
  <2>3. CASE PassStage(r)
    BY <2>3, NextPhaseWorks DEF PassStage, Goto
  <2>4. CASE PassRepair(r) \/ StageRaises(r)
    BY <2>4 DEF PassRepair, StageRaises, Goto, Working, NextPhase
  <2>5. CASE ExecBegin(r) \/ ClaimRead(r) \/ ClaimWrite(r) \/ CleanUp(r)
    BY <2>5 DEF ExecBegin, ClaimRead, ClaimWrite, CleanUp, Working, NextPhase
  <2>6. CASE LockedOut(r)
    BY <2>6 DEF LockedOut, Goto, Working, NextPhase
  <2>7. CASE UnwindLockedOut(r)
    BY <2>7 DEF UnwindLockedOut, dbVars, runVars
  <2>8. QED
    BY <1>2, <2>1, <2>2, <2>3, <2>4, <2>5, <2>6, <2>7
       DEF Execute, Complete, AgentCanceled, StageFails, Unwind
<1>3. CASE BeginTick \/ Dispatch
  <2>1. pc[r] \notin {"done", "idle"}
    BY DEF Working, NextPhase
  <2>2. CASE BeginTick
    BY <2>1, <2>2 DEF BeginTick
  <2>3. CASE Dispatch
    BY <2>1, <2>3 DEF Dispatch, Active
  <2>4. QED
    BY <1>3, <2>2, <2>3
<1>4. CASE Crash
  BY <1>4 DEF Crash
<1>5. CASE UNCHANGED pc
  BY <1>5
<1>6. QED
  BY <1>1, <1>2, <1>3, <1>4, <1>5 DEF Next, EditTicket, Tick, IngestTicket, PollFails,
     DispatchLockedOut, Request, Respond, StartRead, CancelRead, RetryRead, SetMode,
     ListWaiting, ActivateRead, Write, WriteLockedOut, Restart, vars,
     unchangedByRequests, execVars

\* A run whose end could not be recorded is known as such until somebody claims
\* it anew or the service stops.
LEMMA LostStays ==
  ASSUME [Next]_vars, NEW r \in RunIds, r \in lost, ~ClaimWrite(r)
  PROVE  r \in lost' \/ up' = FALSE
<1>1. ASSUME NEW q \in RunIds, Execute(q) PROVE r \in lost'
  <2>1. CASE ClaimWrite(q)
    BY <2>1 DEF ClaimWrite
  <2>2. CASE UnwindLockedOut(q)
    BY <2>2 DEF UnwindLockedOut
  <2>3. QED
    BY <1>1, <2>1, <2>2 DEF Execute, ExecBegin, ClaimRead, CheckCancel, PassStage,
       PassRepair, Complete, AgentCanceled, StageFails, StageRaises, Unwind, CleanUp,
       LockedOut
<1>2. CASE Crash
  BY <1>2 DEF Crash
<1>3. CASE UNCHANGED lost
  BY <1>3
<1>4. QED
  BY <1>1, <1>2, <1>3 DEF Next, EditTicket, Tick, BeginTick, IngestTicket, PollFails,
     Dispatch, DispatchLockedOut, Request, Respond, StartRead, CancelRead, RetryRead,
     SetMode, ListWaiting, ActivateRead, Write, WriteLockedOut, Restart, vars,
     unchangedByRequests

\* No error of a stage, race, locked transaction or crash leaves a run "running"
\* with nobody working on it while the service is up (Scheduler._execute,
\* recover_interrupted_runs), but for the runs whose failure _execute could not
\* record because the database was locked then as well.
THEOREM NoOrphans == Spec => []NoOrphanRun
<1>1. Init => NoOrphanRun
  BY DEF Init, StoreInit, NoOrphanRun
<1>2. ASSUME TypeOK, NoOrphanRun, [Next]_vars, up' = TRUE,
             NEW r \in RunIds, runStatus'[r] = "running"
      PROVE  pc'[r] \in Working \/ r \in lost'
  <2>1. CASE runStatus[r] # "running"
    <3>1. ClaimWrite(r)
      BY <1>2, <2>1, RunningIsClaimed
    <3>2. QED
      BY <3>1, <1>2 DEF ClaimWrite, Goto, Working, NextPhase, TypeOK
  <2>2. CASE runStatus[r] = "running" /\ up
    <3>1. CASE pc[r] \in Working
      BY <1>2, <3>1, WorkerStays
    <3>2. CASE r \in lost /\ ~ClaimWrite(r)
      BY <1>2, <3>2, LostStays
    <3>3. CASE ClaimWrite(r)
      BY <1>2, <3>3 DEF ClaimWrite, Goto, Working, NextPhase, TypeOK
    <3>4. QED
      BY <1>2, <2>2, <3>1, <3>2, <3>3 DEF NoOrphanRun
  <2>3. CASE ~up
    <3>1. Restart
      BY <1>2, <2>3 DEF Next, EditTicket, Tick, BeginTick, IngestTicket, PollFails,
         Dispatch, DispatchLockedOut, Execute, ExecBegin, ClaimRead, ClaimWrite,
         CheckCancel, PassStage, PassRepair, Complete, AgentCanceled, StageFails,
         StageRaises, Unwind, CleanUp, LockedOut, UnwindLockedOut, Request, Respond,
         StartRead, CancelRead, RetryRead, SetMode, ListWaiting, ActivateRead, Write,
         WriteLockedOut, Crash, vars
    <3>2. QED
      BY <1>2, <3>1 DEF Restart, RecoverRuns
  <2>4. QED
    BY <1>2, <2>1, <2>2, <2>3
<1>3. TypeOK /\ NoOrphanRun /\ [Next]_vars => NoOrphanRun'
  BY <1>2 DEF NoOrphanRun
<1>4. QED
  BY <1>1, <1>3, TypeCorrect, PTL DEF Spec

---------------------------------------------------------------------------
(***************************************************************************)
(* A frozen change is final, and a run keeps the snapshot of its ticket.   *)
(* Both are facts about one run's executor: what execute decided when it   *)
(* began, and what claim_run's SELECT returned, still hold when the        *)
(* executor acts on them, because only this executor freezes its run or    *)
(* writes its snapshot.                                                    *)
(***************************************************************************)
FrozenResumes ==
  \A r \in frozen : /\ pc[r] \notin Repairing
                    /\ pc[r] \in {"claim", "claimed"} => plan[r] = "resume"
PickedIsOwn ==
  \A r \in RunIds : pc[r] = "claimed" /\ runSnapshot[r] # None => picked[r] = runSnapshot[r]

\* The steps of others leave a run's executor alone.
LEMMA OthersLeaveExecutor ==
  ASSUME TypeOK, [Next]_vars, NEW r \in RunIds, ~Execute(r)
  PROVE  /\ pc'[r] = pc[r] \/ pc'[r] \in {"idle", "begin"}
         /\ pc'[r] # "idle" /\ pc'[r] = pc[r] =>
              plan'[r] = plan[r] /\ picked'[r] = picked[r]
         /\ r \in frozen' => r \in frozen
         /\ runSnapshot'[r] = runSnapshot[r]
<1> USE DEF TypeOK, StoreTypeOK
<1>1. ASSUME NEW q \in RunIds \ {r}, Execute(q)
      PROVE  /\ pc'[r] = pc[r] /\ plan'[r] = plan[r] /\ picked'[r] = picked[r]
             /\ r \in frozen' => r \in frozen
             /\ runSnapshot'[r] = runSnapshot[r]
  <2>1. CASE ExecBegin(q) \/ ClaimRead(q)
    BY <2>1 DEF ExecBegin, ClaimRead, Goto, dbVars, runVars
  <2>2. CASE ClaimWrite(q)
    BY <2>2 DEF ClaimWrite, ClaimRun, Goto
  <2>3. CASE PassStage(q) \/ PassRepair(q) \/ StageRaises(q) \/ CleanUp(q)
    BY <2>3 DEF PassStage, PassRepair, StageRaises, CleanUp, Goto, dbVars, runVars
  <2>4. CASE CheckCancel(q)
    BY <2>4 DEF CheckCancel, CancelRun, FinishRun, Goto, dbVars, runVars
  <2>5. CASE Complete(q) \/ AgentCanceled(q) \/ StageFails(q) \/ Unwind(q)
    BY <2>5 DEF Complete, AgentCanceled, StageFails, Unwind, CompleteRun, CancelRun,
       FailRun, FinishRun, Goto
  <2>6. CASE LockedOut(q) \/ UnwindLockedOut(q)
    BY <2>6 DEF LockedOut, UnwindLockedOut, Goto, dbVars, runVars
  <2>7. QED
    BY <1>1, <2>1, <2>2, <2>3, <2>4, <2>5, <2>6 DEF Execute
<1>2. CASE IngestTicket \/ PollFails \/ DispatchLockedOut
  BY <1>2 DEF IngestTicket, PollFails, DispatchLockedOut, Ingest, execVars, dbVars,
     runVars
<1>3. CASE BeginTick \/ Dispatch
  BY <1>3 DEF BeginTick, Dispatch, dbVars, runVars
<1>4. ASSUME NEW c \in Clients,
             Request(c) \/ ListWaiting(c) \/ ActivateRead(c) \/ WriteLockedOut(c)
      PROVE  UNCHANGED <<execVars, dbVars>>
  BY <1>4 DEF Request, StartRead, CancelRead, RetryRead, SetMode, ListWaiting,
     ActivateRead, WriteLockedOut, unchangedByRequests
<1>5. ASSUME NEW c \in Clients, Write(c) PROVE UNCHANGED <<execVars, runSnapshot>>
  BY <1>5 DEF Write, StartTask, CancelNow, RequestCancel, RetryDelivery, runVars,
     dbVars, unchangedByRequests
<1>6. CASE Crash
  BY <1>6 DEF Crash, dbVars, runVars
<1>7. CASE Restart
  BY <1>7 DEF Restart, RecoverRuns, execVars
<1>8. CASE UNCHANGED vars \/ \E t \in Tasks : EditTicket(t)
  BY <1>8 DEF vars, EditTicket, execVars, dbVars, runVars
<1>9. QED
  BY <1>1, <1>2, <1>3, <1>4, <1>5, <1>6, <1>7, <1>8 DEF Next, Tick, Respond, execVars,
     dbVars, runVars

\* The manifests on disk are those of runs.
LEMMA FrozenAreRuns ==
  ASSUME TypeOK, [Next]_vars
  PROVE  frozen' \subseteq RunIds
<1>1. CASE UNCHANGED frozen
  BY <1>1 DEF TypeOK
<1>2. CASE \E r \in RunIds : PassStage(r)
  BY <1>2 DEF PassStage, TypeOK
<1>3. QED
  BY <1>1, <1>2 DEF Next, EditTicket, Tick, BeginTick, IngestTicket, PollFails,
     Dispatch, DispatchLockedOut, Execute, ExecBegin, ClaimRead, ClaimWrite,
     CheckCancel, PassRepair, Complete, AgentCanceled, StageFails, StageRaises,
     Unwind, CleanUp, LockedOut, UnwindLockedOut, Request, Respond, StartRead,
     CancelRead, RetryRead, SetMode, ListWaiting, ActivateRead, Write, WriteLockedOut,
     Crash, Restart, vars, unchangedByRequests, execVars

\* The phases that may change the repair workspace, one by one.
LEMMA RepairingPhases ==
  Repairing = {"check_start", "prepare", "discovery", "check_discovery", "workspace", "repair",
               "verify", "check_verify", "stability", "freeze", "recheck"}
BY DEF Repairing, Working, NextPhase

\* What follows the freezing of the change, in program order.
LEMMA PhasesAfterFreeze ==
  /\ DOMAIN NextPhase \ Repairing = {"index", "check_freeze"}
  /\ NextPhase["index"] = "check_freeze" /\ NextPhase["check_freeze"] = "deliver"
BY DEF Repairing, Working, NextPhase

\* Once a run's change is frozen its repair is never worked on again: every
\* later execution, after a restart or a retry, only delivers it
\* (RunExecutor.execute, _resume_frozen_delivery).
THEOREM FrozenFinal == Spec => []FrozenIsFinal
<1>1. Init => FrozenResumes
  BY DEF Init, FrozenResumes
<1>2. ASSUME TypeOK, FrozenResumes, [Next]_vars, NEW r \in frozen'
      PROVE  pc'[r] \notin Repairing /\ (pc'[r] \in {"claim", "claimed"} => plan'[r] = "resume")
  <2> USE DEF TypeOK, ExecTypeOK
  <2>1. r \in RunIds
    BY <1>2, FrozenAreRuns
  <2>2. CASE ~Execute(r)
    BY <1>2, <2>1, <2>2, OthersLeaveExecutor DEF FrozenResumes, Repairing, Working,
       NextPhase
  <2>3. CASE Execute(r)
    <3>1. CASE r \notin frozen
      BY <1>2, <2>1, <2>3, <3>1 DEF Execute, ExecBegin, ClaimRead, ClaimWrite,
         CheckCancel, PassStage, PassRepair, Complete, AgentCanceled, StageFails,
         StageRaises, Unwind, CleanUp, LockedOut, UnwindLockedOut, Goto, Repairing,
         Working, NextPhase
    <3>2. CASE r \in frozen
      <4>1. pc[r] \notin Repairing /\ (pc[r] \in {"claim", "claimed"} => plan[r] = "resume")
        BY <1>2, <3>2 DEF FrozenResumes
      <4> USE <1>2, <2>1, <4>1, RepairingPhases
      <4>2. CASE ExecBegin(r)
        BY <3>2, <4>2 DEF ExecBegin, Goto
      <4>3. CASE ClaimRead(r)
        BY <4>3 DEF ClaimRead, Goto
      <4>4. CASE ClaimWrite(r)
        BY <4>4 DEF ClaimWrite, Goto
      <4>5. CASE CheckCancel(r)
        <5>1. pc[r] = "check_freeze"
          BY <4>5 DEF CheckCancel, Checks
        <5>2. pc'[r] \in {"deliver", "done", "cleanup"}
          BY <4>5, <5>1, PhasesAfterFreeze DEF CheckCancel, Goto, AfterEnd
        <5>3. QED
          BY <5>2
      <4>6. CASE PassStage(r)
        <5>1. pc[r] = "index"
          BY <4>6, PhasesAfterFreeze DEF PassStage, Checks
        <5>2. pc'[r] = "check_freeze"
          BY <4>6, <5>1, PhasesAfterFreeze DEF PassStage, Goto
        <5>3. QED
          BY <5>2
      <4>7. CASE PassRepair(r)
        BY <4>7 DEF PassRepair
      <4>8. CASE Complete(r) \/ AgentCanceled(r) \/ StageFails(r)
        BY <4>8 DEF Complete, AgentCanceled, StageFails, Goto, AfterEnd
      <4>9. CASE StageRaises(r) \/ Unwind(r) \/ CleanUp(r) \/ LockedOut(r)
             \/ UnwindLockedOut(r)
        BY <4>9 DEF StageRaises, Unwind, CleanUp, LockedOut, UnwindLockedOut, Goto
      <4>10. QED
        BY <2>3, <4>2, <4>3, <4>4, <4>5, <4>6, <4>7, <4>8, <4>9 DEF Execute
    <3>3. QED
      BY <3>1, <3>2
  <2>4. QED
    BY <2>2, <2>3
<1>3. TypeOK /\ FrozenResumes /\ [Next]_vars => FrozenResumes'
  BY <1>2 DEF FrozenResumes
<1>4. FrozenResumes => FrozenIsFinal
  BY DEF FrozenResumes, FrozenIsFinal
<1>5. QED
  BY <1>1, <1>3, <1>4, TypeCorrect, PTL DEF Spec

\* A run keeps the ticket snapshot it was claimed with, across recovery and
\* retries and whatever is ingested meanwhile (claim_run).
THEOREM SnapshotKept == Spec => RunKeepsSnapshot
<1>1. Init => PickedIsOwn
  BY DEF Init, StoreInit, PickedIsOwn
<1>2. ASSUME TypeOK, PickedIsOwn, [Next]_vars, NEW r \in RunIds
      PROVE  /\ runSnapshot[r] # None => runSnapshot'[r] = runSnapshot[r]
             /\ pc'[r] = "claimed" /\ runSnapshot'[r] # None => picked'[r] = runSnapshot'[r]
  <2> USE DEF TypeOK, StoreTypeOK
  <2>1. CASE ~Execute(r)
    BY <1>2, <2>1, OthersLeaveExecutor DEF PickedIsOwn
  <2>2. CASE ClaimRead(r)
    BY <1>2, <2>2 DEF ClaimRead, ClaimSnapshot, Goto, dbVars, runVars
  <2>3. CASE ClaimWrite(r)
    BY <1>2, <2>3 DEF ClaimWrite, ClaimRun, Goto, PickedIsOwn
  <2>4. CASE Execute(r) /\ ~ClaimRead(r) /\ ~ClaimWrite(r)
    <3>1. UNCHANGED runSnapshot
      BY <2>4 DEF Execute, ExecBegin, CheckCancel, PassStage, PassRepair, Complete,
         AgentCanceled, StageFails, StageRaises, Unwind, CleanUp, LockedOut,
         UnwindLockedOut, CancelRun, FailRun, CompleteRun, FinishRun, dbVars, runVars
    <3>2. pc'[r] # "claimed"
      <4>1. CASE ExecBegin(r) \/ PassRepair(r) \/ StageRaises(r) \/ Unwind(r) \/ CleanUp(r) \/ LockedOut(r)
             \/ UnwindLockedOut(r)
        BY <1>2, <4>1 DEF ExecBegin, PassRepair, StageRaises, Unwind, CleanUp,
           LockedOut, UnwindLockedOut, Goto
      <4>2. CASE Complete(r) \/ AgentCanceled(r) \/ StageFails(r)
        BY <1>2, <4>2 DEF Complete, AgentCanceled, StageFails, Goto, AfterEnd
      <4>3. CASE CheckCancel(r) \/ PassStage(r)
        <5>1. pc[r] \in DOMAIN NextPhase
          BY <4>3 DEF CheckCancel, PassStage, Checks, NextPhase
        <5>2. NextPhase[pc[r]] # "claimed"
          BY <5>1 DEF NextPhase
        <5>3. QED
          BY <1>2, <4>3, <5>2 DEF CheckCancel, PassStage, Goto, AfterEnd
      <4>4. QED
        BY <2>4, <4>1, <4>2, <4>3 DEF Execute
    <3>3. QED
      BY <3>1, <3>2
  <2>5. QED
    BY <2>1, <2>2, <2>3, <2>4
<1>3. TypeOK /\ PickedIsOwn /\ [Next]_vars => PickedIsOwn'
  BY <1>2 DEF PickedIsOwn
<1>4. TypeOK /\ PickedIsOwn /\ [Next]_vars =>
        [\A r \in RunIds : runSnapshot[r] # None => runSnapshot'[r] = runSnapshot[r]]_vars
  BY <1>2
<1>5. QED
  BY <1>1, <1>3, <1>4, TypeCorrect, PTL DEF Spec, RunKeepsSnapshot

---------------------------------------------------------------------------
(***************************************************************************)
(* The capacity of the scheduler.                                          *)
(***************************************************************************)
\* A nonempty set of runs has a newest one.
LEMMA NewestRun ==
  ASSUME NEW S, S \subseteq RunIds, S # {}
  PROVE  \E m \in S : \A r \in S : r <= m
<1> DEFINE ages == {MaxRuns - r : r \in S}
<1>1. \A r \in S : r \in Int /\ r <= MaxRuns /\ MaxRuns - r \in Nat
  BY RunBound DEF RunIds
<1>2. ages \subseteq Nat /\ ages # {}
  BY <1>1
<1>3. PICK a \in ages : \A b \in ages : a <= b
  <2> HIDE DEF ages
  <2> QED BY <1>2, LeastNatural
<1>4. PICK m \in S : a = MaxRuns - m
  OBVIOUS
<1>5. \A r \in S : MaxRuns - m <= MaxRuns - r
  BY <1>3, <1>4
<1>6. QED
  BY <1>1, <1>5, RunBound

\* list_queued_run_ids(limit) returns at most limit runs.
LEMMA QueuedRunsLimited ==
  ASSUME NEW limit \in Nat
  PROVE  IsFiniteSet(QueuedRuns(limit)) /\ Cardinality(QueuedRuns(limit)) <= limit
<1>1. IsFiniteSet(QueuedRuns(limit))
  <2>1. IsFiniteSet(RunIds)
    BY RunBound, FS_Interval DEF RunIds
  <2>2. QueuedRuns(limit) \subseteq RunIds
    BY DEF QueuedRuns
  <2>3. QED
    BY <2>1, <2>2, FS_Subset
<1>2. CASE QueuedRuns(limit) = {}
  BY <1>2, FS_EmptySet
<1>3. CASE QueuedRuns(limit) # {}
  <2>1. PICK m \in QueuedRuns(limit) : \A r \in QueuedRuns(limit) : r <= m
    BY <1>3, NewestRun DEF QueuedRuns
  <2> DEFINE older == {q \in 1 .. m : runStatus[q] = "queued"}
  <2>2. m \in Nat /\ Cardinality(older) <= limit
    BY <2>1, RunBound DEF QueuedRuns, RunIds
  <2>3. QueuedRuns(limit) \subseteq older
    BY <2>1, RunBound DEF QueuedRuns, RunIds
  <2>4. IsFiniteSet(older)
    BY <2>2, FS_Interval, FS_Subset
  <2>5. Cardinality(QueuedRuns(limit)) <= Cardinality(older)
    BY <2>3, <2>4, FS_Subset
  <2>6. Cardinality(QueuedRuns(limit)) \in Nat /\ Cardinality(older) \in Nat
    BY <1>1, <2>4, FS_CardinalityType
  <2>7. QED
    BY <1>1, <2>2, <2>5, <2>6
<1>4. QED
  BY <1>2, <1>3

\* Only Dispatch adds executors.
LEMMA OnlyDispatchStarts ==
  ASSUME TypeOK, [Next]_vars, ~Dispatch
  PROVE  Active' \subseteq Active
<1> USE DEF Active, TypeOK
<1>1. ASSUME NEW q \in RunIds, Execute(q) PROVE Active' \subseteq Active
  <2>1. pc[q] # "idle"
    BY <1>1 DEF Execute, ExecBegin, ClaimRead, ClaimWrite, CheckCancel, PassStage,
       PassRepair, Complete, AgentCanceled, StageFails, StageRaises, Unwind, CleanUp,
       LockedOut, UnwindLockedOut, Checks, Stages, Cancelable, NextPhase
  <2>2. \A r \in RunIds \ {q} : pc'[r] = pc[r]
    BY <1>1 DEF Execute, ExecBegin, ClaimRead, ClaimWrite, CheckCancel, PassStage,
       PassRepair, Complete, AgentCanceled, StageFails, StageRaises, Unwind, CleanUp,
       LockedOut, UnwindLockedOut, Goto
  <2>3. QED
    BY <2>1, <2>2
<1>2. CASE BeginTick
  BY <1>2 DEF BeginTick
<1>3. CASE Crash
  BY <1>3 DEF Crash
<1>4. CASE UNCHANGED pc
  BY <1>4
<1>5. QED
  BY <1>1, <1>2, <1>3, <1>4 DEF Next, EditTicket, Tick, IngestTicket, PollFails,
     DispatchLockedOut, Request, Respond, StartRead, CancelRead, RetryRead, SetMode,
     ListWaiting, ActivateRead, Write, WriteLockedOut, Restart, vars,
     unchangedByRequests, execVars

\* There are never more executors than maxConcurrentTasks: Scheduler.tick asks
\* for as many queued runs as there is room, counting the executors whose run
\* has ended but that are not reaped, and those whose run is queued again.
THEOREM ExecutorsLimited == Spec => []ExecutorsBounded
<1>1. Init => ExecutorsBounded
  <2>1. Init => Active = {}
    BY DEF Init, Active
  <2>2. QED
    BY <2>1, FS_EmptySet, LifecycleConstants DEF ExecutorsBounded
<1>2. ASSUME TypeOK, ExecutorsBounded, [Next]_vars
      PROVE  ExecutorsBounded'
  <2>1. IsFiniteSet(Active) /\ IsFiniteSet(Active') /\ Cardinality(Active) \in Nat
           /\ Cardinality(Active') \in Nat
    <3>1. IsFiniteSet(RunIds)
      BY RunBound, FS_Interval DEF RunIds
    <3>2. Active \subseteq RunIds /\ Active' \subseteq RunIds
      BY DEF Active
    <3>3. QED
      BY <3>1, <3>2, FS_Subset, FS_CardinalityType
  <2>2. CASE ~Dispatch
    <3>1. Active' \subseteq Active
      BY <1>2, <2>2, OnlyDispatchStarts
    <3>2. Cardinality(Active') <= Cardinality(Active)
      BY <2>1, <3>1, FS_Subset
    <3>3. QED
      BY <1>2, <2>1, <3>2, LifecycleConstants DEF ExecutorsBounded
  <2>3. CASE Dispatch
    <3> DEFINE capacity == MaxConcurrentTasks - Cardinality(Active)
               started == IF capacity <= 0 THEN {} ELSE QueuedRuns(capacity) \ Active
    <3>1. Active' = Active \cup started
      BY <1>2, <2>3 DEF Dispatch, Active, TypeOK, QueuedRuns
    <3>2. CASE capacity <= 0
      <4>1. Active' = Active
        BY <3>1, <3>2
      <4>2. QED
        BY <1>2, <4>1 DEF ExecutorsBounded
    <3>3. CASE capacity > 0
      <4>1. capacity \in Nat
        BY <2>1, <3>3, LifecycleConstants
      <4>2. started = QueuedRuns(capacity) \ Active
        BY <3>3, <4>1
      <4>3. IsFiniteSet(QueuedRuns(capacity)) /\ Cardinality(QueuedRuns(capacity)) <= capacity
        <5> HIDE DEF capacity
        <5> QED BY <4>1, QueuedRunsLimited
      <4>4. IsFiniteSet(started) /\ Cardinality(started) <= Cardinality(QueuedRuns(capacity))
        BY <4>2, <4>3, FS_Subset
      <4>5. Cardinality(Active \cup started) =
              Cardinality(Active) + Cardinality(started) - Cardinality(Active \cap started)
        BY <2>1, <4>4, FS_Union
      <4>6. Active \cap started = {}
        BY <4>2
      <4>7. Cardinality(Active \cap started) = 0
        BY <4>6, FS_EmptySet
      <4>8. Cardinality(started) \in Nat /\ Cardinality(QueuedRuns(capacity)) \in Nat
        BY <4>3, <4>4, FS_CardinalityType
      <4>9. Cardinality(Active') = Cardinality(Active) + Cardinality(started)
        BY <2>1, <3>1, <4>5, <4>7, <4>8
      <4>10. QED
        BY <2>1, <4>3, <4>4, <4>8, <4>9, LifecycleConstants DEF ExecutorsBounded
    <3>4. QED
      BY <2>1, <3>2, <3>3, LifecycleConstants
  <2>4. QED
    BY <2>2, <2>3
<1>3. QED
  BY <1>1, <1>2, TypeCorrect, PTL DEF Spec

---------------------------------------------------------------------------
(***************************************************************************)
(* A task mirrors its run, when no operator acts and no cleanup raises.    *)
(* The store's writes never look at the task they overwrite; what keeps    *)
(* them from overwriting the status of a newer run is that an executor     *)
(* owns an active run from its start to the write that ends the run, and   *)
(* that ingestion leaves a task with an active run alone.                  *)
(***************************************************************************)
\* The phases in which the executor may still write its run and task.
Owning == Phases \ {"idle", "cleanup", "done"}
ExecutorsOwnRuns == \A r \in RunIds : pc[r] \in Owning => ActiveRun(r)
DownIsIdle == ~up => \A r \in RunIds : pc[r] = "idle"

Mirrored == OneActiveRun /\ TaskMirrorsRun /\ ExecutorsOwnRuns /\ DownIsIdle

\* The end of an active run: no other run of the task is active.
LEMMA FinishMirrors ==
  ASSUME TypeOK, Rows, Mirrored, NEW r \in RunIds, ActiveRun(r),
         NEW status \in {"completed", "failed", "canceled"}, NEW outcome,
         FinishRun(r, status, outcome)
  PROVE  /\ TaskMirrorsRun'
         /\ \A q \in RunIds \ {r} : ActiveRun(q)' <=> ActiveRun(q)
<1> USE DEF TypeOK, StoreTypeOK
<1>1. runStatus'[r] = status /\ \A q \in RunIds \ {r} : runStatus'[q] = runStatus[q]
  BY DEF FinishRun
<1>2. ASSUME NEW q \in RunIds, ActiveRun(q)'
      PROVE  current'[runTask'[q]] = q /\ taskStatus'[runTask'[q]] = runStatus'[q]
  <2>1. q # r /\ ActiveRun(q)
    BY <1>1, <1>2 DEF ActiveRun
  <2>2. runTask[q] # runTask[r]
    BY <2>1 DEF Mirrored, OneActiveRun
  <2>3. runTask[q] \in Tasks /\ runTask[r] \in Tasks
    BY <2>1 DEF Rows, RowsHaveTasks, ActiveRun
  <2>4. taskStatus'[runTask[q]] = taskStatus[runTask[q]]
    BY <2>2, <2>3 DEF FinishRun
  <2>5. QED
    BY <1>1, <2>1, <2>4 DEF FinishRun, Mirrored, TaskMirrorsRun
<1>3. QED
  BY <1>1, <1>2 DEF TaskMirrorsRun, ActiveRun

\* claim_run of an active run.
LEMMA ClaimMirrors ==
  ASSUME TypeOK, Rows, Mirrored, NEW r \in RunIds, ActiveRun(r), NEW v, ClaimRun(r, v)
  PROVE  TaskMirrorsRun' /\ \A q \in RunIds : ActiveRun(q)' <=> ActiveRun(q)
<1> USE DEF TypeOK, StoreTypeOK
<1>1. runStatus'[r] = "running" /\ \A q \in RunIds \ {r} : runStatus'[q] = runStatus[q]
  BY DEF ClaimRun, ActiveRun
<1>2. ASSUME NEW q \in RunIds, ActiveRun(q)'
      PROVE  current'[runTask'[q]] = q /\ taskStatus'[runTask'[q]] = runStatus'[q]
  <2>1. ActiveRun(q)
    BY <1>1, <1>2 DEF ActiveRun
  <2>2. runTask[q] \in Tasks /\ runTask[r] \in Tasks
    BY <2>1 DEF Rows, RowsHaveTasks, ActiveRun
  <2>3. q = r \/ runTask[q] # runTask[r]
    BY <2>1 DEF Mirrored, OneActiveRun
  <2>4. taskStatus'[runTask[q]] = IF q = r THEN "running" ELSE taskStatus[runTask[q]]
    BY <2>2, <2>3 DEF ClaimRun
  <2>5. QED
    BY <1>1, <2>1, <2>4 DEF ClaimRun, Mirrored, TaskMirrorsRun
<1>3. QED
  BY <1>1, <1>2 DEF TaskMirrorsRun, ActiveRun

\* ingest opens only a task that is not busy, and such a task has no active run.
LEMMA IngestMirrors ==
  ASSUME TypeOK, Rows, Mirrored, NEW t \in Tasks, NEW v, NEW route \in Routes,
         NEW execMode \in Modes, Ingest(t, v, route, execMode)
  PROVE  TaskMirrorsRun' /\ \A q \in RunIds : ActiveRun(q) => ActiveRun(q)'
<1> USE DEF TypeOK, StoreTypeOK
<1>1. CASE UNCHANGED <<taskStatus, runTask, runStatus, current>>
  BY <1>1 DEF Mirrored, TaskMirrorsRun, ActiveRun
<1>2. CASE Opens(t, v, route)
  <2>1. ~HasActiveRun(t)
    BY <1>2 DEF Opens, HasActiveRun, Mirrored, TaskMirrorsRun, ActiveRun, Busy
  <2>2. taskStatus' = [taskStatus EXCEPT ![t] = OpenedStatus(route, execMode)]
    BY <1>2 DEF Ingest
  <2>3. CASE OpenedStatus(route, execMode) = "queued"
    <3>1. InsertRun(t)
      BY <1>2, <2>1, <2>3 DEF Ingest
    <3>2. PICK r \in RunIds : /\ runStatus[r] = "unused"
                              /\ runTask' = [runTask EXCEPT ![r] = t]
                              /\ runStatus' = [runStatus EXCEPT ![r] = "queued"]
                              /\ current' = [current EXCEPT ![t] = r]
      BY <3>1 DEF InsertRun
    <3>3. ASSUME NEW q \in RunIds, ActiveRun(q)'
          PROVE  current'[runTask'[q]] = q /\ taskStatus'[runTask'[q]] = runStatus'[q]
      <4>1. CASE q = r
        BY <2>2, <2>3, <3>2, <4>1
      <4>2. CASE q # r
        <5>1. /\ ActiveRun(q) /\ runTask'[q] = runTask[q]
              /\ runStatus'[q] = runStatus[q]
          BY <3>2, <3>3, <4>2 DEF ActiveRun
        <5>2. runTask[q] # t /\ runTask[q] \in Tasks
          BY <2>1, <5>1 DEF HasActiveRun, Rows, RowsHaveTasks, ActiveRun
        <5>3. QED
          BY <2>2, <3>2, <5>1, <5>2 DEF Mirrored, TaskMirrorsRun
      <4>3. QED
        BY <4>1, <4>2
    <3>4. QED
      BY <3>2, <3>3 DEF TaskMirrorsRun, ActiveRun
  <2>4. CASE OpenedStatus(route, execMode) # "queued"
    <3>1. UNCHANGED <<runTask, runStatus, current>>
      BY <1>2, <2>4 DEF Ingest
    <3>2. QED
      BY <2>1, <2>2, <3>1 DEF Mirrored, TaskMirrorsRun, ActiveRun, HasActiveRun
  <2>5. QED
    BY <2>3, <2>4
<1>3. QED
  BY <1>1, <1>2 DEF Ingest

\* recover_interrupted_runs: a task whose run it leaves queued has no
\* interrupted run.
LEMMA RecoverMirrors ==
  ASSUME TypeOK, Rows, Mirrored, NEW frozenRuns, RecoverRuns(frozenRuns)
  PROVE  TaskMirrorsRun'
<1> USE DEF TypeOK, StoreTypeOK
<1>1. ASSUME NEW q \in RunIds, ActiveRun(q)'
      PROVE  current'[runTask'[q]] = q /\ taskStatus'[runTask'[q]] = runStatus'[q]
  <2>1. /\ ActiveRun(q) /\ runStatus'[q] = "queued"
        /\ runStatus[q] = "queued" \/ q \in frozenRuns
    BY <1>1 DEF RecoverRuns, ActiveRun
  <2>2. runTask[q] \in Tasks
    BY <2>1 DEF Rows, RowsHaveTasks, ActiveRun
  <2>3. \A r \in RunIds : runStatus[r] = "running" /\ runTask[r] = runTask[q] => r = q
    BY <2>1 DEF Mirrored, OneActiveRun, ActiveRun
  <2>4. taskStatus'[runTask[q]] = "queued"
    <3>1. CASE runStatus[q] = "queued"
      BY <2>1, <2>2, <2>3, <3>1 DEF RecoverRuns, Mirrored, TaskMirrorsRun
    <3>2. CASE runStatus[q] = "running"
      <4> DEFINE interrupted == {r \in RunIds : runStatus[r] = "running"}
                 resumed == interrupted \cap frozenRuns
      <4>1. \E r \in resumed : runTask[r] = runTask[q]
        BY <2>1, <3>2
      <4>2. taskStatus' = [t \in Tasks |->
                             CASE \E r \in resumed : runTask[r] = t -> "queued"
                               [] \E r \in interrupted \ frozenRuns : runTask[r] = t -> "failed"
                               [] OTHER -> taskStatus[t]]
        BY DEF RecoverRuns
      <4> HIDE DEF resumed, interrupted
      <4>3. \A r \in interrupted : runTask[r] = runTask[q] => r = q
        BY <2>3 DEF interrupted
      <4>4. ~\E r \in interrupted \ frozenRuns : runTask[r] = runTask[q]
        BY <2>1, <3>2, <4>3
      <4>5. QED
        BY <2>2, <4>1, <4>2, <4>4
    <3>3. QED
      BY <2>1, <3>1, <3>2 DEF ActiveRun
  <2>5. UNCHANGED <<current, runTask>>
    BY DEF RecoverRuns
  <2>6. current[runTask[q]] = q
    BY <2>1 DEF Mirrored, TaskMirrorsRun
  <2>7. QED
    BY <2>1, <2>4, <2>5, <2>6
<1>2. QED
  BY <1>1 DEF TaskMirrorsRun

\* What an executor does with the tables: nothing, or claim its run, or write
\* the run's end and stop owning it.
Ending(r) ==
  /\ pc'[r] \notin Owning
  /\ \E status \in {"completed", "failed", "canceled"}, outcome \in {None, "changed", "no_change"} :
       FinishRun(r, status, outcome)

LEMMA ExecutorWrites ==
  ASSUME TypeOK, ~CleanupRaises, NEW r \in RunIds, Execute(r)
  PROVE  /\ up /\ up' = up
         /\ \A q \in RunIds \ {r} : pc'[q] = pc[q]
         /\ \/ UNCHANGED dbVars /\ (pc'[r] \in Owning => pc[r] \in Owning)
            \/ ClaimRun(r, picked[r]) /\ pc[r] \in Owning
            \/ Ending(r) /\ pc[r] \in Owning
<1> USE DEF TypeOK
<1>1. up /\ up' = up /\ \A q \in RunIds \ {r} : pc'[q] = pc[q]
  BY DEF Execute, ExecBegin, ClaimRead, ClaimWrite, CheckCancel, PassStage,
     PassRepair, Complete, AgentCanceled, StageFails, StageRaises, Unwind, CleanUp,
     Locked, LockedOut, UnwindLockedOut, Goto
<1>2. AfterEnd(r) \notin Owning /\ "done" \notin Owning
  BY DEF AfterEnd, Owning
<1>3. CASE ExecBegin(r) \/ ClaimRead(r)
  BY <1>1, <1>3 DEF ExecBegin, ClaimRead, Owning, Phases
<1>4. CASE ClaimWrite(r)
  BY <1>1, <1>4 DEF ClaimWrite, Owning, Phases
<1>5. CASE PassStage(r) \/ PassRepair(r) \/ StageRaises(r) \/ LockedOut(r) \/ UnwindLockedOut(r)
  <2>1. pc[r] \in Owning
    <3>1. CASE PassStage(r) \/ PassRepair(r) \/ StageRaises(r)
      BY <3>1 DEF PassStage, PassRepair, StageRaises, Stages, Owning, Phases, Working,
         NextPhase
    <3>2. CASE LockedOut(r)
      BY <3>2 DEF LockedOut, Owning
    <3>3. CASE UnwindLockedOut(r)
      BY <3>3 DEF UnwindLockedOut, Owning, Phases, Working
    <3>4. QED
      BY <1>5, <3>1, <3>2, <3>3
  <2>2. UNCHANGED dbVars
    BY <1>5 DEF PassStage, PassRepair, StageRaises, LockedOut, UnwindLockedOut
  <2>3. QED
    BY <1>1, <2>1, <2>2
<1>6. CASE CleanUp(r)
  BY <1>1, <1>2, <1>6 DEF CleanUp, Goto
<1>7. CASE CheckCancel(r)
  <2>1. pc[r] \in Owning
    BY <1>7 DEF CheckCancel, Checks, Owning, Phases, Working, NextPhase
  <2>2. CASE UNCHANGED dbVars
    BY <1>1, <2>1, <2>2
  <2>3. CASE CancelRun(r) /\ Goto(r, AfterEnd(r))
    BY <1>1, <1>2, <2>1, <2>3 DEF CancelRun, Goto, Ending
  <2>4. QED
    BY <1>7, <2>2, <2>3 DEF CheckCancel
<1>8. CASE Complete(r) \/ AgentCanceled(r) \/ StageFails(r) \/ Unwind(r)
  <2>1. pc[r] \in Owning
    BY <1>8 DEF Complete, AgentCanceled, StageFails, Unwind, Cancelable, Stages, Owning,
       Phases, Working, NextPhase
  <2>2. pc'[r] \notin Owning
    BY <1>2, <1>8 DEF Complete, AgentCanceled, StageFails, Unwind, Goto
  <2>3. CASE CompleteRun(r, "changed") \/ CompleteRun(r, "no_change")
    BY <1>1, <2>1, <2>2, <2>3 DEF CompleteRun, Ending
  <2>4. CASE CancelRun(r) \/ FailRun(r)
    BY <1>1, <2>1, <2>2, <2>4 DEF CancelRun, FailRun, Ending
  <2>5. QED
    BY <1>8, <2>3, <2>4 DEF Complete, AgentCanceled, StageFails, Unwind
<1>9. QED
  BY <1>3, <1>4, <1>5, <1>6, <1>7, <1>8 DEF Execute

\* Without requests every step keeps the three facts together.
LEMMA StepMirrors ==
  ASSUME Clients = {}, ~CleanupRaises, TypeOK, Rows, Mirrored, [Next]_vars
  PROVE  (TaskMirrorsRun /\ ExecutorsOwnRuns /\ DownIsIdle)'
<1> USE DEF TypeOK, StoreTypeOK
<1>1. CASE IngestTicket
  <2>1. PICK t \in tick.batch, route \in Routes : Ingest(t, ticket[t], route, tick.mode)
    BY <1>1, LifecycleConstants DEF IngestTicket
  <2>2. t \in Tasks /\ tick.mode \in Modes
    BY <2>1
  <2>3. TaskMirrorsRun' /\ \A q \in RunIds : ActiveRun(q) => ActiveRun(q)'
    BY <2>1, <2>2, IngestMirrors
  <2>4. UNCHANGED <<pc, up>>
    BY <1>1 DEF IngestTicket, execVars
  <2>5. QED
    BY <2>3, <2>4 DEF Mirrored, ExecutorsOwnRuns, DownIsIdle
<1>2. ASSUME NEW r \in RunIds, Execute(r)
      PROVE  (TaskMirrorsRun /\ ExecutorsOwnRuns /\ DownIsIdle)'
  <2>1. /\ up /\ up' = up
        /\ \A q \in RunIds \ {r} : pc'[q] = pc[q]
    BY <1>2, ExecutorWrites
  <2>2. CASE UNCHANGED dbVars /\ (pc'[r] \in Owning => pc[r] \in Owning)
    BY <2>1, <2>2 DEF Mirrored, TaskMirrorsRun, ExecutorsOwnRuns, DownIsIdle, ActiveRun,
       dbVars, runVars
  <2>3. CASE ClaimRun(r, picked[r]) /\ pc[r] \in Owning
    <3>1. ActiveRun(r)
      BY <2>3 DEF Mirrored, ExecutorsOwnRuns
    <3>2. TaskMirrorsRun' /\ \A q \in RunIds : ActiveRun(q)' <=> ActiveRun(q)
      BY <2>3, <3>1, ClaimMirrors
    <3>3. QED
      BY <2>1, <3>1, <3>2 DEF Mirrored, ExecutorsOwnRuns, DownIsIdle
  <2>4. CASE Ending(r) /\ pc[r] \in Owning
    <3>1. ActiveRun(r)
      BY <2>4 DEF Mirrored, ExecutorsOwnRuns
    <3>2. /\ TaskMirrorsRun'
          /\ \A q \in RunIds \ {r} : ActiveRun(q)' <=> ActiveRun(q)
      BY <2>4, <3>1, FinishMirrors DEF Ending
    <3>3. QED
      BY <2>1, <2>4, <3>2 DEF Mirrored, ExecutorsOwnRuns, DownIsIdle, Ending
  <2>5. QED
    BY <1>2, <2>2, <2>3, <2>4, ExecutorWrites
<1>3. CASE BeginTick \/ Dispatch
  <2>1. UNCHANGED dbVars /\ up /\ up' = up
    BY <1>3 DEF BeginTick, Dispatch
  <2>2. \A r \in RunIds : pc'[r] \in Owning => pc[r] \in Owning \/ runStatus[r] = "queued"
    <3>1. CASE BeginTick
      BY <3>1 DEF BeginTick, Owning
    <3>2. CASE Dispatch
      <4>1. PICK started : /\ \A r \in RunIds : pc'[r] = IF r \in started THEN "begin" ELSE pc[r]
                           /\ \A r \in started : runStatus[r] = "queued"
        BY <3>2 DEF Dispatch, QueuedRuns
      <4>2. QED
        BY <4>1
    <3>3. QED
      BY <1>3, <3>1, <3>2
  <2>3. QED
    BY <2>1, <2>2 DEF Mirrored, TaskMirrorsRun, ExecutorsOwnRuns, DownIsIdle, ActiveRun,
       dbVars, runVars
<1>4. CASE Crash
  BY <1>4 DEF Crash, Mirrored, TaskMirrorsRun, ExecutorsOwnRuns, DownIsIdle, ActiveRun,
     dbVars, runVars, Owning
<1>5. CASE Restart
  <2>1. TaskMirrorsRun'
    BY <1>5, RecoverMirrors DEF Restart
  <2>2. up' /\ \A r \in RunIds : pc'[r] = "idle"
    BY <1>5 DEF Restart, Mirrored, DownIsIdle, execVars
  <2>3. QED
    BY <2>1, <2>2 DEF ExecutorsOwnRuns, DownIsIdle, Owning
<1>6. CASE UNCHANGED <<dbVars, pc, up>>
  BY <1>6 DEF Mirrored, TaskMirrorsRun, ExecutorsOwnRuns, DownIsIdle, ActiveRun,
     dbVars, runVars
<1>7. QED
  BY <1>1, <1>2, <1>3, <1>4, <1>5, <1>6 DEF Next, Tick, EditTicket, PollFails,
     DispatchLockedOut, vars, execVars

\* Without an operator, and where cleaning up cannot raise after the end of a
\* run was written, the status of a task with an active run is that run's and
\* the run is its current one: claim_run, complete_run, fail_run, cancel_run
\* and recovery, which overwrite the task unconditionally, never overwrite the
\* status of another active run.
THEOREM RunsMirrored ==
  ASSUME Clients = {}, ~CleanupRaises
  PROVE  Spec => []TaskMirrorsRun
<1> DEFINE Owned == TaskMirrorsRun /\ ExecutorsOwnRuns /\ DownIsIdle
<1>1. Init => Owned
  BY DEF Init, StoreInit, TaskMirrorsRun, ExecutorsOwnRuns, DownIsIdle, ActiveRun,
     Owning
<1>2. TypeOK /\ Rows /\ OneActiveRun /\ Owned /\ [Next]_vars => Owned'
  BY StepMirrors DEF Mirrored
<1>3. Owned => TaskMirrorsRun
  OBVIOUS
<1> HIDE DEF Owned
<1>4. QED
  BY <1>1, <1>2, <1>3, LifecycleTypes, ActiveRunUnique, PTL DEF Spec
=============================================================================
