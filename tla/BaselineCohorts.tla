-------------------------- MODULE BaselineCohorts --------------------------
(***************************************************************************)
(* The runs that share one baseline key: BaselineCohortStore (tables       *)
(* baseline_cohorts and baseline_cohort_members), the refresh lease of     *)
(* LeaseStore, and BaselineCohortCoordinator with its heartbeat thread.    *)
(* A run prepares its repair workspace once, so it belongs to at most one  *)
(* cohort, and the cohort it creates is named by it.                       *)
(*                                                                         *)
(* A store operation takes `now` before it waits for BEGIN IMMEDIATE: its  *)
(* clock may be behind by as long as the wait (`lag`), at most the lock    *)
(* timeout of the connection and never further than the last step of its   *)
(* thread.  Deadlines and expiries are kept as units left until them.      *)
(***************************************************************************)
EXTENDS Integers, FiniteSets

CONSTANTS
  Runs, None,
  Window,    \* baselineCohortWindowMs, in units of time
  LockWait,  \* the timeout of sqlite3.connect, in the same units
  Ttl,       \* refresh_lease_ttl_seconds, in the same units
  MaxHead,   \* bound: commits somebody makes on the remote
  MaxCohorts,\* bound: cohorts ever created
  Faults     \* subset of {"delay", "locked", "crash"}, see Tick, StoreLocked,
             \* HeartbeatDies and Crash

ASSUME NoneIsNoRun == None \notin Runs
ASSUME RunsFinite == IsFiniteSet(Runs)
ASSUME Times == Window \in Nat /\ LockWait \in Nat /\ Ttl \in Nat \ {0}
ASSUME Bounds == MaxHead \in Nat /\ MaxCohorts \in Nat
ASSUME FaultKinds == Faults \subseteq {"delay", "locked", "crash"}

VARIABLES
  head,      \* the head of the remote branch, a counter
  state,     \* baseline_cohorts.state of the cohort a run leads, or "none"
  left,      \* units left until join_deadline, down to -LockWait, while it matters
  revision,  \* baseline_revision
  failure,   \* failure_json: "none" or its code
  member,    \* baseline_cohort_members: the cohort of each run
  owner,     \* the worker_leases row of the refresh: its owner, None without a row
  leaseLeft, \* units left until its expires_at
  pc,        \* where the run is in BaselineCohortCoordinator.resolve
  beat,      \* the leader's heartbeat thread
  fetched,   \* what the leader's resolver returned
  since,     \* units since the thread was ready to call resolve, up to LockWait
  answer,    \* what resolve returned or raised: the decision of the cohort
  headAt,    \* history: the head when the cohort was created
  lapsed     \* history: a refresh lease has expired

cohorts == <<state, left, revision, failure, member>>
lease == <<owner, leaseLeft>>
threads == <<pc, beat, fetched, since, answer>>
history == <<headAt, lapsed>>
vars == <<head, cohorts, lease, threads, history>>

NoRevision == -1
CohortStates == {"open", "resolving", "sealed", "failed"}
FailureCodes == {"baseline_leader_canceled", "baseline_resolution_failed"}
\* In _resolve_as_leader: "leading" is the head of the lease loop, "inserting"
\* and "updating" are between the SELECT and the write of LeaseStore.acquire,
\* "refreshing" to "releasing" is the part from the heartbeat's start to the
\* finally block.  "waiting" is _wait_for_resolution.
Holding == {"refreshing", "fetched", "resolving", "failing", "releasing"}
Places == {"new", "leading", "inserting", "updating", "waiting", "ended"} \cup Holding

Decision(c) == [revision |-> revision[c], failure |-> failure[c]]
Undecided == [revision |-> NoRevision, failure |-> "none"]
Baselines == {[revision |-> n, failure |-> "none"] : n \in 0 .. MaxHead}
Refusals == {[revision |-> NoRevision, failure |-> f] : f \in FailureCodes}

Init ==
  /\ head = 0
  /\ state = [c \in Runs |-> "none"]
  /\ left = [c \in Runs |-> 0]
  /\ revision = [c \in Runs |-> NoRevision]
  /\ failure = [c \in Runs |-> "none"]
  /\ member = [r \in Runs |-> None]
  /\ owner = None
  /\ leaseLeft = 0
  /\ pc = [r \in Runs |-> "new"]
  /\ beat = [r \in Runs |-> "off"]
  /\ fetched = [r \in Runs |-> NoRevision]
  /\ since = [r \in Runs |-> 0]
  /\ answer = [r \in Runs |-> Undecided]
  /\ headAt = [c \in Runs |-> 0]
  /\ lapsed = FALSE

\* One step of the thread of r, after which it is at `place`.
Goto(r, place) ==
  /\ pc' = [pc EXCEPT ![r] = place]
  /\ since' = [since EXCEPT ![r] = 0]

\* The thread of r ends with what resolve returned or raised.
End(r, result) ==
  /\ Goto(r, "ended")
  /\ beat' = [beat EXCEPT ![r] = "off"]
  /\ fetched' = [fetched EXCEPT ![r] = NoRevision]
  /\ answer' = [answer EXCEPT ![r] = result]

---------------------------------------------------------------------------
(***************************************************************************)
(* The store.                                                              *)
(***************************************************************************)
\* A run may begin, and take its clock, at any time before Create or Follow;
\* the clock of Resolve is no older than the step before it.
Lags(r) == IF pc[r] = "new" THEN 0 .. LockWait ELSE 0 .. since[r]

\* _advance_expired_locked
Advanced(lag) ==
  [c \in Runs |->
     IF state[c] = "open" /\ left[c] <= -lag
     THEN IF revision[c] # NoRevision THEN "sealed" ELSE "resolving"
     ELSE state[c]]

\* Mutant: the join deadline alone decides who may join.
JoinableByDeadline(lag) == {c \in Runs : state[c] # "none" /\ left[c] > -lag}

Joinable(lag) == {c \in Runs : Advanced(lag)[c] = "open" /\ left[c] > -lag}
Newest(open) == {c \in open : \A other \in open : left[other] <= left[c]}

\* join_or_create makes a cohort and its leader ...
Create(r) ==
  /\ pc[r] = "new"
  /\ Cardinality({c \in Runs : state[c] # "none"}) < MaxCohorts
  /\ \E lag \in Lags(r) :
       /\ Joinable(lag) = {}
       /\ state' = [Advanced(lag) EXCEPT ![r] = "open"]
       /\ left' = [left EXCEPT ![r] = Window - lag]
  /\ member' = [member EXCEPT ![r] = r]
  /\ headAt' = [headAt EXCEPT ![r] = head]
  /\ Goto(r, "leading")
  /\ UNCHANGED <<head, revision, failure, lease, beat, fetched, answer, lapsed>>

\* ... or a follower of the newest cohort that may still be joined.
Follow(r) ==
  /\ pc[r] = "new"
  /\ \E lag \in Lags(r) :
       /\ \E c \in Newest(Joinable(lag)) : member' = [member EXCEPT ![r] = c]
       /\ state' = Advanced(lag)
  /\ Goto(r, "waiting")
  /\ UNCHANGED <<head, left, revision, failure, lease, beat, fetched, answer, history>>

\* BaselineCohortStore.fail, which only the leader calls.
RecordFailure(c, code) ==
  /\ revision[c] = NoRevision
  /\ state' = [state EXCEPT ![c] = "failed"]
  /\ failure' = [failure EXCEPT ![c] = IF state[c] = "failed" THEN @ ELSE code]
  /\ UNCHANGED <<left, revision, member>>

---------------------------------------------------------------------------
(***************************************************************************)
(* The leader, _resolve_as_leader.                                         *)
(***************************************************************************)
LeaderCanceled(r) ==
  /\ pc[r] = "leading"
  /\ RecordFailure(r, "baseline_leader_canceled")
  /\ End(r, Undecided)
  /\ UNCHANGED <<head, lease, history>>

\* Mutant: a lease is taken over whether it has expired or not.
AcquireReadBlind(r) ==
  /\ pc[r] = "leading"
  /\ Goto(r, IF owner = None THEN "inserting" ELSE "updating")
  /\ UNCHANGED <<head, cohorts, lease, beat, fetched, answer, history>>

\* LeaseStore.acquire reads the row; a busy lease is polled again.
AcquireRead(r) ==
  /\ pc[r] = "leading"
  /\ owner = None \/ leaseLeft = 0
  /\ Goto(r, IF owner = None THEN "inserting" ELSE "updating")
  /\ UNCHANGED <<head, cohorts, lease, beat, fetched, answer, history>>

TakeLease(r) ==
  /\ owner' = r
  /\ leaseLeft' = Ttl

StartHolding(r) ==
  /\ Goto(r, "refreshing")
  /\ beat' = [beat EXCEPT ![r] = "on"]
  /\ UNCHANGED <<head, cohorts, fetched, answer, history>>

\* ... and writes it: another INSERT may have been first, which raises an
\* IntegrityError that nobody turns into a failure of the cohort;
AcquireInsert(r) ==
  /\ pc[r] = "inserting"
  /\ owner = None
  /\ TakeLease(r)
  /\ StartHolding(r)

AcquireCollides(r) ==
  /\ pc[r] = "inserting"
  /\ owner # None
  /\ End(r, Undecided)
  /\ UNCHANGED <<head, cohorts, lease, history>>

\* the UPDATE takes the row whoever has it by then, and may find none.
AcquireUpdate(r) ==
  /\ pc[r] = "updating"
  /\ IF owner = None THEN UNCHANGED lease ELSE TakeLease(r)
  /\ StartHolding(r)

\* get_for_task.  Of this operation an old clock only makes one that advances
\* less: its lag is left out, here and in Poll.
Look ==
  /\ state' = Advanced(0)
  /\ UNCHANGED <<left, revision, failure, member>>

\* Mutant: the resolver reads the revision of the local clone.
RefreshFromCache(r) ==
  /\ pc[r] = "refreshing"
  /\ Look
  /\ fetched' = [fetched EXCEPT ![r] = 0]
  /\ Goto(r, "fetched")
  /\ UNCHANGED <<head, lease, beat, answer, history>>

\* The leader looks for a revision, which nobody else can have written, then
\* refresh_and_current_revision fetches and reads the remote's head.
Refresh(r) ==
  /\ pc[r] = "refreshing"
  /\ Look
  /\ fetched' = [fetched EXCEPT ![r] = head]
  /\ Goto(r, "fetched")
  /\ UNCHANGED <<head, lease, beat, answer, history>>

RefreshFails(r) ==
  /\ pc[r] = "refreshing"
  /\ Look
  /\ Goto(r, "failing")
  /\ UNCHANGED <<head, lease, beat, fetched, answer, history>>

CheckLease(r) ==
  /\ pc[r] = "fetched"
  /\ Goto(r, IF beat[r] = "lost" THEN "failing" ELSE "resolving")
  /\ UNCHANGED <<head, cohorts, lease, beat, fetched, answer, history>>

\* BaselineCohortStore.resolve
Resolve(r) ==
  /\ pc[r] = "resolving"
  /\ revision[r] \in {NoRevision, fetched[r]}
  /\ state[r] # "failed"
  /\ revision' = [revision EXCEPT ![r] = fetched[r]]
  /\ \E lag \in Lags(r) :
       state' = [state EXCEPT ![r] = IF left[r] <= -lag THEN "sealed" ELSE "open"]
  /\ Goto(r, "releasing")
  /\ UNCHANGED <<head, left, failure, member, lease, beat, fetched, answer, history>>

\* Mutant: the failure is raised but not written to the cohort.
FailUnrecorded(r) ==
  /\ pc[r] = "failing"
  /\ Goto(r, "releasing")
  /\ UNCHANGED <<head, cohorts, lease, beat, fetched, answer, history>>

\* The except branch around the resolver.
Fail(r) ==
  /\ pc[r] = "failing"
  /\ RecordFailure(r, "baseline_resolution_failed")
  /\ Goto(r, "releasing")
  /\ UNCHANGED <<head, lease, beat, fetched, answer, history>>

\* The finally block: the heartbeat stops, LeaseStore.release deletes its own row.
DropLease(r) ==
  /\ owner' = IF owner = r THEN None ELSE owner
  /\ leaseLeft' = IF owner = r THEN 0 ELSE leaseLeft

\* Mutant: the heartbeat goes on after the release.
ReleaseBeating(r) ==
  /\ pc[r] = "releasing"
  /\ DropLease(r)
  /\ Goto(r, "waiting")
  /\ fetched' = [fetched EXCEPT ![r] = NoRevision]
  /\ UNCHANGED <<head, cohorts, beat, answer, history>>

Release(r) ==
  /\ pc[r] = "releasing"
  /\ DropLease(r)
  /\ Goto(r, "waiting")
  /\ beat' = [beat EXCEPT ![r] = "off"]
  /\ fetched' = [fetched EXCEPT ![r] = NoRevision]
  /\ UNCHANGED <<head, cohorts, answer, history>>

\* The heartbeat thread: UPDATE ... WHERE owner.
Heartbeat(r) ==
  /\ beat[r] = "on"
  /\ IF owner = r
     THEN leaseLeft' = Ttl /\ UNCHANGED beat
     ELSE beat' = [beat EXCEPT ![r] = "lost"] /\ UNCHANGED leaseLeft
  /\ UNCHANGED <<head, cohorts, owner, pc, fetched, since, answer, history>>

---------------------------------------------------------------------------
(***************************************************************************)
(* Everybody, _wait_for_resolution.                                        *)
(***************************************************************************)
\* Mutant: a follower whose cohort is late resolves the revision itself.
AnswerOrHead(r) ==
  IF state[member[r]] = "resolving"
  THEN [revision |-> head, failure |-> "none"] ELSE Decision(member[r])

\* What get_for_task shows of the cohort.
Shown(r) == Decision(member[r])

Poll(r) ==
  /\ pc[r] = "waiting"
  /\ Look
  /\ IF Shown(r) = Undecided
     THEN Goto(r, "waiting") /\ UNCHANGED <<beat, fetched, answer>>
     ELSE End(r, Shown(r))
  /\ UNCHANGED <<head, lease, history>>

WaiterCanceled(r) ==
  /\ pc[r] = "waiting"
  /\ End(r, Undecided)
  /\ UNCHANGED <<head, cohorts, lease, history>>

---------------------------------------------------------------------------
(***************************************************************************)
(* Time, the remote, locks and crashes.                                    *)
(***************************************************************************)
\* "database is locked", wherever the thread uses the store.  An exception of
\* _fail itself still passes through the finally block.
StoreLocked(r) ==
  /\ "locked" \in Faults
  /\ \/ /\ pc[r] \in Places \ {"refreshing", "fetched", "resolving", "ended"}
        /\ End(r, Undecided)
     \/ /\ pc[r] \in {"refreshing", "resolving"}
        /\ Goto(r, "failing")
        /\ UNCHANGED <<beat, fetched, answer>>
  /\ IF pc[r] = "failing" THEN DropLease(r) ELSE UNCHANGED lease
  /\ UNCHANGED <<head, cohorts, history>>

\* The heartbeat thread catches LeaseBusyError and nothing else.
HeartbeatDies(r) ==
  /\ "locked" \in Faults
  /\ beat[r] = "on"
  /\ beat' = [beat EXCEPT ![r] = "dead"]
  /\ UNCHANGED <<head, cohorts, lease, pc, fetched, since, answer, history>>

Commit ==
  /\ head < MaxHead
  /\ head' = head + 1
  /\ UNCHANGED <<cohorts, lease, threads, history>>

\* Without "delay" a heartbeat that still runs is never late.
Prompt ==
  "delay" \notin Faults =>
    \A r \in Runs : owner = r /\ beat[r] = "on" => leaseLeft > 1

Tick ==
  /\ Prompt
  /\ left' = [c \in Runs |-> IF state[c] \in {"open", "resolving"} /\ left[c] > -LockWait
                             THEN left[c] - 1 ELSE left[c]]
  /\ since' = [r \in Runs |-> IF pc[r] = "resolving" /\ since[r] < LockWait
                              THEN since[r] + 1 ELSE since[r]]
  /\ leaseLeft' = IF leaseLeft > 0 THEN leaseLeft - 1 ELSE 0
  /\ lapsed' = (lapsed \/ leaseLeft = 1)
  /\ UNCHANGED <<head, state, revision, failure, member, owner, pc, beat, fetched,
                 answer, headAt>>

\* The process dies; the tables stay.  Runs that had not begun are executed
\* after the restart, the others are not prepared again.
Crash ==
  /\ "crash" \in Faults
  /\ pc' = [r \in Runs |-> IF pc[r] = "new" THEN "new" ELSE "ended"]
  /\ beat' = [r \in Runs |-> "off"]
  /\ fetched' = [r \in Runs |-> NoRevision]
  /\ since' = [r \in Runs |-> 0]
  /\ UNCHANGED <<head, cohorts, lease, answer, history>>

---------------------------------------------------------------------------
LeadOn(r) ==
  \/ AcquireRead(r)
  \/ AcquireInsert(r)
  \/ AcquireCollides(r)
  \/ AcquireUpdate(r)
  \/ Refresh(r)
  \/ RefreshFails(r)
  \/ CheckLease(r)
  \/ Resolve(r)
  \/ Fail(r)
  \/ Release(r)

Lead(r) == LeaderCanceled(r) \/ LeadOn(r)

Wait(r) == Poll(r) \/ WaiterCanceled(r)

Next ==
  \/ \E r \in Runs :
       \/ Create(r)
       \/ Follow(r)
       \/ Lead(r)
       \/ Heartbeat(r)
       \/ Wait(r)
       \/ StoreLocked(r)
       \/ HeartbeatDies(r)
  \/ Commit
  \/ Tick
  \/ Crash

Spec == Init /\ [][Next]_vars

\* Threads are scheduled, the resolver's subprocess has a timeout, and time
\* passes.  No run has to begin, nobody has to cancel one, and no heartbeat has
\* to come.
Fairness ==
  /\ \A r \in Runs : WF_vars(LeadOn(r) \/ Poll(r))
  /\ WF_vars(Tick)

FairSpec == Spec /\ Fairness

---------------------------------------------------------------------------
(***************************************************************************)
(* Properties.                                                             *)
(***************************************************************************)
TypeOK ==
  /\ head \in 0 .. MaxHead
  /\ state \in [Runs -> CohortStates \cup {"none"}]
  /\ left \in [Runs -> -LockWait .. Window]
  /\ revision \in [Runs -> 0 .. MaxHead \cup {NoRevision}]
  /\ failure \in [Runs -> FailureCodes \cup {"none"}]
  /\ member \in [Runs -> Runs \cup {None}]
  /\ owner \in Runs \cup {None}
  /\ leaseLeft \in 0 .. Ttl
  /\ pc \in [Runs -> Places]
  /\ beat \in [Runs -> {"off", "on", "lost", "dead"}]
  /\ \A r \in Runs : beat[r] # "off" => pc[r] \in Holding
  /\ fetched \in [Runs -> 0 .. MaxHead \cup {NoRevision}]
  /\ since \in [Runs -> 0 .. LockWait]
  /\ answer \in [Runs -> {Undecided} \cup Baselines \cup Refusals]
  /\ headAt \in [Runs -> 0 .. MaxHead]
  /\ lapsed \in BOOLEAN

\* Members of one cohort that get an answer get the same one: one revision, or
\* one failure, whatever deadlines, lease losses and crashes come between.
SharedBaseline ==
  \A r, s \in Runs :
    /\ member[r] = member[s]
    /\ answer[r] # Undecided
    /\ answer[s] # Undecided
    => answer[r] = answer[s]

\* The baseline a run works on is no older than the remote was when its cohort
\* was created.
FreshBaseline ==
  \A r \in Runs :
    answer[r].revision # NoRevision => answer[r].revision >= headAt[member[r]]

\* Only one leader is between taking and releasing the refresh lease, as long
\* as no lease has expired.
RefreshExclusive ==
  ~ lapsed => Cardinality({r \in Runs : pc[r] \in Holding}) <= 1

\* A sealed or failed cohort stays what it is and gets no new member, although
\* resolve may turn "resolving" back into "open" with an old clock.
ClosedForGood ==
  [][\A c \in Runs :
       state[c] \in {"sealed", "failed"} =>
         /\ state'[c] = state[c]
         /\ \A r \in Runs : member'[r] = c => member[r] = c]_vars

\* The coordinator implements the promise.
Promise == INSTANCE CohortPromise WITH
  Members <- Runs, Nobody <- None,
  group <- member, decision <- [c \in Runs |-> Decision(c)]
PromiseKept == Promise!Spec

\* The thread of the leader of r's cohort died and left nothing to read.
Abandoned(r) ==
  \E c \in Runs : member[r] = c /\ pc[c] = "ended" /\ Decision(c) = Undecided

\* A run that waits is answered or canceled in the end, also when its leader waits
\* behind the lease of another cohort or of a service that died, unless its leader's
\* thread died and left the cohort undecided.
WaitersAnswered ==
  \A r \in Runs : []<>(pc[r] # "waiting" \/ Abandoned(r))
=============================================================================
