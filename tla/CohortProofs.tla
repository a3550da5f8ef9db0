---------------------------- MODULE CohortProofs ----------------------------
(***************************************************************************)
(* Proofs about BaselineCohorts, for every set of runs and every window,   *)
(* lock timeout, lease lifetime and set of faults.                         *)
(***************************************************************************)
EXTENDS BaselineCohorts, FiniteSetTheorems, TLAPS

---------------------------------------------------------------------------
(***************************************************************************)
(* The inductive invariant.  TypeOK is not inductive alone: an answer is a *)
(* decision only if no cohort has both a revision and a failure, and what  *)
(* a waiting run reads is a row only if it is the member of a cohort.      *)
(***************************************************************************)
Leading == {"leading", "inserting", "updating"} \cup Holding
Undecisive == Leading \ {"releasing"}

Membership ==
  \A r \in Runs :
    /\ pc[r] = "new" => member[r] = None /\ state[r] = "none"
    /\ pc[r] \in Leading => member[r] = r
    /\ pc[r] = "waiting" => member[r] \in Runs
    /\ member[r] \in Runs => state[member[r]] # "none"
    /\ state[r] # "none" => member[r] = r

Decisions ==
  \A c \in Runs :
    /\ failure[c] # "none" <=> state[c] = "failed"
    /\ revision[c] # NoRevision => failure[c] = "none" /\ state[c] # "none"
    /\ state[c] = "sealed" => revision[c] # NoRevision

Leaders ==
  \A r \in Runs :
    /\ pc[r] \in Undecisive => revision[r] = NoRevision
    /\ pc[r] \in {"fetched", "resolving"} => fetched[r] # NoRevision
    /\ pc[r] \notin {"fetched", "resolving", "failing", "releasing"} =>
         fetched[r] = NoRevision

Answers ==
  \A r \in Runs :
    /\ pc[r] # "ended" => answer[r] = Undecided
    /\ answer[r] # Undecided => member[r] \in Runs /\ answer[r] = Decision(member[r])

Inv == TypeOK /\ Membership /\ Decisions /\ Leaders /\ Answers

---------------------------------------------------------------------------
(***************************************************************************)
(* Advancing expired cohorts.                                              *)
(***************************************************************************)
LEMMA AdvancedStates ==
  ASSUME Inv, NEW lag \in 0 .. LockWait
  PROVE  /\ Advanced(lag) \in [Runs -> CohortStates \cup {"none"}]
         /\ \A c \in Runs :
              /\ Advanced(lag)[c] = "failed" <=> state[c] = "failed"
              /\ Advanced(lag)[c] = "none" <=> state[c] = "none"
              /\ Advanced(lag)[c] = "sealed" => revision[c] # NoRevision
              /\ state[c] \in {"sealed", "failed"} => Advanced(lag)[c] = state[c]
BY DEF Advanced, Inv, TypeOK, Decisions, CohortStates

\* No clock lags by more than the lock timeout.
LEMMA LagsBounded ==
  ASSUME Inv, NEW r \in Runs
  PROVE  Lags(r) \subseteq 0 .. LockWait
BY Times DEF Lags, Inv, TypeOK

\* What a look at the cohorts leaves true.
LEMMA LookKeeps ==
  ASSUME Inv, Look
  PROVE  /\ state' \in [Runs -> CohortStates \cup {"none"}]
         /\ Decisions'
         /\ \A c \in Runs : state'[c] = "none" <=> state[c] = "none"
BY AdvancedStates, Times DEF Look, Decisions, Inv

---------------------------------------------------------------------------
LEMMA InitInv == Init => Inv
<1> SUFFICES ASSUME Init PROVE Inv
  OBVIOUS
<1>1. TypeOK
  <2>1. lapsed \in BOOLEAN
    BY DEF Init
  <2>2. QED
    BY <2>1, Times, Bounds DEF Init, TypeOK, Places, Holding
<1>2. Membership /\ Leaders
  BY NoneIsNoRun DEF Init, Membership, Leaders, Leading, Undecisive, Holding
<1>3. Decisions /\ Answers
  BY DEF Init, Decisions, Answers
<1>4. QED
  BY <1>1, <1>2, <1>3 DEF Inv

\* A run that opens a cohort is its first member and its leader.
LEMMA CreateKeeps == ASSUME Inv, NEW r \in Runs, Create(r) PROVE Inv'
<1> USE DEF Inv
<1>1. PICK lag \in 0 .. LockWait :
        /\ state' = [Advanced(lag) EXCEPT ![r] = "open"]
        /\ left' = [left EXCEPT ![r] = Window - lag]
  BY LagsBounded DEF Create
<1>2. \A c \in Runs \ {r} : state'[c] = Advanced(lag)[c]
  BY <1>1, AdvancedStates
<1>3. state'[r] = "open" /\ state' \in [Runs -> CohortStates \cup {"none"}]
  BY <1>1, AdvancedStates DEF CohortStates
<1>4. TypeOK'
  <2>1. left' \in [Runs -> -LockWait .. Window]
    BY <1>1, Times DEF TypeOK
  <2>2. /\ pc' \in [Runs -> Places] /\ since' \in [Runs -> 0 .. LockWait]
        /\ \A s \in Runs : beat'[s] # "off" => pc'[s] \in Holding
    BY Times DEF Create, Goto, TypeOK, Places, Holding
  <2>3. headAt' \in [Runs -> 0 .. MaxHead] /\ member' \in [Runs -> Runs \cup {None}]
    BY DEF Create, TypeOK
  <2>4. QED
    BY <1>3, <2>1, <2>2, <2>3 DEF Create, TypeOK, lease
<1>5. Membership'
  BY <1>2, <1>3, AdvancedStates, NoneIsNoRun
     DEF Create, Goto, Membership, TypeOK, Leading, Holding, Places
<1>6. Decisions'
  BY <1>2, <1>3, AdvancedStates DEF Create, Decisions, Membership
<1>7. Leaders'
  BY DEF Create, Goto, Leaders, Membership, Decisions, TypeOK, Undecisive, Leading, Holding
<1>8. Answers'
  BY NoneIsNoRun DEF Create, Goto, Answers, Membership, TypeOK, Decision
<1>9. QED
  BY <1>4, <1>5, <1>6, <1>7, <1>8

\* A follower joins a cohort that is open, hence undecided or resolved.
LEMMA FollowKeeps == ASSUME Inv, NEW r \in Runs, Follow(r) PROVE Inv'
<1> USE DEF Inv
<1>1. PICK lag \in 0 .. LockWait, c \in Runs :
        /\ c \in Joinable(lag)
        /\ member' = [member EXCEPT ![r] = c]
        /\ state' = Advanced(lag)
  BY LagsBounded DEF Follow, Newest, Joinable
<1>2. c \in Runs /\ state[c] = "open" /\ c # r
  BY <1>1 DEF Joinable, Advanced, Follow, Membership
<1>3. TypeOK'
  <2>1. /\ pc' \in [Runs -> Places] /\ since' \in [Runs -> 0 .. LockWait]
        /\ \A s \in Runs : beat'[s] # "off" => pc'[s] \in Holding
    BY Times DEF Follow, Goto, TypeOK, Places, Holding
  <2>2. member' \in [Runs -> Runs \cup {None}]
    BY <1>1 DEF TypeOK
  <2>3. state' \in [Runs -> CohortStates \cup {"none"}]
    BY <1>1, AdvancedStates
  <2>4. QED
    BY <2>1, <2>2, <2>3 DEF Follow, TypeOK, lease, history
<1>4. Membership'
  <2>1. member[r] = None /\ member[c] = c
    BY <1>2 DEF Follow, Membership, TypeOK
  <2>2. \A s \in Runs : member[s] = r => FALSE
    BY <2>1, NoneIsNoRun DEF Membership
  <2>3. \A s \in Runs : state'[s] = "none" <=> state[s] = "none"
    BY <1>1, AdvancedStates
  <2>4. QED
    BY <1>1, <1>2, <2>1, <2>2, <2>3, NoneIsNoRun
       DEF Follow, Goto, Membership, TypeOK, Leading, Holding
<1>5. Decisions'
  BY <1>1, AdvancedStates DEF Follow, Decisions
<1>6. Leaders'
  BY DEF Follow, Goto, Leaders, TypeOK, Undecisive, Leading, Holding
<1>7. Answers'
  BY <1>1, <1>2 DEF Follow, Goto, Answers, Membership, TypeOK, Decision
<1>8. QED
  BY <1>3, <1>4, <1>5, <1>6, <1>7

\* Types of a thread's own variables.
LEMMA GotoTyped ==
  ASSUME TypeOK, NEW r \in Runs, NEW place \in Places, Goto(r, place)
  PROVE  pc' \in [Runs -> Places] /\ since' \in [Runs -> 0 .. LockWait]
BY Times DEF TypeOK, Goto

\* What resolve returns or raises is an answer of the right shape.
LEMMA EndTyped ==
  ASSUME TypeOK, NEW r \in Runs,
         NEW result \in {Undecided} \cup Baselines \cup Refusals, End(r, result)
  PROVE  /\ pc' \in [Runs -> Places] /\ since' \in [Runs -> 0 .. LockWait]
         /\ beat' \in [Runs -> {"off", "on", "lost", "dead"}]
         /\ \A s \in Runs : beat'[s] # "off" => pc'[s] \in Holding
         /\ fetched' \in [Runs -> 0 .. MaxHead \cup {NoRevision}]
         /\ answer' \in [Runs -> {Undecided} \cup Baselines \cup Refusals]
<1>1. "ended" \in Places
  BY DEF Places
<1>2. Goto(r, "ended")
  BY DEF End
<1>3. QED
  BY <1>1, <1>2, GotoTyped DEF TypeOK, End, Goto

\* A leader that goes on; at most a look advances the cohorts.
LEMMA LeaderGoesOn ==
  ASSUME Inv, NEW r \in Runs, NEW place \in Leading, pc[r] \in Leading, Goto(r, place),
         place \in Undecisive => pc[r] \in Undecisive,
         UNCHANGED <<head, left, revision, failure, member, answer, history>>,
         state' \in [Runs -> CohortStates \cup {"none"}], Decisions',
         \A c \in Runs : state'[c] = "none" <=> state[c] = "none",
         beat' \in [Runs -> {"off", "on", "lost", "dead"}],
         \A s \in Runs \ {r} : beat'[s] = beat[s] /\ fetched'[s] = fetched[s],
         beat'[r] # "off" => place \in Holding,
         fetched' \in [Runs -> 0 .. MaxHead \cup {NoRevision}],
         place \in {"fetched", "resolving"} => fetched'[r] # NoRevision,
         place \notin {"fetched", "resolving", "failing", "releasing"} =>
           fetched'[r] = NoRevision,
         owner' \in Runs \cup {None}, leaseLeft' \in 0 .. Ttl
  PROVE  Inv'
<1> USE DEF Inv
<1>1. pc' = [pc EXCEPT ![r] = place] /\ since' \in [Runs -> 0 .. LockWait]
  BY Times DEF Goto, TypeOK
<1>2. TypeOK'
  BY <1>1 DEF TypeOK, history, Leading, Places
<1>3. Membership'
  BY <1>1 DEF TypeOK, Membership, Leading, Holding
<1>4. Answers'
  BY <1>1 DEF TypeOK, Answers, Decision, Leading, Holding
<1>5. Leaders'
  BY <1>1 DEF TypeOK, Leaders
<1>6. QED
  BY <1>2, <1>3, <1>4, <1>5

\* A thread that ends with a result, whatever happens to the lease.
LEMMA ThreadEnds ==
  ASSUME Inv, NEW r \in Runs, NEW result \in {Undecided} \cup Baselines \cup Refusals,
         End(r, result), result # Undecided => member[r] \in Runs /\ result = Decision(member[r]),
         UNCHANGED <<head, left, revision, failure, member, history>>,
         state' \in [Runs -> CohortStates \cup {"none"}], Decisions',
         \A c \in Runs : state'[c] = "none" <=> state[c] = "none",
         owner' \in Runs \cup {None}, leaseLeft' \in 0 .. Ttl
  PROVE  Inv'
<1> USE DEF Inv
<1>1. TypeOK'
  BY EndTyped DEF TypeOK, history
<1>2. Membership'
  BY DEF TypeOK, Membership, End, Goto, Leading, Holding
<1>3. Leaders'
  BY DEF TypeOK, Leaders, End, Goto, Undecisive, Leading, Holding
<1>4. Answers'
  BY DEF TypeOK, Answers, End, Goto, Decision, Undecided
<1>5. QED
  BY <1>1, <1>2, <1>3, <1>4

\* LeaderCanceled and Fail: the cohort is failed, unless it is already.
LEMMA FailureRecorded ==
  ASSUME Inv, NEW r \in Runs, pc[r] \in Undecisive, NEW code \in FailureCodes,
         RecordFailure(r, code)
  PROVE  /\ state' \in [Runs -> CohortStates \cup {"none"}]
         /\ failure' \in [Runs -> FailureCodes \cup {"none"}]
         /\ Decisions'
         /\ state[r] # "none"
         /\ \A c \in Runs : state'[c] = "none" <=> state[c] = "none"
         /\ \A c \in Runs : Decision(c) # Undecided => Decision(c)' = Decision(c)
<1> USE DEF Inv
<1>1. state[r] # "none"
  BY NoneIsNoRun DEF Membership, Undecisive, Leading
<1>2. /\ state' \in [Runs -> CohortStates \cup {"none"}]
      /\ failure' \in [Runs -> FailureCodes \cup {"none"}]
  BY DEF RecordFailure, TypeOK, CohortStates
<1>3. Decisions'
  BY <1>1 DEF RecordFailure, Decisions, TypeOK, FailureCodes
<1>4. \A c \in Runs : state'[c] = "none" <=> state[c] = "none"
  BY <1>1 DEF RecordFailure, TypeOK
<1>5. \A c \in Runs : Decision(c) # Undecided => Decision(c)' = Decision(c)
  BY DEF RecordFailure, TypeOK, Decisions, Decision, Undecided
<1>6. QED
  BY <1>1, <1>2, <1>3, <1>4, <1>5

\* A canceled leader records its refusal before it ends.
LEMMA LeaderCanceledKeeps ==
  ASSUME Inv, NEW r \in Runs, LeaderCanceled(r)
  PROVE  Inv'
<1> USE DEF Inv
<1>1. pc[r] \in Undecisive /\ RecordFailure(r, "baseline_leader_canceled")
  BY DEF LeaderCanceled, Undecisive, Leading
<1>2. "baseline_leader_canceled" \in FailureCodes
  BY DEF FailureCodes
<1>3. TypeOK'
  BY <1>1, <1>2, FailureRecorded, EndTyped
     DEF LeaderCanceled, RecordFailure, TypeOK, lease, history
<1>4. Membership'
  BY <1>1, <1>2, FailureRecorded
     DEF LeaderCanceled, RecordFailure, End, Goto, TypeOK, Membership, Leading, Holding
<1>5. Leaders'
  BY DEF LeaderCanceled, RecordFailure, End, Goto, TypeOK, Leaders, Undecisive, Leading, Holding
<1>6. Answers'
  <2>1. member' = member /\ answer' = [answer EXCEPT ![r] = Undecided]
    BY DEF LeaderCanceled, RecordFailure, End
  <2>2. \A c \in Runs : Decision(c) # Undecided => Decision(c)' = Decision(c)
    BY <1>1, <1>2, FailureRecorded
  <2>3. \A s \in Runs : pc'[s] # "ended" => pc[s] # "ended"
    BY DEF LeaderCanceled, End, Goto, TypeOK
  <2>4. QED
    BY <2>1, <2>2, <2>3 DEF Answers, TypeOK
<1>7. QED
  BY <1>1, <1>2, <1>3, <1>4, <1>5, <1>6, FailureRecorded

\* The lease loop of the leader.
LEMMA AcquireKeeps ==
  ASSUME Inv, NEW r \in Runs,
         \/ AcquireRead(r)
         \/ AcquireInsert(r)
         \/ AcquireCollides(r)
         \/ AcquireUpdate(r)
  PROVE  Inv'
<1> USE DEF Inv
<1>1. CASE AcquireRead(r)
  BY <1>1, LeaderGoesOn
     DEF AcquireRead, TypeOK, Leaders, Leading, Undecisive, Holding, lease, cohorts, Decisions
<1>2. ASSUME StartHolding(r), pc[r] \in {"inserting", "updating"},
             owner' \in Runs \cup {None}, leaseLeft' \in 0 .. Ttl
      PROVE  Inv'
  <2>1. Goto(r, "refreshing")
    BY <1>2 DEF StartHolding
  <2>2. QED
    BY <1>2, <2>1, LeaderGoesOn
       DEF StartHolding, TypeOK, Leaders, Leading, Undecisive, Holding, cohorts, Decisions
<1>3. CASE AcquireInsert(r)
  BY <1>2, <1>3, Times DEF AcquireInsert, TakeLease
<1>4. CASE AcquireCollides(r)
  BY <1>4, ThreadEnds DEF AcquireCollides, TypeOK, cohorts, lease, Decisions
<1>5. CASE AcquireUpdate(r)
  BY <1>2, <1>5, Times DEF AcquireUpdate, TakeLease, TypeOK, lease
<1>6. QED
  BY <1>1, <1>3, <1>4, <1>5

\* The leader's refresh, up to the answer of the resolver.
LEMMA RefreshKeeps ==
  ASSUME Inv, NEW r \in Runs, Refresh(r) \/ RefreshFails(r) \/ CheckLease(r)
  PROVE  Inv'
<1> USE DEF Inv
<1>1. CASE Refresh(r)
  <2>1. head # NoRevision
    BY Bounds DEF TypeOK, NoRevision
  <2>2. Goto(r, "fetched") /\ Look
    BY <1>1 DEF Refresh
  <2>3. QED
    BY <1>1, <2>1, <2>2, LookKeeps, LeaderGoesOn
       DEF Refresh, Look, TypeOK, Leaders, Leading, Undecisive, Holding, lease
<1>2. CASE RefreshFails(r)
  <2>1. Goto(r, "failing") /\ Look
    BY <1>2 DEF RefreshFails
  <2>2. QED
    BY <1>2, <2>1, LookKeeps, LeaderGoesOn
       DEF RefreshFails, Look, TypeOK, Leaders, Leading, Undecisive, Holding, lease
<1>3. CASE CheckLease(r)
  <2>1. PICK place \in {"failing", "resolving"} : Goto(r, place)
    BY <1>3 DEF CheckLease
  <2>2. QED
    BY <1>3, <2>1, LeaderGoesOn
       DEF CheckLease, TypeOK, Leaders, Leading, Undecisive, Holding, lease, cohorts, Decisions
<1>4. QED
  BY <1>1, <1>2, <1>3

\* Only the leader, still resolving, writes the revision of its cohort.
LEMMA ResolveKeeps ==
  ASSUME Inv, NEW r \in Runs, Resolve(r)
  PROVE  Inv'
<1> USE DEF Inv
<1>1. /\ pc[r] = "resolving" /\ revision[r] = NoRevision /\ fetched[r] # NoRevision
      /\ member[r] = r /\ state[r] \notin {"failed", "none"} /\ failure[r] = "none"
  BY NoneIsNoRun
     DEF Resolve, Leaders, Membership, Decisions, Undecisive, Leading, Holding, TypeOK
<1>2. PICK now \in {"open", "sealed"} : state' = [state EXCEPT ![r] = now]
  BY DEF Resolve
<1>3. Goto(r, "releasing") /\ "releasing" \in Places
  BY DEF Resolve, Places, Holding
<1>4. TypeOK'
  BY <1>1, <1>2, <1>3, GotoTyped DEF Resolve, Goto, TypeOK, lease, history, CohortStates, Holding
<1>5. Membership'
  BY <1>1, <1>2 DEF Resolve, Goto, TypeOK, Membership, Leading, Holding
<1>6. Decisions'
  BY <1>1, <1>2 DEF Resolve, TypeOK, Decisions
<1>7. Leaders'
  BY <1>1 DEF Resolve, Goto, TypeOK, Leaders, Undecisive, Leading, Holding
<1>8. Answers'
  BY <1>1 DEF Resolve, Goto, TypeOK, Answers, Decision, Undecided
<1>9. QED
  BY <1>4, <1>5, <1>6, <1>7, <1>8

\* A leader that failed records it before it releases the lease.
LEMMA FailKeeps ==
  ASSUME Inv, NEW r \in Runs, Fail(r)
  PROVE  Inv'
<1> USE DEF Inv
<1>1. pc[r] \in Undecisive /\ RecordFailure(r, "baseline_resolution_failed")
  BY DEF Fail, Undecisive, Leading, Holding
<1>2. "baseline_resolution_failed" \in FailureCodes
  BY DEF FailureCodes
<1>3. Goto(r, "releasing") /\ "releasing" \in Places
  BY DEF Fail, Places, Holding
<1>4. TypeOK'
  BY <1>1, <1>2, <1>3, FailureRecorded, GotoTyped
     DEF Fail, RecordFailure, Goto, TypeOK, lease, history, Holding
<1>5. Membership'
  BY <1>1, <1>2, FailureRecorded
     DEF Fail, RecordFailure, Goto, TypeOK, Membership, Leading, Holding
<1>6. Leaders'
  BY <1>1 DEF Fail, RecordFailure, Goto, TypeOK, Leaders, Undecisive, Leading, Holding
<1>7. Answers'
  <2>1. member' = member /\ answer' = answer
    BY DEF Fail, RecordFailure
  <2>2. \A c \in Runs : Decision(c) # Undecided => Decision(c)' = Decision(c)
    BY <1>1, <1>2, FailureRecorded
  <2>3. \A s \in Runs : pc'[s] # "ended" => pc[s] # "ended"
    BY <1>1 DEF Fail, Goto, TypeOK, Undecisive, Leading, Holding
  <2>4. QED
    BY <2>1, <2>2, <2>3 DEF Answers, TypeOK
<1>8. QED
  BY <1>1, <1>2, <1>4, <1>5, <1>6, <1>7, FailureRecorded

\* The finally block leaves the tables of the cohort alone.
LEMMA ReleaseKeeps ==
  ASSUME Inv, NEW r \in Runs, Release(r)
  PROVE  Inv'
<1> USE DEF Inv
<1>1. owner' \in Runs \cup {None} /\ leaseLeft' \in 0 .. Ttl
  BY Times DEF Release, DropLease, TypeOK
<1>2. pc' = [pc EXCEPT ![r] = "waiting"] /\ since' \in [Runs -> 0 .. LockWait]
  BY Times DEF Release, Goto, TypeOK
<1>3. TypeOK'
  BY <1>1, <1>2 DEF Release, TypeOK, cohorts, history, Places
<1>4. Membership' /\ Decisions'
  BY <1>2 DEF Release, TypeOK, cohorts, Membership, Decisions, Leading, Holding
<1>5. Leaders'
  BY <1>2 DEF Release, TypeOK, cohorts, Leaders, Undecisive, Leading, Holding
<1>6. Answers'
  BY <1>2 DEF Release, TypeOK, cohorts, Answers, Decision
<1>7. QED
  BY <1>3, <1>4, <1>5, <1>6

\* Whoever waits.
LEMMA WaitKeeps ==
  ASSUME Inv, NEW r \in Runs, Wait(r)
  PROVE  Inv'
<1> USE DEF Inv
<1>1. CASE Poll(r) /\ Shown(r) = Undecided
  <2>1. pc' = [pc EXCEPT ![r] = "waiting"] /\ since' \in [Runs -> 0 .. LockWait]
    BY <1>1, Times DEF Poll, Goto, TypeOK
  <2>2. pc' = pc
    BY <1>1, <2>1 DEF Poll, TypeOK
  <2>3. Look
    BY <1>1 DEF Poll
  <2>4. TypeOK'
    BY <1>1, <2>1, <2>2, <2>3, LookKeeps DEF Poll, Look, TypeOK, lease, history
  <2>5. Membership' /\ Leaders'
    BY <1>1, <2>2, <2>3, LookKeeps DEF Poll, Look, TypeOK, Membership, Leaders
  <2>6. Answers'
    BY <1>1, <2>2, <2>3 DEF Poll, Look, TypeOK, Answers, Decision
  <2>7. QED
    BY <2>3, <2>4, <2>5, <2>6, LookKeeps
<1>2. CASE Poll(r) /\ Shown(r) # Undecided
  <2>1. member[r] \in Runs /\ Look /\ End(r, Shown(r))
    BY <1>2 DEF Poll, Membership
  <2>2. Shown(r) \in Baselines \cup Refusals
    <3>1. CASE revision[member[r]] # NoRevision
      <4>1. failure[member[r]] = "none" /\ revision[member[r]] \in 0 .. MaxHead
        BY <2>1, <3>1 DEF Decisions, TypeOK
      <4>2. QED
        BY <4>1 DEF Shown, Decision, Baselines
    <3>2. CASE revision[member[r]] = NoRevision
      <4>1. failure[member[r]] \in FailureCodes
        BY <1>2, <2>1, <3>2 DEF TypeOK, Shown, Decision, Undecided
      <4>2. QED
        BY <3>2, <4>1 DEF Shown, Decision, Refusals
    <3>3. QED
      BY <3>1, <3>2
  <2>3. QED
    BY <1>2, <2>1, <2>2, LookKeeps, ThreadEnds DEF Poll, Look, Shown, TypeOK, lease
<1>3. CASE WaiterCanceled(r)
  BY <1>3, ThreadEnds DEF WaiterCanceled, TypeOK, cohorts, lease, Decisions
<1>4. QED
  BY <1>1, <1>2, <1>3 DEF Wait, Poll

\* The heartbeat thread of a leader.
LEMMA HeartbeatKeeps ==
  ASSUME Inv, NEW r \in Runs, Heartbeat(r) \/ HeartbeatDies(r)
  PROVE  Inv'
<1> USE DEF Inv
<1>1. /\ UNCHANGED <<head, cohorts, owner, pc, fetched, since, answer, history>>
      /\ beat[r] = "on" /\ leaseLeft' \in 0 .. Ttl
      /\ beat' = beat \/ \E how \in {"lost", "dead"} : beat' = [beat EXCEPT ![r] = how]
  BY Times DEF Heartbeat, HeartbeatDies, TypeOK, lease
<1>2. TypeOK'
  BY <1>1 DEF TypeOK, cohorts, history
<1>3. Membership' /\ Decisions' /\ Leaders'
  BY <1>1 DEF cohorts, Membership, Decisions, Leaders
<1>4. Answers'
  BY <1>1 DEF cohorts, Answers, Decision
<1>5. QED
  BY <1>2, <1>3, <1>4

\* A store operation that finds the database locked.
LEMMA LockedKeeps ==
  ASSUME Inv, NEW r \in Runs, StoreLocked(r)
  PROVE  Inv'
<1> USE DEF Inv
<1>1. owner' \in Runs \cup {None} /\ leaseLeft' \in 0 .. Ttl
  BY Times DEF StoreLocked, DropLease, TypeOK, lease
<1>2. CASE pc[r] \in Places \ {"refreshing", "fetched", "resolving", "ended"}
  <2>1. End(r, Undecided)
    BY <1>2 DEF StoreLocked
  <2>2. QED
    BY <1>1, <2>1, ThreadEnds DEF StoreLocked, TypeOK, cohorts, Decisions
<1>3. CASE pc[r] \in {"refreshing", "resolving"}
  <2>1. Goto(r, "failing") /\ UNCHANGED <<beat, fetched, answer>>
    BY <1>3 DEF StoreLocked
  <2>2. QED
    BY <1>1, <1>3, <2>1, LeaderGoesOn
       DEF StoreLocked, TypeOK, Leading, Undecisive, Holding, cohorts, Decisions
<1>4. QED
  BY <1>2, <1>3 DEF StoreLocked

\* The clock, the remote and a crash.
LEMMA SurroundingsKeep ==
  ASSUME Inv, Commit \/ Tick \/ Crash
  PROVE  Inv'
<1> USE DEF Inv
<1>1. CASE Commit
  <2>1. TypeOK'
    BY <1>1, Bounds DEF Commit, TypeOK, cohorts, lease, threads, history
  <2>2. QED
    BY <1>1, <2>1
       DEF Commit, cohorts, threads, Membership, Decisions, Leaders, Answers, Decision
<1>2. CASE Tick
  <2>1. left' \in [Runs -> -LockWait .. Window] /\ since' \in [Runs -> 0 .. LockWait]
    BY <1>2, Times DEF Tick, TypeOK
  <2>2. leaseLeft' \in 0 .. Ttl
    BY <1>2, Times DEF Tick, TypeOK
  <2>3. lapsed' \in BOOLEAN
    BY <1>2 DEF Tick
  <2>4. TypeOK'
    BY <1>2, <2>1, <2>2, <2>3 DEF Tick, TypeOK
  <2>5. QED
    BY <1>2, <2>4 DEF Tick, Membership, Decisions, Leaders, Answers, Decision
<1>3. CASE Crash
  <2>1. \A r \in Runs : pc'[r] = "new" <=> pc[r] = "new"
    BY <1>3 DEF Crash
  <2>2. \A r \in Runs : pc'[r] \in {"new", "ended"}
    BY <1>3 DEF Crash
  <2>3. TypeOK'
    BY <1>3, Times DEF Crash, TypeOK, cohorts, lease, history, Places, Holding
  <2>4. Membership' /\ Decisions' /\ Leaders'
    BY <1>3, <2>1, <2>2
       DEF Crash, cohorts, Membership, Decisions, Leaders, Undecisive, Leading, Holding
  <2>5. Answers'
    BY <1>3, <2>1, <2>2 DEF Crash, cohorts, Answers, Decision
  <2>6. QED
    BY <2>3, <2>4, <2>5
<1>4. QED
  BY <1>1, <1>2, <1>3

\* The invariant is inductive.
LEMMA NextKeeps == Inv /\ [Next]_vars => Inv'
<1> SUFFICES ASSUME Inv, [Next]_vars PROVE Inv'
  OBVIOUS
<1>1. ASSUME NEW r \in Runs, Lead(r)
      PROVE  Inv'
  BY <1>1, LeaderCanceledKeeps, AcquireKeeps, RefreshKeeps, ResolveKeeps, FailKeeps,
     ReleaseKeeps DEF Lead, LeadOn
<1>2. CASE UNCHANGED vars
  BY <1>2
     DEF vars, cohorts, lease, threads, history, Inv, TypeOK, Membership, Decisions, Leaders,
         Answers, Decision
<1>3. QED
  BY <1>1, <1>2, CreateKeeps, FollowKeeps, HeartbeatKeeps, WaitKeeps, LockedKeeps,
     SurroundingsKeep DEF Next

\* The invariant holds in every reachable state.
LEMMA Invariance == Spec => []Inv
BY InitInv, NextKeeps, PTL DEF Spec

\* Every row and every thread of the coordinator stays in the states the code
\* has; the heartbeat thread lives only while its leader holds the lease.
THEOREM CohortTypes == Spec => []TypeOK
BY Invariance, PTL DEF Inv

\* Runs of one cohort that are answered are answered alike, for any number of
\* runs, window, clock lag and faults.
THEOREM SharedByAll == Spec => []SharedBaseline
<1>1. Inv => SharedBaseline
  BY DEF Inv, Answers, SharedBaseline
<1>2. QED
  BY <1>1, Invariance, PTL

---------------------------------------------------------------------------
(***************************************************************************)
(* A cohort that is sealed or failed stays so and gets no new member.      *)
(***************************************************************************)
Closed(c) == state[c] \in {"sealed", "failed"}
StaysClosed ==
  \A c \in Runs : Closed(c) =>
    /\ state'[c] = state[c]
    /\ \A r \in Runs : member'[r] = c => member[r] = c

\* Reading the membership opens no cohort again.
LEMMA LookStaysClosed ==
  ASSUME Inv, Look
  PROVE  StaysClosed
BY AdvancedStates, Times DEF Look, StaysClosed, Closed

\* Joining opens no cohort again and finds only open ones.
LEMMA JoinStaysClosed ==
  ASSUME Inv, NEW r \in Runs, Create(r) \/ Follow(r)
  PROVE  StaysClosed
<1>1. CASE Create(r)
  <2>1. PICK lag \in 0 .. LockWait : state' = [Advanced(lag) EXCEPT ![r] = "open"]
    BY <1>1, LagsBounded DEF Create
  <2>2. state[r] = "none"
    BY <1>1 DEF Create, Inv, Membership
  <2>3. \A c \in Runs : Closed(c) => c # r /\ state'[c] = state[c]
    BY <2>1, <2>2, AdvancedStates DEF Closed
  <2>4. QED
    BY <1>1, <2>3 DEF Create, StaysClosed, Inv, TypeOK
<1>2. CASE Follow(r)
  <2>1. PICK lag \in 0 .. LockWait, d \in Runs :
          /\ d \in Joinable(lag)
          /\ member' = [member EXCEPT ![r] = d]
          /\ state' = Advanced(lag)
    BY <1>2, LagsBounded DEF Follow, Newest, Joinable
  <2>2. ~ Closed(d)
    BY <2>1, AdvancedStates DEF Joinable, Closed
  <2>3. QED
    BY <2>1, <2>2, AdvancedStates DEF Closed, StaysClosed, Inv, TypeOK
<1>3. QED
  BY <1>1, <1>2

\* No step opens a closed cohort or adds a member to it.
LEMMA StepStaysClosed ==
  ASSUME Inv, [Next]_vars
  PROVE  StaysClosed
<1>1. ASSUME NEW r \in Runs, Lead(r)
      PROVE  StaysClosed
  <2>1. CASE LeaderCanceled(r) \/ Fail(r)
    <3>1. revision[r] = NoRevision
      BY <2>1 DEF LeaderCanceled, Fail, RecordFailure
    <3>2. state[r] # "sealed"
      BY <3>1 DEF Inv, Decisions
    <3>3. QED
      BY <2>1, <3>2
         DEF LeaderCanceled, Fail, RecordFailure, StaysClosed, Closed, Inv, TypeOK
  <2>2. CASE Resolve(r)
    <3>1. revision[r] = NoRevision
      BY <2>2 DEF Resolve, Inv, Leaders, Undecisive, Leading, Holding
    <3>2. ~ Closed(r)
      BY <2>2, <3>1 DEF Resolve, Closed, Inv, Decisions
    <3>3. QED
      BY <2>2, <3>2 DEF Resolve, StaysClosed, Closed, Inv, TypeOK
  <2>3. CASE Refresh(r) \/ RefreshFails(r)
    BY <2>3, LookStaysClosed DEF Refresh, RefreshFails
  <2>4. CASE UNCHANGED cohorts
    BY <2>4 DEF cohorts, StaysClosed
  <2>5. QED
    BY <1>1, <2>1, <2>2, <2>3, <2>4
       DEF Lead, LeadOn, AcquireRead, AcquireInsert, AcquireCollides, AcquireUpdate, StartHolding,
           CheckLease, Release
<1>2. ASSUME NEW r \in Runs, Poll(r)
      PROVE  StaysClosed
  BY <1>2, LookStaysClosed DEF Poll
<1>3. CASE UNCHANGED cohorts
  BY <1>3 DEF cohorts, StaysClosed
<1>4. CASE Tick
  BY <1>4 DEF Tick, StaysClosed
<1>5. QED
  BY <1>1, <1>2, <1>3, <1>4, JoinStaysClosed
     DEF Next, vars, Wait, WaiterCanceled, Heartbeat, HeartbeatDies, StoreLocked, Commit, Crash

\* A sealed or failed cohort is closed for good, however far the clock of a
\* store operation is behind.
THEOREM CohortsStayClosed == Spec => ClosedForGood
<1>1. Inv /\ [Next]_vars => [StaysClosed]_vars
  BY StepStaysClosed
<1>2. [][StaysClosed]_vars => ClosedForGood
  <2>1. [StaysClosed]_vars =>
          [\A c \in Runs :
             state[c] \in {"sealed", "failed"} =>
               /\ state'[c] = state[c]
               /\ \A r \in Runs : member'[r] = c => member[r] = c]_vars
    BY DEF StaysClosed, Closed
  <2>2. QED
    BY <2>1, PTL DEF ClosedForGood
<1>3. QED
  BY <1>1, <1>2, Invariance, PTL DEF Spec

---------------------------------------------------------------------------
(***************************************************************************)
(* The refresh lease, as long as none has expired.                         *)
(***************************************************************************)
LeaseHeld ==
  ~ lapsed =>
    /\ owner # None => leaseLeft > 0
    /\ \A r \in Runs : pc[r] # "updating"
    /\ \A r \in Runs : pc[r] \in Holding => owner = r

\* Until a lease has expired, its row names the only leader that holds it.
LEMMA LeaseStep ==
  ASSUME Inv, LeaseHeld, [Next]_vars
  PROVE  LeaseHeld'
<1> USE DEF Inv, TypeOK
<1>1. ASSUME NEW r \in Runs, Create(r) \/ Follow(r) \/ Wait(r)
      PROVE  LeaseHeld'
  BY <1>1 DEF Create, Follow, Wait, Poll, WaiterCanceled, End, Goto, lease, history, LeaseHeld,
     Holding
<1>2. ASSUME NEW r \in Runs, AcquireRead(r) \/ AcquireCollides(r) \/ LeaderCanceled(r)
      PROVE  LeaseHeld'
  BY <1>2 DEF AcquireRead, AcquireCollides, LeaderCanceled, End, Goto, lease, history, LeaseHeld,
     Holding
<1>3. ASSUME NEW r \in Runs, AcquireInsert(r) \/ AcquireUpdate(r)
      PROVE  LeaseHeld'
  BY <1>3, Times, NoneIsNoRun
     DEF AcquireInsert, AcquireUpdate, StartHolding, TakeLease, Goto, lease, history, LeaseHeld,
         Holding
<1>4. ASSUME NEW r \in Runs,
             Refresh(r) \/ RefreshFails(r) \/ CheckLease(r) \/ Resolve(r) \/ Fail(r)
      PROVE  LeaseHeld'
  BY <1>4 DEF Refresh, RefreshFails, CheckLease, Resolve, Fail, Goto, lease, history, LeaseHeld,
     Holding
<1>5. ASSUME NEW r \in Runs, Release(r) \/ StoreLocked(r)
      PROVE  LeaseHeld'
  <2>1. pc[r] \in Holding /\ ~ lapsed => owner = r
    BY DEF LeaseHeld
  <2>2. CASE Release(r)
    BY <2>1, <2>2, NoneIsNoRun DEF Release, DropLease, Goto, history, LeaseHeld, Holding
  <2>3. CASE StoreLocked(r) /\ pc[r] = "failing"
    BY <2>1, <2>3, NoneIsNoRun
       DEF StoreLocked, DropLease, End, Goto, history, LeaseHeld, Holding
  <2>4. CASE StoreLocked(r) /\ pc[r] # "failing"
    BY <2>4 DEF StoreLocked, End, Goto, lease, history, LeaseHeld, Holding
  <2>5. QED
    BY <1>5, <2>2, <2>3, <2>4
<1>6. ASSUME NEW r \in Runs, Heartbeat(r) \/ HeartbeatDies(r)
      PROVE  LeaseHeld'
  BY <1>6, Times DEF Heartbeat, HeartbeatDies, lease, history, LeaseHeld
<1>7. CASE Commit \/ Tick \/ Crash
  <2>1. CASE Commit
    BY <2>1 DEF Commit, lease, threads, history, LeaseHeld
  <2>2. CASE Tick
    <3>1. ~ lapsed' => ~ lapsed /\ leaseLeft # 1
      BY <2>2 DEF Tick
    <3>2. leaseLeft > 0 /\ leaseLeft # 1 => leaseLeft' > 0
      BY <2>2, Times DEF Tick
    <3>3. owner' = owner /\ pc' = pc
      BY <2>2 DEF Tick
    <3>4. QED
      BY <3>1, <3>2, <3>3 DEF LeaseHeld
  <2>3. CASE Crash
    BY <2>3 DEF Crash, lease, history, LeaseHeld, Holding
  <2>4. QED
    BY <1>7, <2>1, <2>2, <2>3
<1>8. CASE UNCHANGED vars
  BY <1>8 DEF vars, lease, threads, history, LeaseHeld
<1>9. QED
  BY <1>1, <1>2, <1>3, <1>4, <1>5, <1>6, <1>7, <1>8 DEF Next, Lead, LeadOn

\* Until a lease has expired, at most one leader refreshes the repository:
\* LeaseStore.acquire's read and write may be apart.
THEOREM OneRefresher == Spec => []RefreshExclusive
<1>1. Init => LeaseHeld
  BY DEF Init, LeaseHeld, Holding
<1>2. LeaseHeld => RefreshExclusive
  <2>1. SUFFICES ASSUME LeaseHeld, ~ lapsed
                 PROVE  Cardinality({r \in Runs : pc[r] \in Holding}) <= 1
    BY DEF RefreshExclusive
  <2>2. {r \in Runs : pc[r] \in Holding} \subseteq {owner}
    BY <2>1 DEF LeaseHeld
  <2>3. IsFiniteSet({owner}) /\ Cardinality({owner}) = 1
    BY FS_Singleton
  <2>4. QED
    BY <2>2, <2>3, FS_Subset
<1>3. QED
  BY <1>1, <1>2, LeaseStep, Invariance, PTL DEF Spec

---------------------------------------------------------------------------
(***************************************************************************)
(* No baseline is older than its cohort.                                   *)
(***************************************************************************)
Fresh ==
  \A c \in Runs :
    /\ headAt[c] <= head
    /\ revision[c] # NoRevision => revision[c] >= headAt[c]
    /\ fetched[c] # NoRevision => fetched[c] >= headAt[c]

\* What a resolver fetched is as new as the cohort of its leader.
LEMMA FreshStep ==
  ASSUME Inv, Fresh, [Next]_vars
  PROVE  Fresh'
<1> USE DEF Inv, TypeOK
<1>1. ASSUME NEW r \in Runs, Create(r)
      PROVE  Fresh'
  <2>1. revision[r] = NoRevision /\ fetched[r] = NoRevision
    BY <1>1 DEF Create, Membership, Decisions, Leaders
  <2>2. QED
    BY <1>1, <2>1 DEF Create, Fresh
<1>2. ASSUME NEW r \in Runs, Refresh(r)
      PROVE  Fresh'
  BY <1>2 DEF Refresh, Look, Fresh, history
<1>3. ASSUME NEW r \in Runs, Resolve(r)
      PROVE  Fresh'
  BY <1>3 DEF Resolve, Fresh, history
<1>4. ASSUME UNCHANGED <<head, headAt, revision>>,
             \A r \in Runs : fetched'[r] \in {fetched[r], NoRevision}
      PROVE  Fresh'
  BY <1>4 DEF Fresh
<1>5. ASSUME NEW r \in Runs,
             \/ Follow(r) \/ LeaderCanceled(r) \/ AcquireRead(r) \/ AcquireInsert(r)
             \/ AcquireCollides(r) \/ AcquireUpdate(r) \/ RefreshFails(r) \/ CheckLease(r)
      PROVE  Fresh'
  BY <1>4, <1>5
     DEF Follow, LeaderCanceled, RecordFailure, AcquireRead, AcquireInsert, AcquireCollides,
         AcquireUpdate, StartHolding, RefreshFails, CheckLease, Look, End, history, cohorts
<1>6. ASSUME NEW r \in Runs,
             \/ Fail(r) \/ Release(r) \/ Heartbeat(r) \/ HeartbeatDies(r)
             \/ Wait(r) \/ StoreLocked(r)
      PROVE  Fresh'
  BY <1>4, <1>6
     DEF Fail, RecordFailure, Release, Heartbeat, HeartbeatDies, Wait, Poll, WaiterCanceled,
         StoreLocked, Look, End, history, cohorts
<1>7. CASE Commit
  BY <1>7 DEF Commit, Fresh, cohorts, threads, history
<1>8. CASE Tick \/ Crash \/ UNCHANGED vars
  BY <1>4, <1>8 DEF Tick, Crash, vars, cohorts, threads, history
<1>9. QED
  BY <1>1, <1>2, <1>3, <1>5, <1>6, <1>7, <1>8 DEF Next, Lead, LeadOn

\* The revision a run works on is no older than its cohort, so that nobody
\* repairs what the remote had already fixed by then.
THEOREM BaselineIsFresh == Spec => []FreshBaseline
<1>1. Init => Fresh
  BY DEF Init, Fresh
<1>2. Inv /\ Fresh => FreshBaseline
  <2>1. SUFFICES ASSUME Inv, Fresh, NEW r \in Runs, answer[r].revision # NoRevision
                 PROVE  answer[r].revision >= headAt[member[r]]
    BY DEF FreshBaseline
  <2>2. answer[r] # Undecided
    BY <2>1 DEF Undecided
  <2>3. member[r] \in Runs /\ answer[r] = Decision(member[r])
    BY <2>1, <2>2 DEF Inv, Answers
  <2>4. answer[r].revision = revision[member[r]]
    BY <2>3 DEF Decision
  <2>5. QED
    BY <2>1, <2>3, <2>4 DEF Fresh
<1>3. QED
  BY <1>1, <1>2, FreshStep, Invariance, PTL DEF Spec

---------------------------------------------------------------------------
(***************************************************************************)
(* The coordinator implements CohortPromise.                               *)
(***************************************************************************)
Shared == [c \in Runs |-> Decision(c)]

\* Steps that join nobody, decide nothing and answer nobody.
LEMMA Stutters ==
  ASSUME UNCHANGED <<member, revision, failure, answer>>
  PROVE  UNCHANGED Promise!promise
BY DEF Promise!promise, Decision

\* Creating and following a cohort are the promise's Join.
LEMMA JoinImplements ==
  ASSUME Inv, NEW r \in Runs, Create(r) \/ Follow(r)
  PROVE  Promise!Join(r)
<1>1. /\ member[r] = None
      /\ UNCHANGED <<revision, failure, answer>>
  BY DEF Create, Follow, Inv, Membership
<1>2. CASE Create(r)
  BY <1>1, <1>2 DEF Create, Promise!Join, Decision
<1>3. CASE Follow(r)
  <2>1. PICK lag \in 0 .. LockWait, c \in Runs :
          c \in Joinable(lag) /\ member' = [member EXCEPT ![r] = c]
    BY <1>3, LagsBounded DEF Follow, Newest, Joinable
  <2>2. state[c] \notin {"none", "failed"}
    BY <2>1, AdvancedStates DEF Joinable
  <2>3. member[c] = c /\ failure[c] = "none"
    BY <2>2 DEF Inv, Membership, Decisions, TypeOK
  <2>4. Shared[c] \notin Refusals
    BY <2>3 DEF Shared, Decision, Refusals, FailureCodes
  <2>5. QED
    BY <1>1, <2>1, <2>3, <2>4 DEF Promise!Join, Shared, Decision
<1>4. QED
  BY <1>2, <1>3

\* Writing a revision or a failure is the promise's Decide.
LEMMA DecideImplements ==
  ASSUME Inv, NEW r \in Runs, LeaderCanceled(r) \/ Resolve(r) \/ Fail(r)
  PROVE  Promise!Decide(r) \/ UNCHANGED Promise!promise
<1> USE DEF Inv, TypeOK
<1>1. /\ member' = member /\ answer' = answer
      /\ revision[r] = NoRevision
  BY DEF LeaderCanceled, Resolve, Fail, RecordFailure, End, Leaders, Answers, Undecisive,
     Leading, Holding
<1>2. ASSUME NEW d \in Baselines \cup Refusals, failure[r] = "none", Decision(r)' = d,
             \A c \in Runs \ {r} : Decision(c)' = Decision(c)
      PROVE  Promise!Decide(r)
  <2>1. Shared' = [Shared EXCEPT ![r] = d]
    BY <1>2 DEF Shared
  <2>2. Shared[r] = Undecided
    BY <1>1, <1>2 DEF Shared, Decision, Undecided
  <2>3. QED
    BY <1>1, <2>1, <2>2 DEF Promise!Decide, Shared
<1>3. CASE Resolve(r)
  <2>1. failure[r] = "none" /\ fetched[r] \in 0 .. MaxHead
    BY <1>3 DEF Resolve, Decisions, Leaders
  <2>2. [revision |-> fetched[r], failure |-> "none"] \in Baselines
    BY <2>1 DEF Baselines
  <2>3. QED
    BY <1>2, <1>3, <2>1, <2>2 DEF Resolve, Decision
<1>4. ASSUME NEW code \in FailureCodes, RecordFailure(r, code)
      PROVE  Promise!Decide(r) \/ UNCHANGED Promise!promise
  <2>1. CASE failure[r] = "none"
    <3>1. state[r] # "failed" /\ failure' = [failure EXCEPT ![r] = code]
      BY <1>4, <2>1 DEF Decisions, RecordFailure
    <3>2. [revision |-> NoRevision, failure |-> code] \in Refusals
      BY DEF Refusals
    <3>3. QED
      BY <1>1, <1>2, <1>4, <2>1, <3>1, <3>2 DEF Decision, RecordFailure
  <2>2. CASE failure[r] # "none"
    <3>1. state[r] = "failed" /\ failure' = failure
      BY <1>4, <2>2 DEF Decisions, RecordFailure
    <3>2. QED
      BY <1>1, <1>4, <3>1, Stutters DEF RecordFailure
  <2>3. QED
    BY <2>1, <2>2
<1>5. QED
  BY <1>3, <1>4 DEF LeaderCanceled, Fail, FailureCodes

\* A poll that ends is the promise's Answer.
LEMMA AnswerImplements ==
  ASSUME Inv, NEW r \in Runs, Wait(r)
  PROVE  Promise!Answer(r) \/ UNCHANGED Promise!promise
<1> USE DEF Inv, TypeOK
<1>1. UNCHANGED <<member, revision, failure>>
  BY DEF Wait, Poll, WaiterCanceled, Look, cohorts
<1>2. CASE Poll(r) /\ Shown(r) # Undecided
  <2>1. member[r] \in Runs /\ answer' = [answer EXCEPT ![r] = Shared[member[r]]]
    BY <1>2 DEF Poll, End, Shown, Shared, Membership
  <2>2. Shared[member[r]] # Undecided
    BY <1>2, <2>1 DEF Shown, Shared
  <2>3. QED
    BY <1>1, <2>1, <2>2 DEF Promise!Answer, Shared, Decision
<1>3. CASE ~ (Poll(r) /\ Shown(r) # Undecided)
  <2>1. answer' = answer
    BY <1>3 DEF Wait, Poll, WaiterCanceled, End, Answers
  <2>2. QED
    BY <1>1, <2>1, Stutters
<1>4. QED
  BY <1>2, <1>3

\* Every step is a step of the promise or changes nothing of it.
LEMMA StepImplements ==
  ASSUME Inv, [Next]_vars
  PROVE  [Promise!Next]_(Promise!promise)
<1> USE DEF Inv, TypeOK
<1>1. ASSUME NEW r \in Runs,
             \/ AcquireRead(r) \/ AcquireInsert(r) \/ AcquireCollides(r) \/ AcquireUpdate(r)
             \/ Refresh(r) \/ RefreshFails(r) \/ CheckLease(r) \/ Release(r)
      PROVE  UNCHANGED Promise!promise
  BY <1>1, Stutters
     DEF AcquireRead, AcquireInsert, AcquireCollides, AcquireUpdate, StartHolding, Refresh,
         RefreshFails, CheckLease, Release, Look, End, Answers, cohorts
<1>2. ASSUME NEW r \in Runs, Heartbeat(r) \/ HeartbeatDies(r) \/ StoreLocked(r)
      PROVE  UNCHANGED Promise!promise
  BY <1>2, Stutters
     DEF Heartbeat, HeartbeatDies, StoreLocked, End, Answers, cohorts
<1>3. CASE Commit \/ Tick \/ Crash \/ UNCHANGED vars
  BY <1>3, Stutters DEF Commit, Tick, Crash, vars, cohorts, threads
<1>4. QED
  BY <1>1, <1>2, <1>3, JoinImplements, DecideImplements, AnswerImplements
     DEF Next, Lead, LeadOn, Promise!Next

\* The coordinator, with its clocks, leases, heartbeats, locks and crashes,
\* implements the promise: a cohort is decided once, and every answer is its
\* decision.
THEOREM CoordinatorKeepsPromise == Spec => PromiseKept
<1>1. Init => Promise!Init
  BY DEF Init, Promise!Init, Decision, Undecided
<1>2. Inv /\ [Next]_vars => [Promise!Next]_(Promise!promise)
  BY StepImplements
<1>3. QED
  BY <1>1, <1>2, Invariance, PTL DEF Spec, PromiseKept, Promise!Spec
=============================================================================
