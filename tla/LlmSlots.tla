------------------------------ MODULE LlmSlots ------------------------------
(***************************************************************************)
(* The global pool of LLM slots: the two tables of LlmSlotStore, the       *)
(* acquire loop of LlmSlotPool, and the heartbeat thread and the release   *)
(* of LeasedAgentRuntime.  A request is one call of LeasedAgentRuntime.run *)
(* (its uuid); every operation of the store is one BEGIN IMMEDIATE         *)
(* transaction and one step here.                                          *)
(*                                                                         *)
(* Time: the store compares expires_at with the clock and nothing else, so *)
(* an expiry is kept as the units left until it, and "expired" is zero.    *)
(***************************************************************************)
EXTENDS Integers, FiniteSets

CONSTANTS
  Requests,   \* calls of LeasedAgentRuntime.run
  Limits,     \* the values maxConcurrentLlmCalls is given
  Ttl,        \* lease_ttl_seconds in units of the heartbeat interval
  Faults      \* subset of {"delay", "locked", "crash"}, see Advance,
              \* AcquireFails, HeartbeatDies, ReleaseFails and Crash

ASSUME RequestsFinite == IsFiniteSet(Requests)
ASSUME LimitsPositive == Limits # {} /\ Limits \subseteq Nat \ {0}
ASSUME TtlPositive == Ttl \in Nat \ {0}
ASSUME FaultKinds == Faults \subseteq {"delay", "locked", "crash"}

VARIABLES
  state,       \* llm_slot_waiters.state, "none" while there is no row
  position,    \* llm_slot_waiters.queue_position
  waitLeft,    \* units left until llm_slot_waiters.expires_at of a queued row
  slot,        \* llm_slot_leases.slot_number of the request, NoSlot without a row
  leaseLeft,   \* units left until llm_slot_leases.expires_at, 0 without a row
  lastPosition,\* the AUTOINCREMENT counter
  configured,  \* execution.maxConcurrentLlmCalls
  pc,          \* where the request is
  limit,       \* LlmSlotPool.capacity, read when the executor was built
  mine,        \* the slot_number of the lease object the request holds
  beat,        \* its heartbeat thread
  canceled     \* its cancel_check answers true while it waits

tables == <<state, position, waitLeft, slot, leaseLeft, lastPosition>>
threads == <<pc, limit, mine, beat, canceled>>
vars == <<tables, configured, threads>>

NoSlot == -1
States == {"none", "queued", "granted", "released", "expired", "canceled"}
\* "new": the executor is not built; "built": its pool knows the limit;
\* "waiting" and "checked": in the loop of acquire, before and after the cancel
\* check; "running": the agent subprocess is alive; "stopped": it ended.
Places == {"new", "built", "waiting", "checked", "running", "stopped", "ended"}
Beats == {"off", "on", "lost", "dead"}

Leased == {r \in Requests : slot[r] # NoSlot}
Queued == {r \in Requests : state[r] = "queued"}
Agents == {r \in Requests : pc[r] = "running"}

Init ==
  /\ state = [r \in Requests |-> "none"]
  /\ position = [r \in Requests |-> 0]
  /\ waitLeft = [r \in Requests |-> 0]
  /\ slot = [r \in Requests |-> NoSlot]
  /\ leaseLeft = [r \in Requests |-> 0]
  /\ lastPosition = 0
  /\ configured \in Limits
  /\ pc = [r \in Requests |-> "new"]
  /\ limit = [r \in Requests |-> 0]
  /\ mine = [r \in Requests |-> NoSlot]
  /\ beat = [r \in Requests |-> "off"]
  /\ canceled = [r \in Requests |-> FALSE]

Goto(r, place) == pc' = [pc EXCEPT ![r] = place]

\* The call returns or raises; what its thread remembered is gone.
End(r) ==
  /\ Goto(r, "ended")
  /\ limit' = [limit EXCEPT ![r] = 0]
  /\ mine' = [mine EXCEPT ![r] = NoSlot]
  /\ beat' = [beat EXCEPT ![r] = "off"]
  /\ canceled' = [canceled EXCEPT ![r] = FALSE]

---------------------------------------------------------------------------
(***************************************************************************)
(* The acquire loop.                                                       *)
(***************************************************************************)
\* RunExecutor._execute_fresh builds the pool with the limit of that moment.
Build(r) ==
  /\ pc[r] = "new"
  /\ limit' = [limit EXCEPT ![r] = configured]
  /\ Goto(r, "built")
  /\ UNCHANGED <<tables, configured, mine, beat, canceled>>

Enqueue(r) ==
  /\ pc[r] = "built"
  /\ state' = [state EXCEPT ![r] = "queued"]
  /\ lastPosition' = lastPosition + 1
  /\ position' = [position EXCEPT ![r] = lastPosition + 1]
  /\ waitLeft' = [waitLeft EXCEPT ![r] = Ttl]
  /\ Goto(r, "waiting")
  /\ UNCHANGED <<slot, leaseLeft, configured, limit, mine, beat, canceled>>

\* The cancel check at the head of the loop; a canceled wait returns None.
CheckCancel(r) ==
  /\ pc[r] = "waiting"
  /\ IF canceled[r]
     THEN /\ state' = [state EXCEPT ![r] = IF @ = "queued" THEN "canceled" ELSE @]
          /\ waitLeft' = [waitLeft EXCEPT ![r] = 0]
          /\ End(r)
     ELSE Goto(r, "checked") /\ UNCHANGED <<state, waitLeft, limit, mine, beat, canceled>>
  /\ UNCHANGED <<position, slot, leaseLeft, lastPosition, configured>>

\* _reap_expired_locked: who loses its lease and which waiters are given up.
\* Mutant: a lease is taken back in its last unit, before it expires.
LeasesNearExpiry == {q \in Leased : leaseLeft[q] <= 1}

ExpiredLeases == {q \in Leased : leaseLeft[q] = 0}

\* Mutant: only leases expire.
NoWaiterExpires == {}

ExpiredWaiters == {q \in Queued : waitLeft[q] = 0}
LeasedAfterReap == Leased \ ExpiredLeases
QueuedAfterReap == Queued \ ExpiredWaiters
StateAfterReap(q) ==
  IF q \in ExpiredWaiters \/ (q \in ExpiredLeases /\ state[q] = "granted")
  THEN "expired" ELSE state[q]
SlotAfterReap(q) == IF q \in ExpiredLeases THEN NoSlot ELSE slot[q]

\* try_acquire raises and its reaping is rolled back: the row of the request
\* expired meanwhile, or the database stays locked for too long.  Nobody
\* cancels the row that is left behind.
AcquireFails(r) ==
  /\ \/ pc[r] = "checked" /\ r \notin QueuedAfterReap
     \/ pc[r] \in {"waiting", "checked"} /\ "locked" \in Faults
  /\ End(r)
  /\ UNCHANGED <<tables, configured>>

IsFirst(r) == \A q \in QueuedAfterReap : position[r] <= position[q]
FreeSlots(capacity) == (0 .. capacity - 1) \ {slot[q] : q \in LeasedAfterReap}

\* Mutant: slots are numbered by how many leases there are.
SlotByCount(capacity) == Cardinality(LeasedAfterReap)

LowestFree(capacity) ==
  CHOOSE s \in FreeSlots(capacity) : \A other \in FreeSlots(capacity) : s <= other

\* Mutant: capacity is the range of slot numbers, not the number of leases.
GrantableBySlot(r) == IsFirst(r) /\ FreeSlots(limit[r]) # {}

\* Mutant: whoever polls first is served.
GrantableUnordered(r) == Cardinality(LeasedAfterReap) < limit[r]

\* Only the first waiter is served, and only below its pool's capacity.
Grantable(r) == IsFirst(r) /\ Cardinality(LeasedAfterReap) < limit[r]

\* try_acquire returns None: reaping and the refreshed expiry are committed.
KeepWaiting(r) ==
  /\ pc[r] = "checked"
  /\ r \in QueuedAfterReap
  /\ ~Grantable(r)
  /\ state' = [q \in Requests |-> StateAfterReap(q)]
  /\ slot' = [q \in Requests |-> SlotAfterReap(q)]
  /\ waitLeft' = [waitLeft EXCEPT ![r] = Ttl]
  /\ Goto(r, "waiting")
  /\ UNCHANGED <<position, leaseLeft, lastPosition, configured, limit, mine, beat, canceled>>

\* try_acquire inserts the lease; run starts the heartbeat and the agent.
Grant(r) ==
  /\ pc[r] = "checked"
  /\ r \in QueuedAfterReap
  /\ Grantable(r)
  /\ LET s == LowestFree(limit[r])
     IN /\ slot' = [q \in Requests |-> IF q = r THEN s ELSE SlotAfterReap(q)]
        /\ mine' = [mine EXCEPT ![r] = s]
  /\ state' = [q \in Requests |-> IF q = r THEN "granted" ELSE StateAfterReap(q)]
  /\ waitLeft' = [waitLeft EXCEPT ![r] = 0]
  /\ leaseLeft' = [leaseLeft EXCEPT ![r] = Ttl]
  /\ beat' = [beat EXCEPT ![r] = "on"]
  /\ canceled' = [canceled EXCEPT ![r] = FALSE]
  /\ Goto(r, "running")
  /\ UNCHANGED <<position, lastPosition, configured, limit>>

---------------------------------------------------------------------------
(***************************************************************************)
(* The running agent.                                                      *)
(***************************************************************************)
\* Mutant: the expiry is moved on by the lease time, wherever it is.
HeartbeatExtends(r) ==
  /\ pc[r] = "running"
  /\ beat[r] = "on"
  /\ IF slot[r] = mine[r] /\ leaseLeft[r] > 0
     THEN leaseLeft' = [leaseLeft EXCEPT ![r] = @ + Ttl] /\ UNCHANGED beat
     ELSE beat' = [beat EXCEPT ![r] = "lost"] /\ UNCHANGED leaseLeft
  /\ UNCHANGED <<state, position, waitLeft, slot, lastPosition, configured,
                 pc, limit, mine, canceled>>

\* heartbeat renews a lease that has not expired; otherwise the thread sets
\* lease_lost and ends.  Its transaction changes nothing then.
Heartbeat(r) ==
  /\ pc[r] = "running"
  /\ beat[r] = "on"
  /\ IF slot[r] = mine[r] /\ leaseLeft[r] > 0
     THEN leaseLeft' = [leaseLeft EXCEPT ![r] = Ttl] /\ UNCHANGED beat
     ELSE beat' = [beat EXCEPT ![r] = "lost"] /\ UNCHANGED leaseLeft
  /\ UNCHANGED <<state, position, waitLeft, slot, lastPosition, configured,
                 pc, limit, mine, canceled>>

\* Any other exception (a database locked for too long) ends the thread, and
\* nobody is told.
HeartbeatDies(r) ==
  /\ "locked" \in Faults
  /\ pc[r] = "running"
  /\ beat[r] = "on"
  /\ beat' = [beat EXCEPT ![r] = "dead"]
  /\ UNCHANGED <<tables, configured, pc, limit, mine, canceled>>

\* The agent finishes, times out, or is stopped because combined_cancel says so.
AgentEnds(r) ==
  /\ pc[r] = "running"
  /\ Goto(r, "stopped")
  /\ UNCHANGED <<tables, configured, limit, mine, beat, canceled>>

\* Mutant: the lease is deleted by its slot number alone.
ReleaseSlot(r) ==
  /\ pc[r] = "stopped"
  /\ slot' = [q \in Requests |-> IF slot[q] = mine[r] THEN NoSlot ELSE slot[q]]
  /\ leaseLeft' = [leaseLeft EXCEPT ![r] = 0]
  /\ state' = [state EXCEPT ![r] = IF @ = "granted" THEN "released" ELSE @]
  /\ End(r)
  /\ UNCHANGED <<position, waitLeft, lastPosition, configured>>

\* The row of this request in this slot is deleted, if it is still there.
Release(r) ==
  /\ pc[r] = "stopped"
  /\ IF slot[r] = mine[r]
     THEN /\ slot' = [slot EXCEPT ![r] = NoSlot]
          /\ leaseLeft' = [leaseLeft EXCEPT ![r] = 0]
          /\ state' = [state EXCEPT ![r] = IF @ = "granted" THEN "released" ELSE @]
     ELSE UNCHANGED <<slot, leaseLeft, state>>
  /\ End(r)
  /\ UNCHANGED <<position, waitLeft, lastPosition, configured>>

\* release raises in the finally block of run: the lease stays until it expires.
ReleaseFails(r) ==
  /\ "locked" \in Faults
  /\ pc[r] = "stopped"
  /\ End(r)
  /\ UNCHANGED <<tables, configured>>

---------------------------------------------------------------------------
\* The user cancels the task.  For a running agent this is one more reason to
\* end, see AgentEnds.
Cancel(r) ==
  /\ pc[r] \in {"built", "waiting", "checked"}
  /\ ~canceled[r]
  /\ canceled' = [canceled EXCEPT ![r] = TRUE]
  /\ UNCHANGED <<tables, configured, pc, limit, mine, beat>>

SetLimit ==
  /\ configured' \in Limits \ {configured}
  /\ UNCHANGED <<tables, threads>>

\* Time passes.  Unless the machine may stall ("delay"), a waiter polls and a
\* live heartbeat thread beats before the expiry it renews is reached.
Due(r) ==
  \/ pc[r] \in {"waiting", "checked"} /\ waitLeft[r] = 1
  \/ beat[r] = "on" /\ leaseLeft[r] = 1

Elapse(left) == [r \in Requests |-> IF left[r] > 0 THEN left[r] - 1 ELSE 0]

Advance ==
  /\ "delay" \in Faults \/ \A r \in Requests : ~Due(r)
  /\ waitLeft' = Elapse(waitLeft)
  /\ leaseLeft' = Elapse(leaseLeft)
  /\ UNCHANGED <<state, position, slot, lastPosition, configured, threads>>

\* The service dies with its agents (KillMode=control-group); the rows stay.
\* A later executor is a request that is still "new".
Crash ==
  /\ "crash" \in Faults
  /\ pc' = [r \in Requests |-> IF pc[r] = "new" THEN "new" ELSE "ended"]
  /\ limit' = [r \in Requests |-> 0]
  /\ mine' = [r \in Requests |-> NoSlot]
  /\ beat' = [r \in Requests |-> "off"]
  /\ canceled' = [r \in Requests |-> FALSE]
  /\ UNCHANGED <<tables, configured>>

Step(r) ==
  \/ Build(r) \/ Enqueue(r) \/ CheckCancel(r)
  \/ AcquireFails(r) \/ KeepWaiting(r) \/ Grant(r)
  \/ Heartbeat(r) \/ HeartbeatDies(r) \/ AgentEnds(r)
  \/ Release(r) \/ ReleaseFails(r) \/ Cancel(r)

Next == (\E r \in Requests : Step(r)) \/ SetLimit \/ Advance \/ Crash

Spec == Init /\ [][Next]_vars

\* Threads run, time passes, and an agent ends (its subprocess has a timeout).
Fairness ==
  /\ WF_vars(Advance)
  /\ \A r \in Requests :
       /\ WF_vars(CheckCancel(r) \/ AcquireFails(r) \/ KeepWaiting(r) \/ Grant(r))
       /\ WF_vars(AgentEnds(r)) /\ WF_vars(Release(r) \/ ReleaseFails(r))

FairSpec == Spec /\ Fairness

---------------------------------------------------------------------------
\* Every row and every thread is in one of the states the code has, and a
\* slot number is always found for a grant.
TypeOK ==
  /\ state \in [Requests -> States]
  /\ position \in [Requests -> Nat]
  /\ waitLeft \in [Requests -> 0 .. Ttl]
  /\ slot \in [Requests -> Nat \cup {NoSlot}]
  /\ leaseLeft \in [Requests -> 0 .. Ttl]
  /\ lastPosition \in Nat
  /\ configured \in Limits
  /\ pc \in [Requests -> Places]
  /\ limit \in [Requests -> Limits \cup {0}]
  /\ mine \in [Requests -> Nat \cup {NoSlot}]
  /\ beat \in [Requests -> Beats]
  /\ canceled \in [Requests -> BOOLEAN]

\* No two requests hold the same slot, whatever expires, is released late or
\* is granted by pools of different capacity.
SlotsExclusive ==
  \A q, r \in Leased : slot[q] = slot[r] => q = r

\* A grant leaves no more leases than the capacity of the pool that made it,
\* even when pools built with other limits hold leases.
GrantWithinCapacity ==
  [][\A r \in Requests :
       r \notin Leased /\ r \in Leased' => Cardinality(Leased') <= limit[r]]_vars

\* Slots are granted in the order of enqueueing: nobody who goes on waiting
\* was there before the request that is served.
GrantsInOrder ==
  [][\A r \in Requests :
       r \notin Leased /\ r \in Leased' =>
         \A q \in Queued' : position[r] < position[q]]_vars

\* A lease ends by its own release or after its expiry: a late release or the
\* reaping of one request never takes the slot of another.
LeaseEndsProperly ==
  [][\A r \in Requests :
       r \in Leased /\ r \notin Leased' =>
         leaseLeft[r] = 0 \/ (pc[r] = "stopped" /\ pc'[r] = "ended")]_vars

\* How a request stands in the promise of the pool, and who waits in front of
\* whom: the rows of the two tables tell both.
Place(r) ==
  CASE slot[r] # NoSlot -> "holding"
    [] slot[r] = NoSlot /\ state[r] = "none" -> "out"
    [] slot[r] = NoSlot /\ state[r] = "queued" -> "waiting"
    [] OTHER -> "gone"
Standing == [r \in Requests |-> Place(r)]
InFront == {qr \in Queued \X Queued : position[qr[1]] < position[qr[2]]}

Promise == INSTANCE FifoPool WITH
  Capacities <- Limits, NoNumber <- NoSlot,
  place <- Standing, ahead <- InFront, number <- slot

\* The two tables implement a pool that serves first come, first served, below
\* the capacity, a number to one request at a time, and each request once;
\* what expires is given up only when somebody asks for a slot.
PromiseKept == Promise!Spec

\* While threads are punctual and heartbeat threads live, every agent process
\* has its lease: the pool limits the processes and not only the rows.
AgentsHaveLeases == Agents \subseteq Leased

\* Whoever waits is served or gives up in the end, whatever crashes, stalls or
\* locked databases leave behind in the tables.
WaitersServed ==
  \A r \in Requests : pc[r] = "waiting" ~> pc[r] \notin {"waiting", "checked"}
=============================================================================
