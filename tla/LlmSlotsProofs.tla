--------------------------- MODULE LlmSlotsProofs ---------------------------
(***************************************************************************)
(* Proofs about LlmSlots, for every set of requests, every choice of the   *)
(* limits, every time to live and every combination of the faults.         *)
(***************************************************************************)
EXTENDS LlmSlots, NumberLemmas, TLAPS

USE RequestsFinite, LimitsPositive, TtlPositive, FaultKinds

---------------------------------------------------------------------------
(***************************************************************************)
(* Facts about the operators of try_acquire.                               *)
(***************************************************************************)
\* Below its capacity the pool always has a free slot number: the search of
\* try_acquire for a candidate cannot fail after the count was accepted.
LEMMA FreeSlotExists ==
  ASSUME TypeOK, NEW capacity \in Nat, Cardinality(LeasedAfterReap) < capacity
  PROVE  FreeSlots(capacity) # {}
<1> DEFINE numbers == 0 .. capacity - 1
           holder == [s \in numbers |-> CHOOSE q \in LeasedAfterReap : slot[q] = s]
<1>1. SUFFICES ASSUME FreeSlots(capacity) = {} PROVE FALSE
  OBVIOUS
<1>2. \A s \in numbers : \E q \in LeasedAfterReap : slot[q] = s
  BY <1>1 DEF FreeSlots
<1>3. holder \in [numbers -> LeasedAfterReap]
  BY <1>2
<1>4. \A s \in numbers : slot[holder[s]] = s
  BY <1>2
<1>5. IsFiniteSet(LeasedAfterReap)
  BY FS_Subset DEF LeasedAfterReap, Leased
<1>6. IsFiniteSet(numbers) /\ Cardinality(numbers) = capacity
  BY FS_Interval
<1>7. \E s, u \in numbers : s # u /\ holder[s] = holder[u]
  <2> HIDE DEF holder, numbers
  <2> QED BY <1>3, <1>5, <1>6, FS_PigeonHole
<1>8. QED
  BY <1>4, <1>7

\* The slot a grant picks is a number below the capacity that no lease holds.
LEMMA LowestFreeIsFree ==
  ASSUME TypeOK, NEW capacity \in Nat, Cardinality(LeasedAfterReap) < capacity
  PROVE  LowestFree(capacity) \in FreeSlots(capacity)
<1>1. FreeSlots(capacity) \subseteq Nat
  BY DEF FreeSlots
<1>2. FreeSlots(capacity) # {}
  BY FreeSlotExists
<1>3. \E s \in FreeSlots(capacity) : \A other \in FreeSlots(capacity) : s <= other
  BY <1>1, <1>2, LeastNatural
<1>4. QED
  BY <1>3 DEF LowestFree

---------------------------------------------------------------------------
(***************************************************************************)
(* Type correctness.                                                       *)
(***************************************************************************)
\* Limits are numbers, and so is the 0 of a request without a pool.
LEMMA LimitsNatural == \A l \in Limits \cup {0} : l \in Nat
BY LimitsPositive

\* A granted request's slot is a slot number that was free.
LEMMA GrantedSlot ==
  ASSUME TypeOK, NEW r \in Requests, Grantable(r)
  PROVE  /\ limit[r] \in Nat
         /\ LowestFree(limit[r]) \in Nat
         /\ \A q \in LeasedAfterReap : slot[q] # LowestFree(limit[r])
<1>1. limit[r] \in Nat
  <2>1. limit[r] \in Limits \cup {0}
    BY DEF TypeOK
  <2>2. QED
    BY <2>1, LimitsNatural
<1>2. LowestFree(limit[r]) \in FreeSlots(limit[r])
  BY <1>1, LowestFreeIsFree DEF Grantable
<1>3. QED
  BY <1>1, <1>2 DEF FreeSlots

LEMMA StepTyped ==
  ASSUME TypeOK, [Next]_vars
  PROVE  TypeOK'
<1> USE DEF TypeOK, States, Places, Beats, tables, threads
<1>1. ASSUME NEW r \in Requests, Build(r) PROVE TypeOK'
  BY <1>1 DEF Build, Goto
<1>2. ASSUME NEW r \in Requests, Enqueue(r) PROVE TypeOK'
  BY <1>2 DEF Enqueue, Goto
<1>3. ASSUME NEW r \in Requests, CheckCancel(r) PROVE TypeOK'
  <2>1. CASE canceled[r]
    <3>1. state' \in [Requests -> States] /\ waitLeft' \in [Requests -> 0 .. Ttl]
      BY <1>3, <2>1 DEF CheckCancel
    <3>2. End(r) /\ UNCHANGED <<position, slot, leaseLeft, lastPosition, configured>>
      BY <1>3, <2>1 DEF CheckCancel
    <3>3. QED
      BY <3>1, <3>2 DEF Goto, End, NoSlot
  <2>2. CASE ~canceled[r]
    BY <1>3, <2>2 DEF CheckCancel, Goto
  <2>3. QED
    BY <2>1, <2>2
<1>4. ASSUME NEW r \in Requests, AcquireFails(r) PROVE TypeOK'
  BY <1>4 DEF AcquireFails, Goto, End, NoSlot
<1>5. ASSUME NEW r \in Requests, KeepWaiting(r) PROVE TypeOK'
  BY <1>5 DEF KeepWaiting, Goto, StateAfterReap, SlotAfterReap
<1>6. ASSUME NEW r \in Requests, Grant(r) PROVE TypeOK'
  <2>1. LowestFree(limit[r]) \in Nat
    BY <1>6, GrantedSlot DEF Grant
  <2>2. QED
    BY <1>6, <2>1 DEF Grant, Goto, StateAfterReap, SlotAfterReap
<1>7. ASSUME NEW r \in Requests, Heartbeat(r) PROVE TypeOK'
  BY <1>7 DEF Heartbeat
<1>8. ASSUME NEW r \in Requests, HeartbeatDies(r) PROVE TypeOK'
  BY <1>8 DEF HeartbeatDies
<1>9. ASSUME NEW r \in Requests, AgentEnds(r) PROVE TypeOK'
  BY <1>9 DEF AgentEnds, Goto
<1>10. ASSUME NEW r \in Requests, Release(r) PROVE TypeOK'
  BY <1>10 DEF Release, Goto, End, NoSlot
<1>11. ASSUME NEW r \in Requests, ReleaseFails(r) PROVE TypeOK'
  BY <1>11 DEF ReleaseFails, Goto, End, NoSlot
<1>12. ASSUME NEW r \in Requests, Cancel(r) PROVE TypeOK'
  BY <1>12 DEF Cancel
<1>13. CASE SetLimit
  BY <1>13 DEF SetLimit
<1>14. CASE Advance
  BY <1>14 DEF Advance, Elapse
<1>15. CASE Crash
  BY <1>15 DEF Crash, NoSlot
<1>16. CASE UNCHANGED vars
  BY <1>16 DEF vars
<1>17. QED
  BY <1>1, <1>2, <1>3, <1>4, <1>5, <1>6, <1>7, <1>8, <1>9, <1>10, <1>11,
     <1>12, <1>13, <1>14, <1>15, <1>16 DEF Next, Step

\* Rows and threads stay in the states the code has; in particular a grant
\* always finds a slot number (try_acquire, LeasedAgentRuntime.run).
THEOREM SlotTypes == Spec => []TypeOK
<1>1. Init => TypeOK
  BY DEF Init, TypeOK, States, Places, Beats, NoSlot
<1>2. TypeOK /\ [Next]_vars => TypeOK'
  BY StepTyped
<1>3. QED
  BY <1>1, <1>2, PTL DEF Spec

---------------------------------------------------------------------------
(***************************************************************************)
(* Slots are exclusive.  The invariant is inductive given the types: a     *)
(* grant takes a number no surviving lease has, nothing else adds a lease. *)
(***************************************************************************)
\* What the reaping of try_acquire leaves is a part of what was leased.
LEMMA GrantLeases ==
  ASSUME TypeOK, NEW r \in Requests, Grant(r)
  PROVE  /\ slot'[r] \in Nat
         /\ \A q \in LeasedAfterReap : slot[q] # slot'[r]
         /\ \A q \in Requests \ {r} :
              slot'[q] = IF q \in LeasedAfterReap THEN slot[q] ELSE NoSlot
         /\ Leased' = LeasedAfterReap \cup {r}
<1>1. slot'[r] = LowestFree(limit[r])
  BY DEF Grant
<1>2. slot'[r] \in Nat /\ \A q \in LeasedAfterReap : slot[q] # slot'[r]
  BY <1>1, GrantedSlot DEF Grant
<1>3. \A q \in Requests \ {r} : slot'[q] = SlotAfterReap(q)
  BY DEF Grant
<1>4. \A q \in Requests : SlotAfterReap(q) = IF q \in LeasedAfterReap THEN slot[q] ELSE NoSlot
  BY DEF SlotAfterReap, LeasedAfterReap, ExpiredLeases, Leased
<1>5. slot'[r] # NoSlot
  BY <1>2 DEF NoSlot
<1>6. Leased' = LeasedAfterReap \cup {r}
  BY <1>3, <1>4, <1>5 DEF Leased, LeasedAfterReap
<1>7. QED
  BY <1>2, <1>3, <1>4, <1>6

\* A step that grants nothing adds no lease and moves none.
LEMMA LeasesOnlyEnd ==
  ASSUME TypeOK, [Next]_vars, \A r \in Requests : ~Grant(r), NEW q \in Requests
  PROVE  slot'[q] \in {slot[q], NoSlot}
<1> USE DEF TypeOK, tables, threads
<1>1. ASSUME NEW r \in Requests, Step(r) PROVE slot'[q] \in {slot[q], NoSlot}
  <2>1. CASE Build(r) \/ Enqueue(r) \/ CheckCancel(r) \/ AcquireFails(r)
    BY <2>1 DEF Build, Enqueue, CheckCancel, AcquireFails
  <2>2. CASE KeepWaiting(r)
    BY <2>2 DEF KeepWaiting, SlotAfterReap
  <2>3. CASE Heartbeat(r) \/ HeartbeatDies(r) \/ AgentEnds(r)
    BY <2>3 DEF Heartbeat, HeartbeatDies, AgentEnds
  <2>4. CASE Release(r)
    BY <2>4 DEF Release
  <2>5. CASE ReleaseFails(r) \/ Cancel(r)
    BY <2>5 DEF ReleaseFails, Cancel
  <2>6. QED
    BY <1>1, <2>1, <2>2, <2>3, <2>4, <2>5 DEF Step
<1>2. CASE SetLimit \/ Advance \/ Crash \/ UNCHANGED vars
  BY <1>2 DEF SetLimit, Advance, Crash, vars
<1>3. QED
  BY <1>1, <1>2 DEF Next

\* At most one request holds a slot number (the primary key of
\* llm_slot_leases is never hit by the INSERT of try_acquire).
THEOREM SlotExclusion == Spec => []SlotsExclusive
<1>1. Init => SlotsExclusive
  BY DEF Init, SlotsExclusive, Leased
<1>2. ASSUME TypeOK, SlotsExclusive, [Next]_vars
      PROVE  SlotsExclusive'
  <2>1. CASE \E r \in Requests : Grant(r)
    <3>1. PICK r \in Requests : Grant(r)
      BY <2>1
    <3>2. LeasedAfterReap \subseteq Leased /\ Leased' = LeasedAfterReap \cup {r}
      BY <1>2, <3>1, GrantLeases DEF LeasedAfterReap
    <3>3. \A q \in LeasedAfterReap : q # r => slot'[q] = slot[q] /\ slot'[q] # slot'[r]
      BY <1>2, <3>1, GrantLeases DEF LeasedAfterReap, Leased
    <3>4. \A q, u \in LeasedAfterReap : slot[q] = slot[u] => q = u
      BY <1>2, <3>2 DEF SlotsExclusive
    <3>5. QED
      BY <3>2, <3>3, <3>4 DEF SlotsExclusive
  <2>2. CASE \A r \in Requests : ~Grant(r)
    BY <1>2, <2>2, LeasesOnlyEnd DEF SlotsExclusive, Leased
  <2>3. QED
    BY <2>1, <2>2
<1>3. QED
  BY <1>1, <1>2, SlotTypes, PTL DEF Spec

---------------------------------------------------------------------------
(***************************************************************************)
(* What a step may do to the leases.                                       *)
(***************************************************************************)
\* A grant respects the capacity of its pool, also while pools built with
\* other limits hold leases (try_acquire counts all of them).
THEOREM GrantCapacity == Spec => GrantWithinCapacity
<1>1. ASSUME TypeOK, [Next]_vars, NEW r \in Requests, r \notin Leased, r \in Leased'
      PROVE  Cardinality(Leased') <= limit[r]
  <2>1. PICK q \in Requests : Grant(q)
    BY <1>1, LeasesOnlyEnd DEF Leased
  <2>2. q = r
    BY <1>1, <2>1, GrantLeases DEF LeasedAfterReap
  <2>3. Leased' = LeasedAfterReap \cup {r}
    BY <1>1, <2>1, <2>2, GrantLeases
  <2>4. IsFiniteSet(LeasedAfterReap)
    BY RequestsFinite, FS_Subset DEF LeasedAfterReap, Leased
  <2>5. Cardinality(LeasedAfterReap) \in Nat
    BY <2>4, FS_CardinalityType
  <2>6. Cardinality(Leased') <= Cardinality(LeasedAfterReap) + 1
    <3>1. Cardinality(LeasedAfterReap \cup {r}) =
            IF r \in LeasedAfterReap THEN Cardinality(LeasedAfterReap)
            ELSE Cardinality(LeasedAfterReap) + 1
      BY <2>4, FS_AddElement
    <3>2. QED
      BY <2>3, <2>5, <3>1
  <2>7. Cardinality(LeasedAfterReap) < limit[r]
    BY <2>1, <2>2 DEF Grant, Grantable
  <2>8. limit[r] \in Nat
    BY <1>1, <2>1, <2>2, GrantedSlot DEF Grant
  <2>9. Cardinality(Leased') \in Nat
    BY <2>3, <2>4, FS_AddElement, FS_CardinalityType
  <2>10. QED
    BY <2>5, <2>6, <2>7, <2>8, <2>9
<1>2. TypeOK /\ [Next]_vars =>
        [\A r \in Requests : r \notin Leased /\ r \in Leased' =>
             Cardinality(Leased') <= limit[r]]_vars
  BY <1>1
<1>3. QED
  BY <1>2, SlotTypes, PTL DEF Spec, GrantWithinCapacity

\* Only its own release or its expiry ends a lease: a late release of one
\* agent never frees the slot another agent was given meanwhile.
THEOREM LeaseEnds == Spec => LeaseEndsProperly
<1>1. ASSUME TypeOK, [Next]_vars, NEW r \in Requests, r \in Leased, r \notin Leased'
      PROVE  leaseLeft[r] = 0 \/ (pc[r] = "stopped" /\ pc'[r] = "ended")
  <2> USE DEF tables, threads
  <2>1. slot[r] # NoSlot /\ slot'[r] = NoSlot
    BY <1>1 DEF Leased
  <2>2. ASSUME NEW q \in Requests, Step(q)
        PROVE  leaseLeft[r] = 0 \/ (pc[r] = "stopped" /\ pc'[r] = "ended")
    <3>1. CASE KeepWaiting(q)
      BY <2>1, <3>1 DEF KeepWaiting, SlotAfterReap, ExpiredLeases
    <3>2. CASE Grant(q)
      BY <1>1, <2>1, <3>2, GrantLeases DEF LeasedAfterReap, ExpiredLeases
    <3>3. CASE Release(q)
      <4>1. q = r
        BY <1>1, <2>1, <3>3 DEF Release, TypeOK
      <4>2. QED
        BY <1>1, <3>3, <4>1 DEF Release, End, Goto, TypeOK
    <3>4. CASE \/ Build(q) \/ Enqueue(q) \/ CheckCancel(q) \/ AcquireFails(q)
               \/ Heartbeat(q) \/ HeartbeatDies(q) \/ AgentEnds(q)
               \/ ReleaseFails(q) \/ Cancel(q)
      BY <2>1, <3>4 DEF Build, Enqueue, CheckCancel, AcquireFails, Heartbeat,
         HeartbeatDies, AgentEnds, ReleaseFails, Cancel
    <3>5. QED
      BY <2>2, <3>1, <3>2, <3>3, <3>4 DEF Step
  <2>3. CASE SetLimit \/ Advance \/ Crash \/ UNCHANGED vars
    BY <2>1, <2>3 DEF SetLimit, Advance, Crash, vars
  <2>4. QED
    BY <1>1, <2>2, <2>3 DEF Next
<1>2. TypeOK /\ [Next]_vars =>
        [\A r \in Requests : r \in Leased /\ r \notin Leased' =>
             leaseLeft[r] = 0 \/ (pc[r] = "stopped" /\ pc'[r] = "ended")]_vars
  BY <1>1
<1>3. QED
  BY <1>2, SlotTypes, PTL DEF Spec, LeaseEndsProperly

---------------------------------------------------------------------------
(***************************************************************************)
(* The order of the grants.  Positions come from the AUTOINCREMENT         *)
(* counter, so no two rows share one.                                      *)
(***************************************************************************)
PositionsOrdered ==
  /\ \A q \in Requests : position[q] <= lastPosition
  /\ \A q \in Queued : position[q] > 0
  /\ \A q, r \in Requests : position[q] = position[r] => q = r \/ position[q] = 0

\* Every row has its own position, in every reachable state.
LEMMA Positions == Spec => []PositionsOrdered
<1>1. Init => PositionsOrdered
  BY DEF Init, PositionsOrdered, Queued
<1>2. ASSUME TypeOK, PositionsOrdered, [Next]_vars
      PROVE  PositionsOrdered'
  <2> USE DEF tables, threads
  <2>1. ASSUME NEW r \in Requests, Enqueue(r) PROVE PositionsOrdered'
    <3>1. lastPosition' = lastPosition + 1 /\ position'[r] = lastPosition + 1
      BY <1>2, <2>1 DEF Enqueue, TypeOK
    <3>2. \A q \in Requests \ {r} : position'[q] = position[q] /\ state'[q] = state[q]
      BY <1>2, <2>1 DEF Enqueue, TypeOK
    <3>3. lastPosition \in Nat /\ \A q \in Requests : position[q] \in Nat
      BY <1>2 DEF TypeOK
    <3>4. QED
      BY <1>2, <3>1, <3>2, <3>3 DEF PositionsOrdered, Queued
  <2>2. ASSUME UNCHANGED <<position, lastPosition>>, Queued' \subseteq Queued
        PROVE  PositionsOrdered'
    BY <1>2, <2>2 DEF PositionsOrdered
  <2>3. ASSUME NEW r \in Requests, Step(r), ~Enqueue(r) PROVE PositionsOrdered'
    <3>1. CASE CheckCancel(r)
      <4>1. Queued' \subseteq Queued
        BY <1>2, <3>1 DEF CheckCancel, Queued, TypeOK
      <4>2. QED
        BY <2>2, <3>1, <4>1 DEF CheckCancel
    <3>2. CASE KeepWaiting(r) \/ Grant(r)
      <4>1. Queued' \subseteq Queued
        BY <1>2, <3>2 DEF KeepWaiting, Grant, StateAfterReap, Queued
      <4>2. QED
        BY <2>2, <3>2, <4>1 DEF KeepWaiting, Grant
    <3>3. CASE Release(r)
      <4>1. Queued' \subseteq Queued
        BY <1>2, <3>3 DEF Release, Queued, TypeOK
      <4>2. QED
        BY <2>2, <3>3, <4>1 DEF Release
    <3>4. CASE \/ Build(r) \/ AcquireFails(r) \/ Heartbeat(r) \/ HeartbeatDies(r)
               \/ AgentEnds(r) \/ ReleaseFails(r) \/ Cancel(r)
      BY <2>2, <3>4 DEF Build, AcquireFails, Heartbeat, HeartbeatDies, AgentEnds,
         ReleaseFails, Cancel, Queued
    <3>5. QED
      BY <2>3, <3>1, <3>2, <3>3, <3>4 DEF Step
  <2>4. CASE SetLimit \/ Advance \/ Crash \/ UNCHANGED vars
    BY <2>2, <2>4 DEF SetLimit, Advance, Crash, vars, Queued
  <2>5. QED
    BY <1>2, <2>1, <2>3, <2>4 DEF Next
<1>3. QED
  BY <1>1, <1>2, SlotTypes, PTL DEF Spec

\* Slots are granted first come, first served (try_acquire serves the lowest
\* queue position only, after giving up the waiters that expired).
THEOREM GrantOrder == Spec => GrantsInOrder
<1>1. ASSUME TypeOK, PositionsOrdered, [Next]_vars,
             NEW r \in Requests, r \notin Leased, r \in Leased', NEW q \in Queued'
      PROVE  position[r] < position[q]
  <2>1. PICK u \in Requests : Grant(u)
    BY <1>1, LeasesOnlyEnd DEF Leased
  <2>2. Grant(r)
    BY <1>1, <2>1, GrantLeases DEF LeasedAfterReap
  <2>3. q \in Requests /\ q # r /\ q \in QueuedAfterReap
    BY <1>1, <2>2 DEF Grant, StateAfterReap, QueuedAfterReap, Queued, TypeOK
  <2>4. position[r] <= position[q]
    BY <2>2, <2>3 DEF Grant, Grantable, IsFirst
  <2>5. position[r] # position[q]
    BY <1>1, <2>3 DEF PositionsOrdered, QueuedAfterReap, Queued
  <2>6. position[r] \in Nat /\ position[q] \in Nat
    BY <1>1, <2>3 DEF TypeOK
  <2>7. QED
    BY <2>4, <2>5, <2>6
<1>2. TypeOK /\ PositionsOrdered /\ [Next]_vars =>
        [\A r \in Requests : r \notin Leased /\ r \in Leased' =>
             \A q \in Queued' : position[r] < position[q]]_vars
  BY <1>1
<1>3. QED
  BY <1>2, SlotTypes, Positions, PTL DEF Spec, GrantsInOrder

---------------------------------------------------------------------------
(***************************************************************************)
(* The tables implement FifoPool.  The mapping reads a request's place off *)
(* both tables, so the proof needs that they agree, and that a request     *)
(* that has not been queued yet has no row.                                *)
(***************************************************************************)
RowsAgree ==
  \A r \in Requests :
    /\ pc[r] \in {"new", "built"} => state[r] = "none"
    /\ state[r] = "granted" <=> slot[r] # NoSlot

\* What try_acquire reaps, seen as one set of requests that part.
Lost == ExpiredLeases \cup ExpiredWaiters

\* A grant or a refused poll ends the rows of the requests in Lost only.
LEMMA ReapedRows ==
  ASSUME TypeOK, RowsAgree
  PROVE  \A q \in Requests :
           /\ StateAfterReap(q) = IF q \in Lost THEN "expired" ELSE state[q]
           /\ SlotAfterReap(q) = IF q \in Lost THEN NoSlot ELSE slot[q]
BY DEF TypeOK, RowsAgree, StateAfterReap, SlotAfterReap, Lost, ExpiredLeases,
   ExpiredWaiters, Leased, Queued

\* The two tables agree about who holds a slot, in every reachable state.
LEMMA RowsStayInStep == Spec => []RowsAgree
<1>1. Init => RowsAgree
  BY DEF Init, RowsAgree
<1>2. ASSUME TypeOK, RowsAgree, [Next]_vars
      PROVE  RowsAgree'
  <2> USE DEF TypeOK, tables, threads
  <2>1. ASSUME NEW r \in Requests, Build(r) \/ Cancel(r) PROVE RowsAgree'
    BY <1>2, <2>1 DEF Build, Cancel, Goto, RowsAgree
  <2>2. ASSUME NEW r \in Requests, Enqueue(r) PROVE RowsAgree'
    BY <1>2, <2>2 DEF Enqueue, Goto, RowsAgree
  <2>3. ASSUME NEW r \in Requests, CheckCancel(r) PROVE RowsAgree'
    <3>1. \A q \in Requests : /\ slot'[q] = slot[q]
                              /\ \/ state'[q] = state[q]
                                 \/ state[q] = "queued" /\ state'[q] = "canceled"
      BY <1>2, <2>3 DEF CheckCancel
    <3>2. \A q \in Requests : pc'[q] \in {"new", "built"} => pc[q] = pc'[q]
      BY <1>2, <2>3 DEF CheckCancel, End, Goto
    <3>3. QED
      BY <1>2, <3>1, <3>2 DEF RowsAgree
  <2>4. ASSUME NEW r \in Requests, AcquireFails(r) \/ ReleaseFails(r) PROVE RowsAgree'
    BY <1>2, <2>4 DEF AcquireFails, ReleaseFails, End, Goto, RowsAgree
  <2>5. ASSUME NEW r \in Requests, KeepWaiting(r) PROVE RowsAgree'
    <3>1. \A q \in Requests : /\ state'[q] = IF q \in Lost THEN "expired" ELSE state[q]
                              /\ slot'[q] = IF q \in Lost THEN NoSlot ELSE slot[q]
      BY <1>2, <2>5, ReapedRows DEF KeepWaiting
    <3>2. \A q \in Lost : state[q] # "none"
      BY <1>2 DEF Lost, ExpiredLeases, ExpiredWaiters, Leased, Queued, RowsAgree
    <3>3. \A q \in Requests : pc'[q] \in {"new", "built"} => pc[q] = pc'[q]
      BY <1>2, <2>5 DEF KeepWaiting, Goto
    <3>4. QED
      BY <1>2, <3>1, <3>2, <3>3 DEF RowsAgree
  <2>6. ASSUME NEW r \in Requests, Grant(r) PROVE RowsAgree'
    <3>1. \A q \in Requests \ {r} :
            /\ state'[q] = IF q \in Lost THEN "expired" ELSE state[q]
            /\ slot'[q] = IF q \in Lost THEN NoSlot ELSE slot[q]
      BY <1>2, <2>6, ReapedRows DEF Grant
    <3>2. \A q \in Lost : state[q] # "none"
      BY <1>2 DEF Lost, ExpiredLeases, ExpiredWaiters, Leased, Queued, RowsAgree
    <3>3. /\ state'[r] = "granted" /\ slot'[r] \in Nat /\ pc'[r] = "running"
          /\ \A q \in Requests \ {r} : pc'[q] = pc[q]
      BY <1>2, <2>6, GrantLeases DEF Grant, Goto
    <3>4. QED
      BY <1>2, <3>1, <3>2, <3>3 DEF RowsAgree, NoSlot
  <2>7. ASSUME NEW r \in Requests, Heartbeat(r) \/ HeartbeatDies(r) \/ AgentEnds(r)
        PROVE  RowsAgree'
    BY <1>2, <2>7 DEF Heartbeat, HeartbeatDies, AgentEnds, Goto, RowsAgree
  <2>8. ASSUME NEW r \in Requests, Release(r) PROVE RowsAgree'
    <3>1. \A q \in Requests : q # r => state'[q] = state[q] /\ slot'[q] = slot[q]
      BY <1>2, <2>8 DEF Release
    <3>2. state'[r] = "granted" <=> slot'[r] # NoSlot
      BY <1>2, <2>8 DEF Release, RowsAgree
    <3>3. pc'[r] = "ended" /\ \A q \in Requests \ {r} : pc'[q] = pc[q]
      BY <1>2, <2>8 DEF Release, End, Goto
    <3>4. QED
      BY <1>2, <3>1, <3>2, <3>3 DEF RowsAgree
  <2>9. CASE SetLimit \/ Advance \/ Crash \/ UNCHANGED vars
    BY <1>2, <2>9 DEF SetLimit, Advance, Crash, vars, RowsAgree
  <2>10. QED
    BY <1>2, <2>1, <2>2, <2>3, <2>4, <2>5, <2>6, <2>7, <2>8, <2>9 DEF Next, Step
<1>3. QED
  BY <1>1, <1>2, SlotTypes, PTL DEF Spec

\* When the tables agree, the waiters' row alone tells a request's place.
LEMMA PlaceByState ==
  ASSUME TypeOK, RowsAgree
  PROVE  /\ Standing = [r \in Requests |->
                         CASE state[r] = "granted" -> "holding"
                           [] state[r] = "none" -> "out"
                           [] state[r] = "queued" -> "waiting"
                           [] OTHER -> "gone"]
         /\ Promise!Waiting = Queued
         /\ Promise!Holding = Leased
<1>1. \A r \in Requests :
        Place(r) = CASE state[r] = "granted" -> "holding"
                     [] state[r] = "none" -> "out"
                     [] state[r] = "queued" -> "waiting"
                     [] OTHER -> "gone"
  BY DEF RowsAgree, Place
<1>2. \A r \in Requests : Standing[r] = Place(r)
  BY DEF Standing
<1>3. \A r \in Requests : /\ Place(r) = "waiting" <=> state[r] = "queued"
                          /\ Place(r) = "holding" <=> slot[r] # NoSlot
  BY <1>1 DEF RowsAgree
<1>4. Promise!Waiting = Queued /\ Promise!Holding = Leased
  BY <1>2, <1>3 DEF Promise!Waiting, Promise!Holding, Queued, Leased
<1>5. QED
  BY <1>1, <1>4 DEF Standing

\* Requests whose rows end, while the others keep theirs, part from the pool.
LEMMA RowsPart ==
  ASSUME TypeOK, TypeOK', RowsAgree, RowsAgree', UNCHANGED position,
         NEW leaving \in SUBSET Requests,
         \A q \in leaving : /\ state'[q] \in {"expired", "canceled", "released"}
                            /\ slot'[q] = NoSlot,
         \A q \in Requests \ leaving : state'[q] = state[q] /\ slot'[q] = slot[q]
  PROVE  Promise!Part(leaving)
<1>1. Standing' = [q \in Requests |-> IF q \in leaving THEN "gone" ELSE Standing[q]]
  BY PlaceByState DEF Standing, Place
<1>2. Queued' = Queued \ leaving
  BY DEF Queued
<1>3. InFront' = InFront \cap ((Queued \ leaving) \X (Queued \ leaving))
  BY <1>2 DEF InFront
<1>4. slot' = [q \in Requests |-> IF q \in leaving THEN NoSlot ELSE slot[q]]
  BY DEF TypeOK
<1>5. QED
  BY <1>1, <1>3, <1>4, PlaceByState DEF Promise!Part

\* Who is behind a new row: nobody, for its position is the highest.
LEMMA EnqueueJoins ==
  ASSUME TypeOK, TypeOK', RowsAgree, RowsAgree', PositionsOrdered,
         NEW r \in Requests, Enqueue(r)
  PROVE  Promise!Join(r)
<1>1. state[r] = "none"
  BY DEF Enqueue, RowsAgree
<1>2. state'[r] = "queued" /\ \A q \in Requests \ {r} : state'[q] = state[q]
  BY DEF Enqueue, TypeOK
<1>3. Standing[r] = "out" /\ Standing' = [Standing EXCEPT ![r] = "waiting"]
  <2>1. Standing[r] = "out"
    BY <1>1, PlaceByState
  <2>2. UNCHANGED slot /\ slot[r] = NoSlot
    BY <1>1 DEF Enqueue, RowsAgree
  <2>3. Place(r)' = "waiting" /\ \A q \in Requests \ {r} : Place(q)' = Place(q)
    BY <1>2, <2>2 DEF Place
  <2>4. QED
    BY <2>1, <2>3 DEF Standing
<1>4. InFront' = InFront \cup (Queued \X {r})
  <2>1. Queued' = Queued \cup {r} /\ r \notin Queued
    BY <1>1, <1>2 DEF Queued
  <2>2. position'[r] = lastPosition + 1
    BY DEF Enqueue, TypeOK
  <2>3. \A q \in Queued : q # r /\ position'[q] = position[q] /\ position[q] < position'[r]
    BY <2>1, <2>2 DEF Enqueue, TypeOK, PositionsOrdered, Queued
  <2>4. \A q, u \in Queued' : position'[q] < position'[u] <=>
                              \/ q \in Queued /\ u \in Queued /\ position[q] < position[u]
                              \/ q \in Queued /\ u = r
    <3>1. \A q \in Queued' : position'[q] \in Nat
      BY DEF Queued, TypeOK
    <3>2. QED
      BY <2>1, <2>3, <3>1
  <2>5. QED
    BY <2>1, <2>4 DEF InFront
<1>5. QED
  BY <1>3, <1>4, PlaceByState DEF Promise!Join, Enqueue

\* try_acquire serves the first of those who still wait, from the numbers that
\* the leases it leaves do not take.
LEMMA GrantServes ==
  ASSUME TypeOK, TypeOK', RowsAgree, RowsAgree', PositionsOrdered,
         NEW r \in Requests, Grant(r)
  PROVE  Promise!Serve(r)
<1> DEFINE line == Queued \ (Lost \cup {r})
<1>1. r \in Queued /\ r \notin Lost /\ slot[r] = NoSlot
  BY DEF Grant, QueuedAfterReap, Lost, ExpiredLeases, Leased, Queued, RowsAgree
<1>2. Lost \in SUBSET ((Queued \cup Leased) \ {r})
  BY <1>1 DEF Lost, ExpiredLeases, ExpiredWaiters
<1>3. Leased \ Lost = LeasedAfterReap /\ Queued \ Lost = QueuedAfterReap
  BY DEF Lost, ExpiredLeases, ExpiredWaiters, LeasedAfterReap, QueuedAfterReap,
     Leased, Queued, RowsAgree
<1>4. limit[r] \in Limits /\ Cardinality(LeasedAfterReap) < limit[r]
  <2>1. Cardinality(LeasedAfterReap) \in Nat
    BY FS_Subset, FS_CardinalityType DEF LeasedAfterReap, Leased
  <2>2. Cardinality(LeasedAfterReap) < limit[r]
    BY DEF Grant, Grantable
  <2>3. QED
    BY <2>1, <2>2 DEF TypeOK
<1>5. \A q \in line : <<r, q>> \in InFront
  <2>1. ASSUME NEW q \in line PROVE position[r] < position[q]
    <3>1. position[r] <= position[q]
      <4>1. q \in QueuedAfterReap
        BY <1>3
      <4>2. QED
        BY <4>1 DEF Grant, Grantable, IsFirst
    <3>2. position[r] # position[q]
      BY <1>1 DEF PositionsOrdered, Queued
    <3>3. position[r] \in Nat /\ position[q] \in Nat
      BY DEF TypeOK, Queued
    <3>4. QED
      BY <3>1, <3>2, <3>3
  <2>2. QED
    BY <1>1, <2>1 DEF InFront
<1>6. \A q \in Requests \ {r} : /\ state'[q] = IF q \in Lost THEN "expired" ELSE state[q]
                                /\ slot'[q] = IF q \in Lost THEN NoSlot ELSE slot[q]
  BY ReapedRows DEF Grant
<1>7. state'[r] = "granted" /\ slot'[r] # NoSlot
  <2>1. slot'[r] \in Nat
    BY GrantLeases
  <2>2. state'[r] = "granted"
    BY DEF Grant
  <2>3. QED
    BY <2>1, <2>2 DEF NoSlot
<1>8. Standing' = [q \in Requests |-> CASE q = r -> "holding"
                                        [] q \in Lost -> "gone"
                                        [] OTHER -> Standing[q]]
  <2>1. Place(r)' = "holding"
    BY <1>7 DEF Place
  <2>2. \A q \in Requests \ {r} : Place(q)' = IF q \in Lost THEN "gone" ELSE Place(q)
    BY <1>6 DEF Place
  <2>3. QED
    BY <1>1, <2>1, <2>2 DEF Standing
<1>9. InFront' = InFront \cap (line \X line)
  <2>1. Queued' = line
    BY <1>6, <1>7 DEF Queued
  <2>2. QED
    BY <2>1 DEF InFront, Grant
<1>10. /\ slot'[r] \in (0 .. limit[r] - 1) \ {slot[q] : q \in Leased \ Lost}
       /\ slot' = [q \in Requests |-> CASE q = r -> slot'[r]
                                        [] q \in Lost -> NoSlot
                                        [] OTHER -> slot[q]]
  <2>1. slot'[r] = LowestFree(limit[r])
    BY DEF Grant
  <2>2. LowestFree(limit[r]) \in FreeSlots(limit[r])
    BY <1>4, LimitsNatural, LowestFreeIsFree
  <2>3. slot'[r] \in (0 .. limit[r] - 1) \ {slot[q] : q \in Leased \ Lost}
    BY <1>3, <2>1, <2>2 DEF FreeSlots
  <2>4. QED
    BY <1>1, <1>6, <2>3 DEF TypeOK
<1>11. QED
  <2> HIDE DEF line
  <2>1. Standing[r] = "waiting" /\ Lost \in SUBSET ((Promise!Waiting \cup Promise!Holding) \ {r})
    BY <1>1, <1>2, PlaceByState DEF Queued
  <2>2. /\ \A q \in Promise!Waiting \ (Lost \cup {r}) : <<r, q>> \in InFront
        /\ Promise!Cardinality(Promise!Holding \ Lost) < limit[r]
        /\ InFront' = InFront \cap ((Promise!Waiting \ (Lost \cup {r}))
                                      \X (Promise!Waiting \ (Lost \cup {r})))
        /\ slot'[r] \in (0 .. limit[r] - 1) \ {slot[q] : q \in Promise!Holding \ Lost}
    <3>1. Promise!Cardinality(LeasedAfterReap) = Cardinality(LeasedAfterReap)
      BY DEF Promise!Cardinality, Cardinality
    <3>2. QED
      BY <1>3, <1>4, <1>5, <1>9, <1>10, <3>1, PlaceByState DEF line
  <2>3. \E capacity \in Limits :
          /\ Promise!Cardinality(Promise!Holding \ Lost) < capacity
          /\ \E n \in (0 .. capacity - 1) \ {slot[q] : q \in Promise!Holding \ Lost} :
               slot' = [q \in Requests |-> CASE q = r -> n
                                             [] q \in Lost -> NoSlot
                                             [] OTHER -> slot[q]]
    <3>1. \E n \in (0 .. limit[r] - 1) \ {slot[q] : q \in Promise!Holding \ Lost} :
            slot' = [q \in Requests |-> CASE q = r -> n
                                          [] q \in Lost -> NoSlot
                                          [] OTHER -> slot[q]]
      BY <1>10, <2>2, Zenon
    <3>2. QED
      BY <1>4, <2>2, <3>1, Zenon
  <2>4. \E lost \in SUBSET ((Promise!Waiting \cup Promise!Holding) \ {r}) :
          /\ Standing' = [q \in Requests |-> CASE q = r -> "holding"
                                               [] q \in lost -> "gone"
                                               [] OTHER -> Standing[q]]
          /\ \A q \in Promise!Waiting \ (lost \cup {r}) : <<r, q>> \in InFront
          /\ InFront' = InFront \cap ((Promise!Waiting \ (lost \cup {r}))
                                        \X (Promise!Waiting \ (lost \cup {r})))
          /\ \E capacity \in Limits :
               /\ Promise!Cardinality(Promise!Holding \ lost) < capacity
               /\ \E n \in (0 .. capacity - 1) \ {slot[q] : q \in Promise!Holding \ lost} :
                    slot' = [q \in Requests |-> CASE q = r -> n
                                                  [] q \in lost -> NoSlot
                                                  [] OTHER -> slot[q]]
    BY <1>8, <2>1, <2>2, <2>3
  <2>5. QED
    BY <2>1, <2>4 DEF Promise!Serve

\* Every step of the tables is a step of the pool, or none.
LEMMA StepKeepsPromise ==
  ASSUME TypeOK, TypeOK', RowsAgree, RowsAgree', PositionsOrdered, [Next]_vars
  PROVE  [Promise!Next]_(Promise!pool)
<1> USE DEF tables, threads
<1>1. ASSUME UNCHANGED <<state, slot, position>> PROVE UNCHANGED Promise!pool
  BY <1>1 DEF Promise!pool, Standing, Place, InFront, Queued
<1>2. ASSUME NEW r \in Requests, Enqueue(r) PROVE Promise!Next
  BY <1>2, EnqueueJoins DEF Promise!Next
<1>3. ASSUME NEW r \in Requests, CheckCancel(r) PROVE [Promise!Next]_(Promise!pool)
  <2>1. CASE state'[r] # state[r]
    <3>1. canceled[r] /\ state[r] = "queued" /\ state'[r] = "canceled"
      BY <1>3, <2>1 DEF CheckCancel, TypeOK
    <3>2. /\ UNCHANGED <<position, slot>> /\ slot[r] = NoSlot
          /\ \A q \in Requests \ {r} : state'[q] = state[q]
      BY <1>3, <3>1 DEF CheckCancel, TypeOK, RowsAgree
    <3>3. Promise!Part({r})
      BY <3>1, <3>2, RowsPart
    <3>4. Standing[r] = "waiting"
      BY <3>1, PlaceByState
    <3>5. QED
      BY <3>3, <3>4 DEF Promise!Leave, Promise!Next
  <2>2. CASE state'[r] = state[r]
    BY <1>1, <1>3, <2>2 DEF CheckCancel, TypeOK
  <2>3. QED
    BY <2>1, <2>2
<1>4. ASSUME NEW r \in Requests, KeepWaiting(r) PROVE Promise!Next
  <2>1. r \in Queued /\ r \notin Lost
    BY <1>4 DEF KeepWaiting, QueuedAfterReap, Lost, ExpiredLeases, Leased, Queued, RowsAgree
  <2>2. Lost \in SUBSET ((Queued \cup Leased) \ {r}) /\ Lost \subseteq Requests
    BY <2>1 DEF Lost, ExpiredLeases, ExpiredWaiters, Queued, Leased
  <2>3. \A q \in Requests : /\ state'[q] = IF q \in Lost THEN "expired" ELSE state[q]
                            /\ slot'[q] = IF q \in Lost THEN NoSlot ELSE slot[q]
    BY <1>4, ReapedRows DEF KeepWaiting
  <2>4. UNCHANGED position
    BY <1>4 DEF KeepWaiting
  <2>5. Promise!Part(Lost)
    BY <2>2, <2>3, <2>4, RowsPart
  <2>6. Promise!GiveUp
    <3>1. /\ Lost \in SUBSET (Promise!Waiting \cup Promise!Holding)
          /\ Promise!Waiting \ Lost # {}
      BY <2>1, <2>2, PlaceByState
    <3>2. QED
      BY <2>5, <3>1 DEF Promise!GiveUp
  <2>7. QED
    BY <2>6 DEF Promise!Next
<1>5. ASSUME NEW r \in Requests, Grant(r) PROVE Promise!Next
  BY <1>5, GrantServes DEF Promise!Next
<1>6. ASSUME NEW r \in Requests, Release(r) PROVE [Promise!Next]_(Promise!pool)
  <2>1. CASE slot[r] # NoSlot /\ slot[r] = mine[r]
    <3>1. /\ state'[r] = "released" /\ slot'[r] = NoSlot /\ UNCHANGED position
          /\ \A q \in Requests \ {r} : state'[q] = state[q] /\ slot'[q] = slot[q]
      BY <1>6, <2>1 DEF Release, TypeOK, RowsAgree
    <3>2. Promise!Part({r})
      BY <3>1, RowsPart
    <3>3. Standing[r] = "holding"
      BY <2>1 DEF Standing, Place
    <3>4. QED
      BY <3>2, <3>3 DEF Promise!Leave, Promise!Next
  <2>2. CASE slot[r] = NoSlot
    <3>1. state[r] # "granted"
      BY <2>2 DEF RowsAgree
    <3>2. UNCHANGED <<state, slot, position>>
      BY <1>6, <2>2, <3>1 DEF Release, TypeOK
    <3>3. QED
      BY <1>1, <3>2
  <2>3. CASE slot[r] # mine[r]
    BY <1>1, <1>6, <2>3 DEF Release
  <2>4. QED
    BY <2>1, <2>2, <2>3
<1>7. ASSUME NEW r \in Requests,
             \/ Build(r) \/ AcquireFails(r) \/ Heartbeat(r) \/ HeartbeatDies(r)
             \/ AgentEnds(r) \/ ReleaseFails(r) \/ Cancel(r)
      PROVE  UNCHANGED Promise!pool
  BY <1>1, <1>7 DEF Build, AcquireFails, Heartbeat, HeartbeatDies, AgentEnds,
     ReleaseFails, Cancel
<1>8. CASE SetLimit \/ Advance \/ Crash \/ UNCHANGED vars
  BY <1>1, <1>8 DEF SetLimit, Advance, Crash, vars
<1>9. QED
  BY <1>2, <1>3, <1>4, <1>5, <1>6, <1>7, <1>8 DEF Next, Step

\* LlmSlotStore, with its lazy expiry, its crashes and its pools of different
\* capacity, implements a pool that serves first come, first served.
THEOREM PoolKeepsPromise == Spec => PromiseKept
<1>1. Init => Promise!Init
  BY DEF Init, Promise!Init, Standing, Place, InFront, Queued
<1>2. /\ TypeOK /\ TypeOK' /\ RowsAgree /\ RowsAgree' /\ PositionsOrdered
      /\ [Next]_vars
      => [Promise!Next]_(Promise!pool)
  BY StepKeepsPromise
<1>3. QED
  BY <1>1, <1>2, SlotTypes, RowsStayInStep, Positions, PTL
  DEF Spec, PromiseKept, Promise!Spec

---------------------------------------------------------------------------
(***************************************************************************)
(* Agents and leases.  When threads are punctual and no heartbeat thread   *)
(* dies, a lease is renewed before it expires, so an agent, until its      *)
(* release, has the lease it was started with.                             *)
(***************************************************************************)
LeasesAlive ==
  \A r \in Requests : pc[r] \in {"running", "stopped"} =>
    slot[r] # NoSlot /\ slot[r] = mine[r] /\ leaseLeft[r] > 0 /\ beat[r] = "on"

\* Without stalls and locked databases no step, and no crash, takes the lease
\* of a running agent.
LEMMA StepKeepsLeases ==
  ASSUME Faults \subseteq {"crash"}, TypeOK, LeasesAlive, [Next]_vars
  PROVE  LeasesAlive'
<1> USE DEF tables, threads, TypeOK
<1>1. ASSUME NEW r \in Requests, Grant(r) PROVE LeasesAlive'
  <2>1. slot'[r] \in Nat /\ mine'[r] = slot'[r] /\ leaseLeft'[r] = Ttl /\ beat'[r] = "on"
    BY <1>1, GrantLeases DEF Grant
  <2>2. \A q \in Requests \ {r} :
          /\ pc'[q] = pc[q] /\ mine'[q] = mine[q] /\ beat'[q] = beat[q]
          /\ leaseLeft'[q] = leaseLeft[q]
          /\ leaseLeft[q] > 0 => slot'[q] = slot[q]
    BY <1>1 DEF Grant, Goto, SlotAfterReap, ExpiredLeases
  <2>3. QED
    BY <2>1, <2>2, TtlPositive DEF LeasesAlive, NoSlot
<1>2. ASSUME NEW r \in Requests, KeepWaiting(r) PROVE LeasesAlive'
  BY <1>2 DEF KeepWaiting, Goto, SlotAfterReap, ExpiredLeases, LeasesAlive
<1>3. ASSUME NEW r \in Requests, Heartbeat(r) PROVE LeasesAlive'
  BY <1>3, TtlPositive DEF Heartbeat, LeasesAlive
<1>4. ASSUME NEW r \in Requests, AgentEnds(r) PROVE LeasesAlive'
  BY <1>4 DEF AgentEnds, Goto, LeasesAlive
<1>5. ASSUME NEW r \in Requests, Release(r) PROVE LeasesAlive'
  <2>1. pc'[r] = "ended"
    BY <1>5 DEF Release, End, Goto
  <2>2. \A q \in Requests \ {r} :
          /\ pc'[q] = pc[q] /\ mine'[q] = mine[q] /\ beat'[q] = beat[q]
          /\ leaseLeft'[q] = leaseLeft[q] /\ slot'[q] = slot[q]
    BY <1>5 DEF Release, End, Goto
  <2>3. QED
    BY <2>1, <2>2 DEF LeasesAlive
<1>6. ASSUME NEW r \in Requests, Build(r) \/ Enqueue(r) \/ AcquireFails(r) \/ Cancel(r)
      PROVE  LeasesAlive'
  BY <1>6 DEF Build, Enqueue, AcquireFails, Cancel, End, Goto, LeasesAlive
<1>7. ASSUME NEW r \in Requests, CheckCancel(r) PROVE LeasesAlive'
  <2>1. pc'[r] \in {"ended", "checked"} /\ UNCHANGED <<slot, leaseLeft>>
    BY <1>7 DEF CheckCancel, End, Goto
  <2>2. \A q \in Requests \ {r} : pc'[q] = pc[q] /\ mine'[q] = mine[q] /\ beat'[q] = beat[q]
    BY <1>7 DEF CheckCancel, End, Goto
  <2>3. QED
    BY <2>1, <2>2 DEF LeasesAlive
<1>8. ASSUME NEW r \in Requests, HeartbeatDies(r) \/ ReleaseFails(r) PROVE FALSE
  BY <1>8 DEF HeartbeatDies, ReleaseFails
<1>9. CASE Advance
  <2>1. \A r \in Requests : pc[r] = "running" \/ pc[r] = "stopped" =>
          leaseLeft[r] > 1
    BY <1>9 DEF Advance, Due, LeasesAlive
  <2>2. QED
    BY <1>9, <2>1 DEF Advance, Elapse, LeasesAlive
<1>10. CASE Crash
  BY <1>10 DEF Crash, LeasesAlive
<1>11. CASE SetLimit \/ UNCHANGED vars
  BY <1>11 DEF SetLimit, vars, LeasesAlive
<1>12. QED
  BY <1>1, <1>2, <1>3, <1>4, <1>5, <1>6, <1>7, <1>8, <1>9, <1>10, <1>11 DEF Next, Step

\* With punctual threads every agent process holds a lease, whenever the
\* service crashes and whatever waiters and leases earlier crashes left.
THEOREM AgentLeases ==
  ASSUME Faults \subseteq {"crash"}
  PROVE  Spec => []AgentsHaveLeases
<1>1. Init => LeasesAlive
  BY DEF Init, LeasesAlive
<1>2. TypeOK /\ LeasesAlive /\ [Next]_vars => LeasesAlive'
  BY StepKeepsLeases
<1>3. LeasesAlive => AgentsHaveLeases
  BY DEF LeasesAlive, AgentsHaveLeases, Agents, Leased
<1>4. QED
  BY <1>1, <1>2, <1>3, SlotTypes, PTL DEF Spec
=============================================================================
