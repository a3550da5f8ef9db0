------------------------ MODULE TicketIntakeProofs ------------------------
(***************************************************************************)
(* Proofs about TicketIntake, for any number of tickets, projects, pages,  *)
(* failures and requests, and for both sources: the types, and that the    *)
(* cursor passes nobody's ticket.                                          *)
(***************************************************************************)
EXTENDS TicketIntake, NumberLemmas, SequenceTheorems, TLAPS

---------------------------------------------------------------------------
(***************************************************************************)
(* Types.  TypeOK says little of the poll's copy of the configuration and  *)
(* of the requests in flight, and nothing of the times.                    *)
(***************************************************************************)
Settings == [Projects -> [enabled : BOOLEAN, intake : 0 .. MaxTime]]

PollTyped ==
  poll \in [step : {"idle", "due", "paging", "reading"}, since : Cursors, newest : Cursors,
            projects : Settings, offset : Nat, found : Seq(Items), batch : Seq(Items)]

\* A ticket that exists was created, then changed, and not in the future.
Stamped ==
  \A t \in Tickets : /\ created[t] = 0 <=> modified[t] = 0
                     /\ created[t] <= modified[t]
                     /\ modified[t] <= clock

\* A request in flight is somebody's, and what comes after the configuration is
\* written only concerns those that enable.
RequestsTyped ==
  \A c \in Clients :
    /\ requests[c].step = "idle" => requests[c] = NoRequest
    /\ requests[c].step # "idle" =>
         requests[c].project \in Projects /\ requests[c].at \in Seconds
    /\ requests[c].step \in {"cursor", "health"} => requests[c].on

\* A poll finds tickets that exist.
ItemsExist == \A i \in DOMAIN poll.found : modified[poll.found[i].ticket] # 0

Typed == TypeOK /\ PollTyped /\ Stamped /\ RequestsTyped /\ ItemsExist

---------------------------------------------------------------------------
(***************************************************************************)
(* The answer of the source: every ticket the query selects, each once.    *)
(***************************************************************************)
LEMMA TicketsFinite == IsFiniteSet(Tickets) /\ Tickets \subseteq Nat
<1>1. NumTickets \in Nat /\ Tickets = 1 .. NumTickets
  BY Numbers DEF Tickets
<1>2. QED
  BY <1>1, FS_Interval

\* Before is a strict order in which any two tickets are comparable.
LEMMA BeforeOrders ==
  ASSUME modified \in [Tickets -> Nat]
  PROVE  /\ \A s \in Tickets : ~ Before(s, s)
         /\ \A s, t \in Tickets : s = t \/ Before(s, t) \/ Before(t, s)
         /\ \A r, s, t \in Tickets : Before(r, s) /\ Before(s, t) => Before(r, t)
BY TicketsFinite DEF Before

\* Tickets are counted by how many others come before them: no two have the same
\* count, and every count up to the number of tickets occurs.
LEMMA Ranked ==
  ASSUME NEW S, S \subseteq Tickets, modified \in [Tickets -> Nat]
  PROVE  /\ IsFiniteSet(S) /\ Cardinality(S) \in Nat
         /\ \A t \in S : Cardinality({s \in S : Before(s, t)}) \in 0 .. Cardinality(S) - 1
         /\ \A s, t \in S : Cardinality({r \in S : Before(r, s)}) =
                              Cardinality({r \in S : Before(r, t)}) => s = t
         /\ \A s, t \in S : Before(s, t) => Cardinality({r \in S : Before(r, s)}) <
                                              Cardinality({r \in S : Before(r, t)})
         /\ \A k \in 1 .. Cardinality(S) :
              \E t \in S : Cardinality({s \in S : Before(s, t)}) = k - 1
<1> DEFINE Lower(t) == {s \in S : Before(s, t)}
           rank == [t \in S |-> Cardinality(Lower(t))]
           ranks == 0 .. Cardinality(S) - 1
<1>1. IsFiniteSet(S) /\ Cardinality(S) \in Nat
  BY TicketsFinite, FS_Subset, FS_CardinalityType
<1>2. \A t \in S : /\ IsFiniteSet(Lower(t)) /\ Cardinality(Lower(t)) \in Nat
                   /\ Lower(t) \subseteq S /\ t \notin Lower(t)
  BY <1>1, BeforeOrders, FS_Subset, FS_CardinalityType
<1>3. \A t \in S : Cardinality(Lower(t)) \in ranks
  <2>1. ASSUME NEW t \in S PROVE Cardinality(Lower(t)) < Cardinality(S)
    <3>1. Cardinality(Lower(t)) <= Cardinality(S) /\ Cardinality(Lower(t)) # Cardinality(S)
      <4> HIDE DEF Lower
      <4> QED BY <1>1, <1>2, FS_Subset
    <3>2. QED
      BY <1>1, <1>2, <3>1
  <2>2. QED
    <3> HIDE DEF Lower
    <3> QED BY <1>1, <1>2, <2>1
<1>4. ASSUME NEW s \in S, NEW t \in S, Before(s, t)
      PROVE  Cardinality(Lower(s)) < Cardinality(Lower(t))
  <2>1. Lower(s) \subseteq Lower(t)
    BY <1>4, BeforeOrders
  <2>2. s \in Lower(t) /\ s \notin Lower(s)
    BY <1>2, <1>4
  <2>3. Cardinality(Lower(s)) <= Cardinality(Lower(t)) /\ Cardinality(Lower(s)) # Cardinality(Lower(t))
    <3> HIDE DEF Lower
    <3> QED BY <1>2, <2>1, <2>2, FS_Subset
  <2>4. QED
    BY <1>2, <2>3
<1>5. \A s, t \in S : Cardinality(Lower(s)) = Cardinality(Lower(t)) => s = t
  <2>1. SUFFICES ASSUME NEW s \in S, NEW t \in S, s # t
                 PROVE  Cardinality(Lower(s)) # Cardinality(Lower(t))
    OBVIOUS
  <2>2. Before(s, t) \/ Before(t, s)
    BY <2>1, BeforeOrders
  <2>3. Cardinality(Lower(s)) < Cardinality(Lower(t)) \/ Cardinality(Lower(t)) < Cardinality(Lower(s))
    BY <1>4, <2>2
  <2>4. QED
    BY <1>2, <2>3
<1>6. \A k \in ranks : \E t \in S : Cardinality(Lower(t)) = k
  <2>1. rank \in Injection(S, ranks)
    BY <1>3, <1>5 DEF Injection, IsInjective
  <2>2. IsFiniteSet(ranks) /\ Cardinality(ranks) = Cardinality(S)
    BY <1>1, FS_Interval
  <2>3. rank \in Surjection(S, ranks)
    <3> HIDE DEF rank, ranks
    <3> QED BY <1>1, <2>1, <2>2, FS_Injection
  <2>4. QED
    BY <2>3 DEF Surjection
<1>7. \A k \in 1 .. Cardinality(S) : \E t \in S : Cardinality(Lower(t)) = k - 1
  <2>1. \A k \in 1 .. Cardinality(S) : k - 1 \in ranks
    BY <1>1
  <2>2. QED
    <3> HIDE DEF ranks, Lower
    <3> QED BY <1>6, <2>1
<1>8. QED
  BY <1>1, <1>3, <1>4, <1>5, <1>7

\* The k-th ticket of the answer is the selected one that k - 1 others come before.
LEMMA AnswerRanks ==
  ASSUME NEW since, modified \in [Tickets -> Nat]
  PROVE  /\ Answer(since) \in Seq(Tickets)
         /\ Len(Answer(since)) = Cardinality(Listed(since))
         /\ \A k \in 1 .. Len(Answer(since)), t \in Listed(since) :
              Answer(since)[k] = t <=>
                Cardinality({s \in Listed(since) : Before(s, t)}) = k - 1
         /\ \A k \in 1 .. Len(Answer(since)) : Answer(since)[k] \in Listed(since)
         /\ \A t \in Listed(since) :
              \E k \in 1 .. Len(Answer(since)) : Answer(since)[k] = t
<1> DEFINE S == Listed(since)
           Rank(t) == Cardinality({s \in S : Before(s, t)})
           n == Cardinality(S)
<1>1. S \subseteq Tickets
  BY DEF Listed
<1>2. /\ n \in Nat
      /\ \A t \in S : Rank(t) \in 0 .. n - 1
      /\ \A s, t \in S : Rank(s) = Rank(t) => s = t
      /\ \A k \in 1 .. n : \E t \in S : Rank(t) = k - 1
  <2> HIDE DEF S
  <2> QED BY <1>1, Ranked
<1>3. Answer(since) = [k \in 1 .. n |-> CHOOSE t \in S : Rank(t) = k - 1]
  BY DEF Answer
<1> HIDE DEF Rank, S, n
<1>4. \A k \in 1 .. n : Answer(since)[k] \in S /\ Rank(Answer(since)[k]) = k - 1
  BY <1>2, <1>3
<1>5. Answer(since) \in Seq(Tickets) /\ Len(Answer(since)) = n
  BY <1>1, <1>2, <1>3, <1>4
<1>6. \A t \in S : Rank(t) + 1 \in 1 .. n /\ Answer(since)[Rank(t) + 1] = t
  <2>1. SUFFICES ASSUME NEW t \in S
                 PROVE  Rank(t) + 1 \in 1 .. n /\ Answer(since)[Rank(t) + 1] = t
    OBVIOUS
  <2>2. Rank(t) \in 0 .. n - 1
    BY <1>2
  <2>3. Rank(t) + 1 \in 1 .. n /\ (Rank(t) + 1) - 1 = Rank(t)
    BY <1>2, <2>2
  <2>4. QED
    BY <1>2, <1>4, <2>3
<1>7. \A k \in 1 .. n, t \in S : Answer(since)[k] = t <=> Rank(t) = k - 1
  BY <1>2, <1>4
<1>8. QED
  BY <1>4, <1>5, <1>6, <1>7 DEF S, n, Rank

\* The answer is a sequence of the selected tickets and has every one of them.
LEMMA AnswerLists ==
  ASSUME NEW since, modified \in [Tickets -> Nat]
  PROVE  /\ Answer(since) \in Seq(Tickets)
         /\ \A k \in 1 .. Len(Answer(since)) : Answer(since)[k] \in Listed(since)
         /\ \A t \in Listed(since) :
              \E k \in 1 .. Len(Answer(since)) : Answer(since)[k] = t
BY AnswerRanks

\* The same, said of the poll in flight before and after a step.
AnswerRanked ==
  LET answer == Answer(poll.since)
      listed == Listed(poll.since)
  IN /\ answer \in Seq(Tickets) /\ Len(answer) = Cardinality(listed)
     /\ \A k \in 1 .. Len(answer), t \in listed :
          answer[k] = t <=> Cardinality({s \in listed : Before(s, t)}) = k - 1

LEMMA AnswerIsRanked == Typed => AnswerRanked
<1> SUFFICES ASSUME Typed PROVE AnswerRanked
  OBVIOUS
<1>1. modified \in [Tickets -> Nat]
  BY Lengths DEF Typed, TypeOK
<1>2. QED
  BY <1>1, AnswerRanks DEF AnswerRanked

LEMMA NextAnswerIsRanked == Typed' => AnswerRanked'
BY AnswerIsRanked, PTL

---------------------------------------------------------------------------
(***************************************************************************)
(* Routing.                                                                *)
(***************************************************************************)
\* A ticket is routed to a project that is enabled, which it passes and matches and
\* that started before the ticket was created; otherwise it fails or is ignored,
\* because no filter lets it pass or because the one that ranks above all others
\* started later.
LEMMA Routed ==
  ASSUME NEW t \in Tickets, NEW projects \in Settings, created \in [Tickets -> 0 .. MaxTime]
  PROVE  /\ Route(t, projects) \in Projects \cup {None, Ignored}
         /\ \A p \in Projects : Route(t, projects) = p =>
              /\ projects[p].enabled /\ t \in Filtered[p] \cap Conditioned[p]
              /\ created[t] > projects[p].intake
         /\ Route(t, projects) = Ignored =>
              \/ \A p \in Enabled(projects) : t \notin Filtered[p]
              \/ \E p \in Projects :
                   /\ t \in Conditioned[p] /\ created[t] <= projects[p].intake
                   /\ \A q \in Enabled(projects) : t \in Filtered[q] \cap Conditioned[q] =>
                        q = p \/ Priority[q] < Priority[p]
<1> DEFINE passed == {p \in Enabled(projects) : t \in Filtered[p]}
           candidates == passed \cap {p \in Projects : t \in Conditioned[p]}
           top == {p \in candidates : \A q \in candidates : Priority[q] <= Priority[p]}
           chosen == CHOOSE p \in top : TRUE
<1>1. candidates \subseteq Projects /\ IsFiniteSet(candidates)
  BY FiniteProjects, FS_Subset DEF Enabled
<1>2. CASE candidates = {}
  BY <1>2, NoneIsNoProject, IgnoredIsApart DEF Route
<1>3. CASE candidates # {} /\ Cardinality(top) > 1
  BY <1>3, NoneIsNoProject, IgnoredIsApart DEF Route
<1>4. CASE candidates # {} /\ ~ Cardinality(top) > 1
  <2>1. [p \in candidates |-> Priority[p]] \in [candidates -> Nat]
    BY <1>1, Rules
  <2>2. PICK m \in candidates : \A q \in candidates :
          [p \in candidates |-> Priority[p]][q] <= [p \in candidates |-> Priority[p]][m]
    <3> HIDE DEF candidates
    <3> QED BY <1>1, <1>4, <2>1, GreatestValue
  <2>3. chosen \in top
    BY <2>2
  <2>4. /\ chosen \in Projects /\ projects[chosen].enabled
        /\ t \in Filtered[chosen] \cap Conditioned[chosen]
    BY <1>1, <2>3 DEF Enabled
  <2>5. Route(t, projects) = IF created[t] <= projects[chosen].intake THEN Ignored ELSE chosen
    BY <1>4 DEF Route
  <2>6. created[t] \in Nat /\ projects[chosen].intake \in Nat
    BY <2>4, Lengths DEF Settings
  <2>7. \A q \in candidates : q = chosen \/ Priority[q] < Priority[chosen]
    <3>1. SUFFICES ASSUME NEW q \in candidates, q # chosen, ~ Priority[q] < Priority[chosen]
                   PROVE  FALSE
      OBVIOUS
    <3>2. \A r \in candidates : Priority[r] \in Nat
      BY <1>1, Rules
    <3>3. q \in top
      BY <2>3, <3>1, <3>2
    <3>4. IsFiniteSet(top)
      BY <1>1, FS_Subset
    <3> HIDE DEF top, chosen
    <3>5. Cardinality({q} \cup {chosen}) = 2
      <4> DEFINE S == {q}
      <4>1. IsFiniteSet(S) /\ Cardinality(S) = 1 /\ chosen \notin S
        BY <3>1, FS_Singleton
      <4> HIDE DEF S
      <4>2. Cardinality(S \cup {chosen}) = Cardinality(S) + 1
        BY <4>1, FS_AddElement
      <4>3. QED
        BY <4>1, <4>2 DEF S
    <3>6. {q} \cup {chosen} \subseteq top
      BY <2>3, <3>3
    <3>7. Cardinality({q} \cup {chosen}) <= Cardinality(top) /\ Cardinality(top) \in Nat
      BY <3>4, <3>6, FS_Subset, FS_CardinalityType
    <3>8. QED
      BY <1>4, <3>5, <3>7
  <2>8. \A q \in Enabled(projects) : t \in Filtered[q] \cap Conditioned[q] => q \in candidates
    BY DEF Enabled
  <2>9. QED
    <3> HIDE DEF chosen, candidates, top
    <3> QED BY <2>4, <2>5, <2>6, <2>7, <2>8, IgnoredIsApart
<1>5. QED
  BY <1>2, <1>3, <1>4

---------------------------------------------------------------------------
(***************************************************************************)
(* Type correctness, one action at a time.                                 *)
(***************************************************************************)
LEMMA InitTyped == Init => Typed
<1> SUFFICES ASSUME Init PROVE Typed
  OBVIOUS
<1>1. PICK on \in Running : config = [p \in Projects |-> [enabled |-> p \in on, intake |-> 1]]
  BY DEF Init
<1>2. config \in [Projects -> [enabled : BOOLEAN, intake : Seconds]]
  BY <1>1, Lengths DEF Seconds
<1>3. PollTyped
  BY Lengths DEF Init, PollTyped, Idle, Cursors, NoCursor, Settings
<1>4. TypeOK
  <2>1. /\ clock \in Seconds
        /\ created \in [Tickets -> 0 .. MaxTime] /\ modified \in [Tickets -> 0 .. MaxTime]
        /\ failures \in 0 .. MaxFailures /\ switches \in 0 .. MaxSwitches /\ read \in BOOLEAN
    <3>1. MaxFailures \in Nat /\ MaxSwitches \in Nat /\ MaxTime \in Nat \ {0}
      BY Lengths, Numbers
    <3>2. 1 \in Seconds /\ 0 \in 0 .. MaxTime /\ 0 \in 0 .. MaxFailures /\ 0 \in 0 .. MaxSwitches
      BY <3>1 DEF Seconds
    <3>3. created \in [Tickets -> 0 .. MaxTime] /\ modified \in [Tickets -> 0 .. MaxTime]
      BY <3>2 DEF Init
    <3>4. QED
      BY <3>2, <3>3 DEF Init
  <2>2. /\ tasks \in [Tickets -> [content : 0 .. MaxTime, project : Projects \cup {None}]]
        /\ cursor \in Cursors /\ ready \in [Projects -> BOOLEAN]
        /\ requests \in [Clients -> [step : {"idle", "asked", "cursor", "health"},
                                     project : Projects \cup {None}, on : BOOLEAN,
                                     at : 0 .. MaxTime]]
    BY Lengths DEF Init, NoTask, NoRequest, NoCursor, Cursors
  <2>3. QED
    BY <1>2, <1>3, <2>1, <2>2 DEF TypeOK, PollTyped
<1>5. Stamped /\ RequestsTyped /\ ItemsExist
  BY Lengths DEF Init, Stamped, RequestsTyped, ItemsExist, NoRequest, Idle
<1>6. QED
  BY <1>3, <1>4, <1>5 DEF Typed

\* The source's clock and tickets.
LEMMA SourceTyped ==
  ASSUME Typed, Tick \/ \E t \in Tickets : Create(t) \/ Edit(t)
  PROVE  Typed'
<1> USE DEF Typed
<1>1. PollTyped' /\ RequestsTyped'
  BY DEF Tick, Create, Edit, PollTyped, RequestsTyped
<1>2. clock \in Seconds /\ Seconds \subseteq 0 .. MaxTime /\ 0 \in 0 .. MaxTime
  BY Lengths DEF TypeOK, Seconds
<1>3. CASE Tick
  <2>1. clock' \in Seconds /\ clock' = clock + 1
    BY <1>2, <1>3, Lengths DEF Tick, Seconds
  <2>2. TypeOK'
    BY <1>3, <2>1 DEF Tick, TypeOK, source
  <2>3. Stamped'
    BY <1>2, <1>3, <2>1, Lengths DEF Tick, TypeOK, Stamped, source, Seconds
  <2>4. ItemsExist'
    BY <1>3 DEF Tick, ItemsExist, source
  <2>5. QED
    BY <1>1, <2>2, <2>3, <2>4
<1>4. ASSUME NEW t \in Tickets, Create(t) \/ Edit(t) PROVE Typed'
  <2>1. /\ created' \in [Tickets -> 0 .. MaxTime] /\ modified' = [modified EXCEPT ![t] = clock]
        /\ created' = created \/ created' = [created EXCEPT ![t] = clock]
    BY <1>2, <1>4 DEF Create, Edit, TypeOK
  <2>2. TypeOK'
    <3>1. modified' \in [Tickets -> 0 .. MaxTime]
      BY <1>2, <2>1 DEF TypeOK
    <3>2. QED
      BY <1>4, <2>1, <3>1 DEF Create, Edit, TypeOK
  <2>3. Stamped'
    <3>1. clock' = clock /\ (created'[t] = created[t] => created[t] # 0 \/ created'[t] = clock)
      BY <1>2, <1>4 DEF Create, Edit, TypeOK
    <3>2. QED
      BY <1>2, <1>4, <2>1, <3>1, Lengths DEF Create, Edit, TypeOK, Stamped, Seconds
  <2>4. ItemsExist'
    <3>1. poll' = poll /\ clock # 0
      BY <1>4, Lengths DEF Create, Edit, TypeOK, Seconds
    <3>2. \A i \in DOMAIN poll.found : poll.found[i].ticket \in Tickets
      <4>1. poll.found \in Seq(Items)
        BY DEF PollTyped
      <4>2. \A i \in DOMAIN poll.found : poll.found[i] \in Items
        BY <4>1, ElementOfSeq
      <4>3. QED
        BY <4>2 DEF Items
    <3>3. QED
      BY <2>1, <3>1, <3>2 DEF ItemsExist, TypeOK
  <2>5. QED
    BY <1>1, <2>2, <2>3, <2>4
<1>5. QED
  BY <1>3, <1>4

LEMMA OneSetting ==
  ASSUME NEW on \in BOOLEAN, NEW start \in 0 .. MaxTime
  PROVE  [enabled |-> on, intake |-> start] \in [enabled : BOOLEAN, intake : 0 .. MaxTime]
OBVIOUS

\* The settings a poll goes by: an enabled project that is healthy.
LEMMA UsableSettings ==
  ASSUME Typed
  PROVE  /\ Usable \in Settings /\ config \in Settings
         /\ \A p \in Projects : /\ Usable[p].enabled <=> config[p].enabled /\ ready[p]
                                /\ Usable[p].intake = config[p].intake
                                /\ Usable[p].intake \in Seconds
                                /\ ready[p] => Usable[p] = config[p]
         /\ Enabled(Usable) = {p \in Enabled(config) : ready[p]}
<1>1. config \in [Projects -> [enabled : BOOLEAN, intake : Seconds]] /\ ready \in [Projects -> BOOLEAN]
  BY DEF Typed, TypeOK
<1>2. Seconds \subseteq 0 .. MaxTime
  BY Lengths DEF Seconds
<1>3. ASSUME NEW p \in Projects
      PROVE  /\ {Usable[p], config[p]} \subseteq [enabled : BOOLEAN, intake : 0 .. MaxTime]
             /\ Usable[p].enabled <=> config[p].enabled /\ ready[p]
             /\ Usable[p].intake = config[p].intake
             /\ Usable[p].intake \in Seconds
             /\ ready[p] => Usable[p] = config[p]
  <2> DEFINE on == config[p].enabled /\ ready[p]
  <2>1. on \in BOOLEAN
    OBVIOUS
  <2>2. (on <=> config[p].enabled /\ ready[p]) /\ (ready[p] => on = config[p].enabled)
    <3>1. config[p].enabled \in BOOLEAN
      BY <1>1
    <3>2. QED
      BY <3>1
  <2>3. Usable[p] = [enabled |-> on, intake |-> config[p].intake]
    BY DEF Usable
  <2> HIDE DEF on
  <2>4. config[p] = [enabled |-> config[p].enabled, intake |-> config[p].intake]
        /\ config[p].enabled \in BOOLEAN /\ config[p].intake \in Seconds
    BY <1>1
  <2>5. Usable[p] \in [enabled : BOOLEAN, intake : 0 .. MaxTime]
    <3> DEFINE intake == config[p].intake
    <3>1. intake \in 0 .. MaxTime /\ Usable[p] = [enabled |-> on, intake |-> intake]
      BY <1>2, <2>3, <2>4
    <3> HIDE DEF intake
    <3>2. QED
      BY <2>1, <3>1, OneSetting
  <2>6. config[p] \in [enabled : BOOLEAN, intake : 0 .. MaxTime]
    BY <1>1, <1>2
  <2>7. Usable[p].enabled = on /\ Usable[p].intake = config[p].intake
    BY <2>3
  <2>8. ready[p] => Usable[p] = config[p]
    BY <2>2, <2>3, <2>4
  <2>9. Usable[p].enabled <=> config[p].enabled /\ ready[p]
    BY <2>2, <2>7
  <2>10. QED
    BY <2>4, <2>5, <2>6, <2>7, <2>8, <2>9
<1>4. Usable = [p \in Projects |-> Usable[p]] /\ config = [p \in Projects |-> config[p]]
  BY <1>1 DEF Usable
<1>5. Usable \in Settings /\ config \in Settings
  BY <1>3, <1>4 DEF Settings
<1>6. QED
  BY <1>3, <1>5 DEF Enabled

\* The cursor that a first poll starts from is the intake of a project it takes
\* tickets for, and no later than that of any other.
LEMMA FirstIntake ==
  ASSUME Typed, Enabled(Usable) # {}
  PROVE  LET first == Min({Usable[p].intake : p \in Enabled(Usable)})
         IN  /\ \E p \in Enabled(Usable) : first = config[p].intake
             /\ first \in Seconds
             /\ \A p \in Enabled(Usable) : first <= config[p].intake
<1> DEFINE intakes == {Usable[p].intake : p \in Enabled(Usable)}
<1>1. \A p \in Enabled(Usable) : /\ p \in Projects /\ Usable[p].intake \in Seconds
                                 /\ Usable[p].intake = config[p].intake
  BY UsableSettings DEF Enabled
<1>2. intakes \subseteq Seconds /\ intakes # {}
  BY <1>1
<1>3. Min(intakes) \in intakes /\ \A k \in intakes : Min(intakes) <= k
  <2> HIDE DEF intakes
  <2>1. intakes \subseteq Nat
    BY <1>2, Lengths DEF Seconds
  <2>2. \E s \in intakes : \A k \in intakes : s <= k
    BY <1>2, <2>1, LeastNatural
  <2>3. QED
    BY <2>2 DEF Min
<1>4. QED
  BY <1>1, <1>2, <1>3

\* The checks of the projects, and the tick that decides on a poll.
LEMMA SchedulerTyped ==
  ASSUME Typed, DecidePoll \/ \E p \in Projects, healthy \in BOOLEAN : CheckHealth(p, healthy)
  PROVE  Typed'
<1> USE DEF Typed
<1>1. UNCHANGED <<clock, created, modified, config, cursor, tasks, requests, switches, read>>
  BY DEF DecidePoll, CheckHealth, source
<1>2. CASE DecidePoll
  <2>1. poll' = [Idle EXCEPT !.step = "due"] /\ UNCHANGED <<ready, failures>>
    BY <1>2 DEF DecidePoll
  <2>2. PollTyped' /\ poll'.found = << >>
    <3>1. Idle.projects \in Settings /\ NoCursor \in Cursors
      BY Lengths DEF Idle, Settings, NoCursor, Cursors
    <3>2. poll' = [step |-> "due", since |-> NoCursor, newest |-> NoCursor,
                   projects |-> Idle.projects, offset |-> 0, found |-> << >>, batch |-> << >>]
      BY <2>1 DEF Idle
    <3>3. QED
      BY <3>1, <3>2 DEF PollTyped
  <2>3. TypeOK'
    BY <1>1, <2>1, <2>2 DEF TypeOK, PollTyped
  <2>4. QED
    BY <1>1, <2>2, <2>3 DEF Stamped, RequestsTyped, ItemsExist
<1>3. ASSUME NEW p \in Projects, NEW healthy \in BOOLEAN, CheckHealth(p, healthy)
      PROVE  Typed'
  <2>1. ready' \in [Projects -> BOOLEAN] /\ failures' \in 0 .. MaxFailures /\ poll' = poll
    BY <1>3, Numbers DEF CheckHealth, TypeOK
  <2>2. TypeOK'
    BY <1>1, <2>1 DEF TypeOK
  <2>3. QED
    BY <1>1, <2>1, <2>2 DEF PollTyped, Stamped, RequestsTyped, ItemsExist
<1>4. QED
  BY <1>2, <1>3

LEMMA BeginPollTyped ==
  ASSUME Typed, BeginPoll
  PROVE  Typed'
<1> USE DEF Typed
<1> DEFINE starts == {Usable[p].intake : p \in Enabled(Usable)}
           since == IF cursor = NoCursor /\ starts # {}
                    THEN [own |-> TRUE, at |-> Min(starts)] ELSE cursor
<1>1. /\ cursor' = since
      /\ poll' = [Idle EXCEPT !.step = "paging", !.since = since, !.newest = since,
                              !.projects = Usable]
  BY DEF BeginPoll
<1>2. starts # {} => Min(starts) \in Seconds
  BY FirstIntake
<1> HIDE DEF starts
<1>3. since \in Cursors
  BY <1>2, Lengths DEF TypeOK, Cursors, Seconds
<1> HIDE DEF since
<1>4. PollTyped'
  <2>1. poll' = [step |-> "paging", since |-> since, newest |-> since, projects |-> Usable,
                 offset |-> 0, found |-> << >>, batch |-> << >>]
    BY <1>1 DEF Idle
  <2>2. Usable \in Settings
    BY UsableSettings
  <2>3. QED
    BY <1>3, <2>1, <2>2 DEF PollTyped
<1>5. TypeOK'
  BY <1>1, <1>3, <1>4 DEF BeginPoll, TypeOK, PollTyped, Idle, source
<1>6. ItemsExist'
  BY <1>1 DEF ItemsExist, Idle
<1>7. QED
  BY <1>4, <1>5, <1>6 DEF BeginPoll, Stamped, RequestsTyped, source

LEMMA LesserOfTwo ==
  ASSUME NEW m \in Int, NEW n \in Int
  PROVE  Min({m, n}) = IF m < n THEN m ELSE n
BY DEF Min

\* What a part of a sequence shows.
LEMMA Slice ==
  ASSUME NEW S, NEW s \in Seq(S), NEW m \in Nat, NEW n \in Nat, n <= Len(s)
  PROVE  LET slice == SubSeq(s, m + 1, n)
         IN  /\ slice \in Seq(S)
             /\ Len(slice) = IF m < n THEN n - m ELSE 0
             /\ \A i \in 1 .. Len(slice) : m + i \in 1 .. Len(s) /\ slice[i] = s[m + i]
<1> DEFINE slice == SubSeq(s, m + 1, n)
<1>1. \A k \in m + 1 .. n : s[k] \in S
  OBVIOUS
<1>2. /\ slice \in Seq(S)
      /\ Len(slice) = IF m + 1 <= n THEN n - (m + 1) + 1 ELSE 0
      /\ \A i \in 1 .. n - (m + 1) + 1 : slice[i] = s[(m + 1) + i - 1]
  BY <1>1, SubSeqProperties
<1> HIDE DEF slice
<1>3. Len(slice) = IF m < n THEN n - m ELSE 0
  BY <1>2
<1>4. ASSUME NEW i \in 1 .. Len(slice)
      PROVE  m + i \in 1 .. Len(s) /\ slice[i] = s[m + i]
  <2>1. i \in 1 .. n - (m + 1) + 1 /\ (m + 1) + i - 1 = m + i /\ m + i \in 1 .. n
    BY <1>3
  <2>2. QED
    BY <1>2, <2>1
<1>5. QED
  BY <1>2, <1>3, <1>4 DEF slice

\* A page is a part of the answer, and what it shows are tickets that exist.
LEMMA PageTyped ==
  ASSUME Typed, FetchPage
  PROVE  LET answer == Answer(poll.since)
             offset == poll.offset + PageSize
             page == SubSeq(answer, poll.offset + 1, Min({offset, Len(answer)}))
             items == [i \in DOMAIN page |-> [ticket |-> page[i], content |-> modified[page[i]]]]
             last == IF offset < Len(answer) THEN offset ELSE Len(answer)
         IN  /\ offset \in Nat /\ offset > poll.offset
             /\ Len(page) \in Nat /\ Len(page) = IF poll.offset < last THEN last - poll.offset ELSE 0
             /\ \A i \in 1 .. Len(page) :
                  /\ page[i] = answer[poll.offset + i]
                  /\ page[i] \in Listed(poll.since)
             /\ items \in Seq(Items) /\ Len(items) = Len(page)
             /\ \A i \in 1 .. Len(page) :
                  items[i] = [ticket |-> page[i], content |-> modified[page[i]]]
<1> DEFINE answer == Answer(poll.since)
           offset == poll.offset + PageSize
           last == IF offset < Len(answer) THEN offset ELSE Len(answer)
           page == SubSeq(answer, poll.offset + 1, Min({offset, Len(answer)}))
           items == [i \in DOMAIN page |-> [ticket |-> page[i], content |-> modified[page[i]]]]
<1>1. /\ answer \in Seq(Tickets) /\ Len(answer) \in Nat
      /\ \A k \in 1 .. Len(answer) : answer[k] \in Listed(poll.since)
  <2>1. modified \in [Tickets -> Nat]
    BY Lengths DEF Typed, TypeOK
  <2>2. QED
    BY <2>1, AnswerLists
<1>2. poll.offset \in Nat /\ offset \in Nat /\ offset > poll.offset
  BY Lengths DEF Typed, PollTyped
<1> HIDE DEF answer
<1>3. last \in Nat /\ last <= Len(answer)
  BY <1>1, <1>2
<1>4. page = SubSeq(answer, poll.offset + 1, last)
  <2>1. Min({offset, Len(answer)}) = last
    <3> HIDE DEF offset
    <3> QED BY <1>1, <1>2, LesserOfTwo
  <2>2. QED
    BY <2>1
<1> DEFINE m == poll.offset
<1> HIDE DEF page, last, offset, m
<1>5. /\ page \in Seq(Tickets)
      /\ Len(page) = IF poll.offset < last THEN last - poll.offset ELSE 0
      /\ \A i \in 1 .. Len(page) : poll.offset + i \in 1 .. Len(answer)
                                  /\ page[i] = answer[poll.offset + i]
  <2>1. m \in Nat /\ page = SubSeq(answer, m + 1, last)
    BY <1>2, <1>4 DEF m
  <2>2. /\ page \in Seq(Tickets)
        /\ Len(page) = IF m < last THEN last - m ELSE 0
        /\ \A i \in 1 .. Len(page) : m + i \in 1 .. Len(answer) /\ page[i] = answer[m + i]
    BY <1>1, <1>3, <2>1, Slice
  <2>3. QED
    BY <2>2 DEF m
<1>6. Len(page) \in Nat /\ DOMAIN page = 1 .. Len(page)
  BY <1>5
<1>7. \A i \in 1 .. Len(page) : page[i] \in Listed(poll.since)
  BY <1>1, <1>5
<1>8. \A t \in Listed(poll.since) : t \in Tickets /\ modified[t] \in Seconds
  BY Lengths DEF Listed, Typed, TypeOK, Stamped, Seconds
<1>9. /\ items \in Seq(Items) /\ Len(items) = Len(page)
      /\ \A i \in 1 .. Len(page) :
           items[i] = [ticket |-> page[i], content |-> modified[page[i]]]
  <2>1. \A i \in 1 .. Len(page) : [ticket |-> page[i], content |-> modified[page[i]]] \in Items
    BY <1>7, <1>8 DEF Items
  <2>2. items = [i \in 1 .. Len(page) |-> [ticket |-> page[i], content |-> modified[page[i]]]]
    BY <1>6
  <2>3. QED
    BY <1>6, <2>1, <2>2
<1>10. QED
  BY <1>2, <1>5, <1>6, <1>7, <1>9 DEF answer, page, last, offset

LEMMA FetchPageTyped ==
  ASSUME Typed, FetchPage
  PROVE  Typed'
<1> USE DEF Typed
<1> DEFINE answer == Answer(poll.since)
           offset == poll.offset + PageSize
           page == SubSeq(answer, poll.offset + 1, Min({offset, Len(answer)}))
           items == [i \in DOMAIN page |-> [ticket |-> page[i], content |-> modified[page[i]]]]
<1>1. /\ items \in Seq(Items) /\ offset \in Nat
      /\ \A i \in 1 .. Len(items) : modified[items[i].ticket] # 0
  <2>1. /\ items \in Seq(Items) /\ offset \in Nat /\ Len(items) = Len(page)
        /\ \A i \in 1 .. Len(page) : page[i] \in Listed(poll.since)
        /\ \A i \in 1 .. Len(page) :
             items[i] = [ticket |-> page[i], content |-> modified[page[i]]]
    BY PageTyped
  <2>2. \A t \in Listed(poll.since) : modified[t] # 0
    BY DEF Listed, Stamped
  <2> HIDE DEF items, page
  <2>3. ASSUME NEW i \in 1 .. Len(items) PROVE modified[items[i].ticket] # 0
    <3>1. i \in 1 .. Len(page)
      BY <2>1
    <3>2. items[i] = [ticket |-> page[i], content |-> modified[page[i]]]
      BY <2>1, <3>1
    <3>3. page[i] \in Listed(poll.since)
      BY <2>1, <3>1
    <3>4. QED
      BY <2>2, <3>2, <3>3
  <2>4. QED
    BY <2>1, <2>3
<1>2. poll' = [poll EXCEPT !.offset = IF LastPage(page, offset) THEN 0 ELSE offset,
                           !.found = @ \o items,
                           !.step = IF LastPage(page, offset) THEN "reading" ELSE "paging"]
  BY DEF FetchPage
<1> HIDE DEF items, offset, page
<1>3. PollTyped'
  <2>1. poll.found \o items \in Seq(Items)
    BY <1>1, ConcatProperties DEF PollTyped
  <2> DEFINE found == poll.found \o items
             offset2 == IF LastPage(page, offset) THEN 0 ELSE offset
             step == IF LastPage(page, offset) THEN "reading" ELSE "paging"
  <2>2. found \in Seq(Items) /\ offset2 \in Nat /\ step \in {"reading", "paging"}
    BY <1>1, <2>1
  <2>3. poll' = [poll EXCEPT !.offset = offset2, !.found = found, !.step = step]
    BY <1>2
  <2> HIDE DEF found, offset2, step
  <2>4. QED
    BY <2>2, <2>3 DEF PollTyped
<1>4. TypeOK'
  <2>1. /\ poll'.since = poll.since /\ poll'.newest = poll.newest
        /\ UNCHANGED <<clock, created, modified, config, ready, cursor, tasks, requests,
                       failures, switches>>
        /\ read' \in BOOLEAN
    BY <1>2 DEF FetchPage, PollTyped, source
  <2>2. QED
    BY <1>3, <2>1 DEF TypeOK, PollTyped
<1>5. ItemsExist'
  <2>1. poll'.found = poll.found \o items /\ modified' = modified
    BY <1>2 DEF FetchPage, source, PollTyped
  <2>2. \A i \in 1 .. Len(poll.found \o items) :
          modified[(poll.found \o items)[i].ticket] # 0
    BY <1>1, ConcatProperties DEF PollTyped, ItemsExist
  <2>3. QED
    BY <2>1, <2>2, <1>1, ConcatProperties DEF ItemsExist, PollTyped
<1>6. QED
  BY <1>3, <1>4, <1>5 DEF FetchPage, Stamped, RequestsTyped, source

\* What is read next: a ticket that exists, with the second of a change.
LEMMA NextItem ==
  ASSUME Typed, poll.found # << >>
  PROVE  /\ Head(poll.found) \in Items /\ Head(poll.found) = poll.found[1]
         /\ 1 \in DOMAIN poll.found
         /\ Detail(Head(poll.found)) \in Items
         /\ Detail(Head(poll.found)).ticket = Head(poll.found).ticket
         /\ Tail(poll.found) \in Seq(Items)
         /\ \A i \in DOMAIN Tail(poll.found) :
              i + 1 \in DOMAIN poll.found /\ Tail(poll.found)[i] = poll.found[i + 1]
         /\ \A i \in DOMAIN poll.found : i = 1 \/ i - 1 \in DOMAIN Tail(poll.found)
<1>1. poll.found \in Seq(Items)
  BY DEF Typed, PollTyped
<1> DEFINE found == poll.found
<1> HIDE DEF found
<1>2. /\ Head(found) \in Items /\ Head(found) = found[1] /\ 1 \in DOMAIN found
      /\ Tail(found) \in Seq(Items) /\ Len(Tail(found)) = Len(found) - 1 /\ Len(found) \in Nat
      /\ \A i \in 1 .. Len(Tail(found)) : Tail(found)[i] = found[i + 1]
  <2>1. found \in Seq(Items) /\ found # << >>
    BY <1>1 DEF found
  <2>2. QED
    BY <2>1, HeadTailProperties
<1>3. modified[found[1].ticket] \in Seconds
  <2>1. modified[found[1].ticket] # 0 /\ found[1].ticket \in Tickets
    BY <1>2 DEF Typed, ItemsExist, found, Items
  <2>2. modified[found[1].ticket] \in 0 .. MaxTime
    BY <2>1 DEF Typed, TypeOK
  <2>3. QED
    BY <2>1, <2>2, Lengths DEF Seconds
<1>4. Detail(Head(found)) \in Items /\ Detail(Head(found)).ticket = Head(found).ticket
  BY <1>2, <1>3 DEF Detail, Items
<1>5. /\ \A i \in DOMAIN Tail(found) : i + 1 \in DOMAIN found /\ Tail(found)[i] = found[i + 1]
      /\ \A i \in DOMAIN found : i = 1 \/ i - 1 \in DOMAIN Tail(found)
  <2>1. DOMAIN Tail(found) = 1 .. Len(found) - 1 /\ DOMAIN found = 1 .. Len(found)
    BY <1>1, <1>2 DEF found
  <2>2. QED
    BY <1>2, <2>1
<1>6. QED
  BY <1>2, <1>4, <1>5 DEF found

LEMMA ReadTicketTyped ==
  ASSUME Typed, ReadTicket
  PROVE  Typed'
<1> USE DEF Typed
<1> DEFINE item == Detail(Head(poll.found))
           batch == IF After(item.content, poll.since) THEN Append(poll.batch, item) ELSE poll.batch
           newest == IF After(item.content, poll.since) /\ After(item.content, poll.newest)
                     THEN [own |-> FALSE, at |-> item.content] ELSE poll.newest
<1>1. item \in Items /\ Tail(poll.found) \in Seq(Items)
  BY NextItem DEF ReadTicket
<1>2. poll' = [poll EXCEPT !.found = Tail(poll.found), !.batch = batch, !.newest = newest]
  BY DEF ReadTicket, PollTyped
<1> HIDE DEF item
<1>3. batch \in Seq(Items)
  BY <1>1, AppendProperties DEF PollTyped
<1>4. newest \in Cursors
  BY <1>1, Lengths DEF PollTyped, Cursors, Items, Seconds
<1> HIDE DEF batch, newest
<1>5. PollTyped'
  BY <1>1, <1>2, <1>3, <1>4 DEF PollTyped
<1>6. /\ poll'.since = poll.since /\ poll'.newest = newest /\ poll'.step = "reading"
      /\ UNCHANGED <<clock, created, modified, config, ready, cursor, tasks, requests, failures,
                     switches, read>>
  BY <1>2 DEF ReadTicket, PollTyped, source
<1>7. TypeOK'
  BY <1>5, <1>6 DEF TypeOK, PollTyped
<1>8. ItemsExist'
  <2>1. poll'.found = Tail(poll.found)
    BY <1>2 DEF PollTyped
  <2>2. \A i \in DOMAIN Tail(poll.found) : modified[Tail(poll.found)[i].ticket] # 0
    BY NextItem DEF ReadTicket, ItemsExist
  <2>3. QED
    BY <1>6, <2>1, <2>2 DEF ItemsExist
<1>9. QED
  BY <1>5, <1>6, <1>7, <1>8 DEF Stamped, RequestsTyped

\* What is ingested next.
LEMMA NextIngested ==
  ASSUME Typed, poll.batch # << >>
  PROVE  /\ Head(poll.batch) \in Items /\ Head(poll.batch) = poll.batch[1]
         /\ 1 \in DOMAIN poll.batch
         /\ Tail(poll.batch) \in Seq(Items)
         /\ \A i \in DOMAIN Tail(poll.batch) :
              i + 1 \in DOMAIN poll.batch /\ Tail(poll.batch)[i] = poll.batch[i + 1]
         /\ \A i \in DOMAIN poll.batch : i = 1 \/ i - 1 \in DOMAIN Tail(poll.batch)
<1>1. poll.batch \in Seq(Items)
  BY DEF Typed, PollTyped
<1> DEFINE batch == poll.batch
<1> HIDE DEF batch
<1>2. batch \in Seq(Items) /\ batch # << >>
  BY <1>1 DEF batch
<1>3. /\ Head(batch) \in Items /\ Head(batch) = batch[1] /\ Len(batch) \in Nat
      /\ Tail(batch) \in Seq(Items) /\ Len(Tail(batch)) = Len(batch) - 1
      /\ \A i \in 1 .. Len(Tail(batch)) : Tail(batch)[i] = batch[i + 1]
  BY <1>2, HeadTailProperties
<1>4. DOMAIN Tail(batch) = 1 .. Len(batch) - 1 /\ DOMAIN batch = 1 .. Len(batch) /\ Len(batch) # 0
  BY <1>2, <1>3
<1>5. /\ \A i \in DOMAIN Tail(batch) : i + 1 \in DOMAIN batch /\ Tail(batch)[i] = batch[i + 1]
      /\ \A i \in DOMAIN batch : i = 1 \/ i - 1 \in DOMAIN Tail(batch)
      /\ 1 \in DOMAIN batch
  BY <1>3, <1>4
<1>6. QED
  BY <1>3, <1>5 DEF batch

\* A ticket that is ingested is bound to the project it is routed to, or stays with the
\* one it was bound to; it stays where it is if nothing changed.
LEMMA Ingested ==
  ASSUME Typed, IngestTicket
  PROVE  LET item == Head(poll.batch)
             project == Route(item.ticket, poll.projects)
         IN  /\ item \in Items /\ project \in Projects \cup {None, Ignored}
             /\ project = Ignored => tasks' = tasks
             /\ project # Ignored =>
                  \E binding \in {project, tasks[item.ticket].project} :
                    /\ tasks' = [tasks EXCEPT ![item.ticket] =
                                   [content |-> item.content, project |-> binding]]
                    /\ binding \in Projects \cup {None}
                    /\ project \in Projects => binding \in Projects
<1> DEFINE item == Head(poll.batch)
           project == Route(item.ticket, poll.projects)
<1>1. item \in Items
  BY NextIngested DEF IngestTicket
<1>2. project \in Projects \cup {None, Ignored}
  BY <1>1, Routed DEF Items, Typed, PollTyped, TypeOK
<1>3. project = Ignored => tasks' = tasks
  BY DEF IngestTicket
<1>4. project # Ignored =>
        \E binding \in Bindings(tasks[item.ticket], item.content, project) :
          tasks' = [tasks EXCEPT ![item.ticket] =
                      [content |-> item.content, project |-> binding]]
  BY DEF IngestTicket
<1>5. tasks[item.ticket].project \in Projects \cup {None}
  BY <1>1 DEF Items, Typed, TypeOK
<1> HIDE DEF item, project
<1>6. \A binding \in Bindings(tasks[item.ticket], item.content, project) :
        \/ binding = project
        \/ binding = tasks[item.ticket].project /\ tasks[item.ticket].project # None
  BY DEF Bindings
<1>7. QED
  BY <1>1, <1>2, <1>3, <1>4, <1>5, <1>6 DEF item, project

LEMMA IngestTicketTyped ==
  ASSUME Typed, IngestTicket
  PROVE  Typed'
<1> USE DEF Typed
<1> DEFINE item == Head(poll.batch)
<1>1. item \in Items /\ Tail(poll.batch) \in Seq(Items)
  BY NextIngested DEF IngestTicket
<1>2. \/ tasks' = tasks
      \/ \E binding \in Projects \cup {None} :
           tasks' = [tasks EXCEPT ![item.ticket] =
                       [content |-> item.content, project |-> binding]]
  BY Ingested
<1>3. poll' = [poll EXCEPT !.batch = Tail(poll.batch)]
  BY DEF IngestTicket, PollTyped
<1> HIDE DEF item
<1>4. tasks' \in [Tickets -> [content : 0 .. MaxTime, project : Projects \cup {None}]]
  <2>1. item.ticket \in Tickets /\ item.content \in 0 .. MaxTime
    BY <1>1, Lengths DEF Items, Seconds
  <2> DEFINE Tasks == [content : 0 .. MaxTime, project : Projects \cup {None}]
  <2>2. tasks \in [Tickets -> Tasks]
    BY DEF TypeOK
  <2>3. \A binding \in Projects \cup {None} :
          [content |-> item.content, project |-> binding] \in Tasks
    BY <2>1
  <2> HIDE DEF Tasks
  <2>4. tasks' \in [Tickets -> Tasks]
    BY <1>2, <2>1, <2>2, <2>3
  <2>5. QED
    BY <2>4 DEF Tasks
<1>5. PollTyped'
  BY <1>1, <1>3 DEF PollTyped
<1>6. /\ poll'.since = poll.since /\ poll'.newest = poll.newest /\ poll'.step = poll.step
      /\ poll'.found = poll.found
      /\ UNCHANGED <<clock, created, modified, config, ready, cursor, requests, failures,
                     switches, read>>
  BY <1>3 DEF IngestTicket, PollTyped, source
<1>7. TypeOK'
  BY <1>4, <1>5, <1>6 DEF TypeOK, PollTyped
<1>8. QED
  BY <1>5, <1>6, <1>7 DEF Stamped, RequestsTyped, ItemsExist

LEMMA PollEndTyped ==
  ASSUME Typed, EndPoll \/ PollFails
  PROVE  Typed'
<1> USE DEF Typed
<1>1. Idle \in [step : {"idle", "due", "paging", "reading"}, since : Cursors, newest : Cursors,
                projects : Settings, offset : Nat, found : Seq(Items), batch : Seq(Items)]
  BY Lengths DEF Idle, Cursors, NoCursor, Settings
<1>2. poll' = Idle /\ Idle.step = "idle" /\ Idle.found = << >>
      /\ UNCHANGED <<clock, created, modified, config, ready, tasks, requests, switches, read>>
  BY DEF EndPoll, PollFails, source, Idle
<1>3. cursor' \in Cursors /\ failures' \in 0 .. MaxFailures
  BY Numbers DEF EndPoll, PollFails, PollTyped, TypeOK
<1>4. PollTyped'
  BY <1>1, <1>2 DEF PollTyped
<1>5. TypeOK'
  BY <1>2, <1>3, <1>4 DEF TypeOK, PollTyped
<1>6. QED
  BY <1>2, <1>4, <1>5 DEF Stamped, RequestsTyped, ItemsExist

\* What a step of a request changes: its own record, and that is well formed.
LEMMA RequestStep ==
  ASSUME Typed, NEW c \in Clients,
         Respond(c) \/ RequestFails(c) \/ \E p \in Projects : Request(c, p)
  PROVE  /\ requests' = [requests EXCEPT ![c] = requests'[c]]
         /\ requests'[c] \in [step : {"idle", "asked", "cursor", "health"},
                              project : Projects \cup {None}, on : BOOLEAN, at : 0 .. MaxTime]
         /\ requests'[c].step = "idle" => requests'[c] = NoRequest
         /\ requests'[c].step # "idle" =>
              requests'[c].project \in Projects /\ requests'[c].at \in Seconds
         /\ requests'[c].step \in {"cursor", "health"} => requests'[c].on
<1> USE DEF Typed
<1> DEFINE Records == [step : {"idle", "asked", "cursor", "health"},
                       project : Projects \cup {None}, on : BOOLEAN, at : 0 .. MaxTime]
           WellFormed(r) == /\ r \in Records
                            /\ r.step = "idle" => r = NoRequest
                            /\ r.step # "idle" => r.project \in Projects /\ r.at \in Seconds
                            /\ r.step \in {"cursor", "health"} => r.on
<1>1. requests \in [Clients -> Records] /\ requests[c] \in Records /\ WellFormed(requests[c])
  BY DEF TypeOK, RequestsTyped
<1>2. WellFormed(NoRequest)
  BY Lengths DEF NoRequest
<1>3. ASSUME NEW r, WellFormed(r), requests' = [requests EXCEPT ![c] = r]
      PROVE  /\ requests' = [requests EXCEPT ![c] = requests'[c]]
             /\ WellFormed(requests'[c])
  BY <1>1, <1>3
<1>4. CASE \E p \in Projects : Request(c, p)
  <2>1. PICK p \in Projects : Request(c, p)
    BY <1>4
  <2> DEFINE r == [step |-> "asked", project |-> p, on |-> ~ config[p].enabled,
                   at |-> IF config[p].enabled THEN config[p].intake ELSE clock]
  <2>2. requests' = [requests EXCEPT ![c] = r]
    BY <2>1 DEF Request
  <2>3. r.at \in Seconds /\ Seconds \subseteq 0 .. MaxTime
    BY Lengths DEF TypeOK, Seconds
  <2>4. WellFormed(r)
    BY <2>3 DEF TypeOK
  <2> HIDE DEF r, WellFormed
  <2>5. QED
    BY <1>3, <2>2, <2>4 DEF WellFormed
<1>5. CASE WriteConfig(c)
  <2> DEFINE step == IF Enabled(config) \ {requests[c].project} = {} THEN "cursor" ELSE "health"
             r == IF ~ requests[c].on THEN NoRequest ELSE [requests[c] EXCEPT !.step = step]
  <2>1. requests' = [requests EXCEPT ![c] = r]
    BY <1>5 DEF WriteConfig
  <2>2. requests[c].on => WellFormed([requests[c] EXCEPT !.step = step])
    BY <1>1, <1>5 DEF WriteConfig
  <2>3. WellFormed(r)
    BY <1>2, <2>2
  <2> HIDE DEF r, WellFormed
  <2>4. QED
    BY <1>3, <2>1, <2>3 DEF WellFormed
<1>6. CASE WriteCursor(c)
  <2> DEFINE r == [requests[c] EXCEPT !.step = "health"]
  <2>1. requests' = [requests EXCEPT ![c] = r]
    BY <1>1, <1>6 DEF WriteCursor
  <2>2. WellFormed(r)
    BY <1>1, <1>6 DEF WriteCursor
  <2> HIDE DEF r, WellFormed
  <2>3. QED
    BY <1>3, <2>1, <2>2 DEF WellFormed
<1>7. CASE SaveHealth(c) \/ RequestFails(c)
  <2>1. requests' = [requests EXCEPT ![c] = NoRequest]
    BY <1>7 DEF SaveHealth, RequestFails
  <2> HIDE DEF WellFormed
  <2>2. QED
    BY <1>2, <1>3, <2>1 DEF WellFormed
<1>8. QED
  BY <1>4, <1>5, <1>6, <1>7 DEF Respond

LEMMA RequestTyped ==
  ASSUME Typed, NEW c \in Clients,
         Respond(c) \/ RequestFails(c) \/ \E p \in Projects : Request(c, p)
  PROVE  Typed'
<1> USE DEF Typed
<1>1. /\ UNCHANGED <<clock, created, modified, poll, tasks, read>>
      /\ requests[c] # NoRequest => requests[c].project \in Projects /\ requests[c].at \in Seconds
  BY DEF Respond, WriteConfig, WriteCursor, SaveHealth, RequestFails, Request, source,
         RequestsTyped
<1>2. config' \in [Projects -> [enabled : BOOLEAN, intake : Seconds]]
  <2>1. CASE WriteConfig(c)
    <3>1. /\ config' = [config EXCEPT ![requests[c].project] =
                          [enabled |-> requests[c].on, intake |-> requests[c].at]]
          /\ requests[c].project \in Projects /\ requests[c].at \in Seconds
      BY <2>1 DEF WriteConfig, RequestsTyped
    <3>2. requests[c].on \in BOOLEAN
      BY DEF TypeOK
    <3>3. QED
      BY <3>1, <3>2 DEF TypeOK
  <2>2. CASE ~ WriteConfig(c)
    BY <2>2 DEF Respond, WriteCursor, SaveHealth, RequestFails, Request, TypeOK
  <2>3. QED
    BY <2>1, <2>2
<1>3. cursor' \in Cursors
  <2>1. [own |-> TRUE, at |-> requests[c].at] \in Cursors
    BY DEF TypeOK, Cursors
  <2>2. cursor' = cursor \/ cursor' = [own |-> TRUE, at |-> requests[c].at]
    BY DEF Respond, WriteConfig, WriteCursor, SaveHealth, RequestFails, Request
  <2>3. QED
    BY <2>1, <2>2 DEF TypeOK
<1>4. ready' \in [Projects -> BOOLEAN]
  BY DEF Respond, WriteConfig, WriteCursor, SaveHealth, RequestFails, Request, TypeOK
<1>5. failures' \in 0 .. MaxFailures /\ switches' \in 0 .. MaxSwitches
  BY Numbers DEF Respond, WriteConfig, WriteCursor, SaveHealth, RequestFails, Request,
     TypeOK
<1>6. /\ requests' \in [Clients -> [step : {"idle", "asked", "cursor", "health"},
                                   project : Projects \cup {None}, on : BOOLEAN,
                                   at : 0 .. MaxTime]]
      /\ RequestsTyped'
  <2> DEFINE Records == [step : {"idle", "asked", "cursor", "health"},
                         project : Projects \cup {None}, on : BOOLEAN, at : 0 .. MaxTime]
             r == requests'[c]
  <2>1. requests \in [Clients -> Records]
    BY DEF TypeOK
  <2>2. /\ requests' = [requests EXCEPT ![c] = r] /\ r \in Records
        /\ r.step = "idle" => r = NoRequest
        /\ r.step # "idle" => r.project \in Projects /\ r.at \in Seconds
        /\ r.step \in {"cursor", "health"} => r.on
    BY RequestStep
  <2> HIDE DEF Records, r
  <2>3. /\ requests' \in [Clients -> Records]
        /\ \A d \in Clients : requests'[d] = IF d = c THEN r ELSE requests[d]
    BY <2>1, <2>2
  <2>4. RequestsTyped'
    BY <2>2, <2>3 DEF RequestsTyped
  <2>5. QED
    BY <2>3, <2>4 DEF Records
<1>7. TypeOK'
  BY <1>1, <1>2, <1>3, <1>4, <1>5, <1>6 DEF TypeOK
<1>8. QED
  BY <1>1, <1>6, <1>7 DEF PollTyped, Stamped, ItemsExist

LEMMA StepTyped == Typed /\ [Next]_vars => Typed'
<1> SUFFICES ASSUME Typed, [Next]_vars PROVE Typed'
  OBVIOUS
<1>1. CASE Tick \/ \E t \in Tickets : Create(t) \/ Edit(t)
  BY <1>1, SourceTyped
<1>2. CASE DecidePoll \/ \E p \in Projects, healthy \in BOOLEAN : CheckHealth(p, healthy)
  BY <1>2, SchedulerTyped
<1>3. CASE BeginPoll
  BY <1>3, BeginPollTyped
<1>4. CASE Poll
  BY <1>4, FetchPageTyped, ReadTicketTyped, IngestTicketTyped, PollEndTyped DEF Poll
<1>5. CASE PollFails
  BY <1>5, PollEndTyped
<1>6. CASE \E c \in Clients : Respond(c) \/ RequestFails(c) \/ \E p \in Projects : Request(c, p)
  BY <1>6, RequestTyped
<1>7. CASE UNCHANGED vars
  BY <1>7 DEF vars, source, Typed, TypeOK, PollTyped, Stamped, RequestsTyped, ItemsExist
<1>8. QED
  BY <1>1, <1>2, <1>3, <1>4, <1>5, <1>6, <1>7 DEF Next

\* The variables have their types, for both sources, and beyond TypeOK: the poll
\* keeps a copy of settings, a page shows only tickets that exist, no ticket is changed
\* before it is created or in the future, and a request in flight is of a project.
THEOREM IntakeTypes == Spec => [](TypeOK /\ Typed)
<1>1. Typed => TypeOK
  BY DEF Typed
<1>2. QED
  BY <1>1, InitTyped, StepTyped, PTL DEF Spec

---------------------------------------------------------------------------
(***************************************************************************)
(* The invariant behind CursorCovers.                                      *)
(***************************************************************************)
\* A ticket is new to a poll when its last change is not below the bar.
Bar(c) == IF ~ c.own THEN c.at + 1
          ELSE IF Format = "redmine" THEN c.at ELSE DayLength * Day(c.at) + DayLength

\* A second in which no ticket changes any more.
Past(second) == second < clock \/ (second = clock /\ read)

\* A pipeline takes the tickets that are created after this second, or will once
\* the request in flight is done.
Starts(p, start) ==
  \/ config[p].enabled /\ config[p].intake = start
  \/ \E c \in Clients : Enabling(c) /\ requests[c].project = p /\ requests[c].at = start

\* No entitled ticket that changes from now on is passed over for the cursor c: it
\* is a second that is over, or no later than the pipelines began.
NotAhead(c) ==
  IF c.own
  THEN /\ c.at <= clock
       /\ \A p \in Projects, start \in Seconds : Starts(p, start) => c.at <= start
  ELSE Past(c.at)

CursorsNotAhead == NotAhead(cursor) /\ NotAhead(poll.since) /\ NotAhead(poll.newest)

\* One request at a time, and none where nobody switches projects.  No pipeline
\* starts in the future, and the one that writes the cursor is the only one there is.
RequestsApart ==
  /\ \A c, d \in Clients : requests[c] # NoRequest /\ requests[d] # NoRequest => c = d
  /\ \A c \in Clients : requests[c].at <= clock
  /\ \A c \in Clients, p \in Projects :
       requests[c].step = "cursor" /\ config[p].enabled => config[p].intake = requests[c].at
  /\ MaxSwitches = 0 => \A c \in Clients : requests[c] = NoRequest
  /\ \A p \in Projects : config[p].intake <= clock

Reads == poll.step \in {"paging", "reading"}

\* A poll that reads knows every pipeline that is enabled and will not miss one.
PollKnows ==
  Reads =>
    /\ \A c \in Clients : ~ Enabling(c)
    /\ \A p \in Projects : config[p].enabled => poll.projects[p] = config[p]
    /\ MaxSwitches = 0 => poll.projects = config

\* In TAPD's case the cursor knows days only.
Later(second, start) == Format = "tapd" => Day(second) > Day(start)

\* A ticket that is wanted, or will be once the request in flight is done, and was
\* not changed on the first day.  Where projects are switched, the one that it passes
\* and matches takes it.
Entitled(t) ==
  /\ created[t] # 0
  /\ \E p \in Projects, start \in Seconds :
       /\ Starts(p, start)
       /\ created[t] > start
       /\ Later(modified[t], start)
       /\ IF MaxSwitches = 0 THEN Route(t, config) = p
                             ELSE t \in Filtered[p] \cap Conditioned[p]

Covered(c) == \A t \in Tickets : Entitled(t) /\ ~ After(modified[t], c) => Arrived(t)
Unpassed(c) == \A t \in Tickets : Entitled(t) => After(modified[t], c)

\* Changed after everything that the poll has in hand and that moves its cursor.
Newer(t) ==
  /\ modified[t] # 0
  /\ After(modified[t], poll.newest)
  /\ \A i \in DOMAIN poll.found : poll.found[i].content < modified[t]

\* What the poll has found or read of a ticket is its content, or the ticket has
\* changed since.  What is found is over, and only TAPD's tickets change before they
\* are read.
Fresh(t, content) == content = modified[t] \/ (Entitled(t) => Newer(t))

FoundHolds ==
  \A i \in DOMAIN poll.found, t \in Tickets : poll.found[i].ticket = t =>
    /\ Fresh(t, poll.found[i].content) /\ Past(poll.found[i].content)
    /\ Format = "redmine" \/ poll.step = "paging" => poll.found[i].content = modified[t]

BatchHolds ==
  \A i \in DOMAIN poll.batch, t \in Tickets :
    poll.batch[i].ticket = t => Fresh(t, poll.batch[i].content)

\* The parts of a poll that the step it is in does not have.
StepsHold ==
  /\ poll.step \in {"idle", "due"} => poll.found = << >>
  /\ poll.step # "reading" => poll.batch = << >>
  /\ poll.step = "paging" => poll.newest = poll.since
  /\ Bar(poll.since) <= Bar(poll.newest)

\* The pages that were fetched are a prefix of the answer.
PagesHold ==
  poll.step = "paging" =>
    /\ poll.offset <= Len(Answer(poll.since))
    /\ \A k \in 1 .. Len(Answer(poll.since)) :
         k <= poll.offset =>
           \E i \in DOMAIN poll.found : poll.found[i].ticket = Answer(poll.since)[k]

\* A poll that reads forgets no entitled ticket: its task is current, it is yet
\* to be read or ingested, or the next poll will see it.
NothingForgotten ==
  poll.step = "reading" =>
    \A t \in Tickets : Entitled(t) =>
      \/ Arrived(t)
      \/ \E i \in DOMAIN poll.found : poll.found[i].ticket = t
      \/ \E i \in DOMAIN poll.batch : poll.batch[i] = [ticket |-> t, content |-> modified[t]]
      \/ Newer(t)

\* The cursor passes nobody; neither did the one the poll started from, and a
\* request that replaced it meanwhile passes no entitled ticket at all.
CursorsCover ==
  /\ Covered(cursor)
  /\ Reads => Covered(poll.since) /\ (cursor = poll.since \/ Unpassed(cursor))

CoverInv ==
  /\ CursorsNotAhead /\ RequestsApart /\ PollKnows
  /\ FoundHolds /\ BatchHolds /\ StepsHold /\ PagesHold
  /\ NothingForgotten /\ CursorsCover

---------------------------------------------------------------------------
(***************************************************************************)
(* What the theorem asks for: a source that is quiet where a poll looks    *)
(* away; polls that find the enabled pipelines healthy; and either nobody  *)
(* who enables or disables pipelines, or one who does so at a time, not    *)
(* during a poll, with pipelines no two of which take the same ticket.     *)
(***************************************************************************)
QuietSource ==
  "seconds" \in Quiet /\ (IF Format = "redmine" THEN "listed" ELSE "pages") \in Quiet

NoContest ==
  /\ "health" \in Apart
  /\ \/ MaxSwitches = 0
     \/ /\ {"requests", "polls"} \subseteq Apart
        /\ \A p, q \in Projects :
             p # q => Filtered[p] \cap Conditioned[p] \cap Filtered[q] \cap Conditioned[q] = {}

LEMMA Bars ==
  ASSUME NEW c \in Cursors
  PROVE  /\ Bar(c) \in Nat /\ c.at \in Nat /\ c.at <= Bar(c)
         /\ \A s \in Seconds : After(s, c) <=> s >= Bar(c)
<1>1. c.own \in BOOLEAN /\ c.at \in Nat /\ DayLength \in Nat \ {0}
  BY Lengths DEF Cursors
<1>2. Day(c.at) \in Nat /\ c.at < DayLength * Day(c.at) + DayLength
  BY <1>1, Quotient DEF Day
<1>3. DayLength * Day(c.at) + DayLength \in Nat
  BY <1>1, <1>2
<1>4. Bar(c) \in Nat /\ c.at <= Bar(c)
  BY <1>1, <1>2, <1>3 DEF Bar
<1>5. ASSUME NEW s \in Seconds PROVE After(s, c) <=> s >= Bar(c)
  <2>1. s \in Nat /\ s > 0
    BY Lengths DEF Seconds
  <2>2. CASE c = NoCursor
    BY <2>1, <2>2 DEF After, Bar, NoCursor
  <2>3. CASE c # NoCursor /\ ~ c.own
    <3>1. After(s, c) <=> s > c.at
      BY <2>3 DEF After
    <3>2. QED
      BY <1>1, <2>1, <2>3, <3>1 DEF Bar
  <2>4. CASE c.own /\ Format = "redmine"
    <3>1. c # NoCursor
      BY <2>4 DEF NoCursor
    <3>2. After(s, c) <=> s >= c.at
      BY <2>4, <3>1 DEF After
    <3>3. QED
      BY <2>4, <3>2 DEF Bar
  <2>5. CASE c.own /\ Format = "tapd"
    <3>1. c # NoCursor
      BY <2>5 DEF NoCursor
    <3>2. After(s, c) <=> Day(s) > Day(c.at)
      BY <2>5, <3>1 DEF After
    <3>3. Day(s) > Day(c.at) <=> s >= DayLength * Day(c.at) + DayLength
      BY <1>1, <1>2, <2>1, QuotientBound DEF Day
    <3>4. QED
      BY <2>5, <3>2, <3>3 DEF Bar
  <2>6. QED
    BY <1>1, <2>2, <2>3, <2>4, <2>5, Formats
<1>6. QED
  BY <1>1, <1>4, <1>5

\* Days follow the seconds.
LEMMA DaysGrow ==
  ASSUME NEW s \in Nat, NEW t \in Nat
  PROVE  Day(s) \in Nat /\ (s <= t => Day(s) <= Day(t))
BY Quotient, QuotientGrows, Lengths DEF Day

\* A ticket that changes after a pipeline's start, on a later day for TAPD, is new
\* to a poll with a cursor of the backend that is no later than the start.
LEMMA ClearsBar ==
  ASSUME NEW c \in Cursors, c.own, NEW second \in Nat, NEW start \in Nat,
         c.at <= start, start <= second, Later(second, start)
  PROVE  second >= Bar(c)
<1>1. c.at \in Nat /\ DayLength \in Nat \ {0}
  BY Bars, Lengths
<1>2. CASE Format = "redmine"
  BY <1>1, <1>2 DEF Bar
<1>3. CASE Format = "tapd"
  <2>1. Day(second) > Day(start) /\ Day(c.at) <= Day(start) /\ Day(c.at) \in Nat
        /\ Day(second) \in Nat /\ Day(start) \in Nat
    BY <1>1, <1>3, DaysGrow DEF Later
  <2>2. second \div DayLength > Day(c.at)
    BY <2>1 DEF Day
  <2>3. second >= DayLength * Day(c.at) + DayLength
    BY <1>1, <2>1, <2>2, QuotientBound
  <2>4. QED
    BY <1>3, <2>3 DEF Bar
<1>4. QED
  BY <1>2, <1>3, Formats

\* The bars of the three cursors, and the seconds of the tickets that exist.
LEMMA BarsOfCursors ==
  ASSUME Typed
  PROVE  /\ {Bar(cursor), Bar(poll.since), Bar(poll.newest)} \subseteq Nat
         /\ clock \in Nat /\ clock > 0
         /\ \A t \in Tickets : created[t] # 0 =>
              /\ modified[t] \in Seconds /\ modified[t] \in Nat /\ created[t] \in Nat
              /\ created[t] <= modified[t] /\ modified[t] <= clock
              /\ After(modified[t], cursor) <=> modified[t] >= Bar(cursor)
              /\ After(modified[t], poll.since) <=> modified[t] >= Bar(poll.since)
              /\ After(modified[t], poll.newest) <=> modified[t] >= Bar(poll.newest)
<1>1. cursor \in Cursors /\ poll.since \in Cursors /\ poll.newest \in Cursors
  BY DEF Typed, TypeOK
<1>2. {Bar(cursor), Bar(poll.since), Bar(poll.newest)} \subseteq Nat
  BY <1>1, Bars
<1>3. clock \in Nat /\ clock > 0
  BY Lengths DEF Typed, TypeOK, Seconds
<1>4. ASSUME NEW t \in Tickets, created[t] # 0
      PROVE  /\ modified[t] \in Seconds /\ modified[t] \in Nat /\ created[t] \in Nat
             /\ created[t] <= modified[t] /\ modified[t] <= clock
  BY <1>4, Lengths DEF Typed, TypeOK, Stamped, Seconds
<1>5. \A t \in Tickets : created[t] # 0 =>
        /\ After(modified[t], cursor) <=> modified[t] >= Bar(cursor)
        /\ After(modified[t], poll.since) <=> modified[t] >= Bar(poll.since)
        /\ After(modified[t], poll.newest) <=> modified[t] >= Bar(poll.newest)
  BY <1>1, <1>4, Bars
<1>6. QED
  BY <1>2, <1>3, <1>4, <1>5

LEMMA WantedEntitled ==
  ASSUME Typed, NEW t \in Tickets, Wanted(t), ~ OnFirstDay(t)
  PROVE  Entitled(t)
<1>1. config \in Settings /\ created \in [Tickets -> 0 .. MaxTime]
  BY Lengths DEF Typed, TypeOK, Settings, Seconds
<1>2. PICK p \in Projects : Route(t, config) = p /\ created[t] # 0
  BY DEF Wanted
<1>3. /\ config[p].enabled /\ t \in Filtered[p] \cap Conditioned[p]
      /\ created[t] > config[p].intake
  BY <1>1, <1>2, Routed
<1>4. Later(modified[t], config[p].intake)
  <2>1. SUFFICES ASSUME Format = "tapd" PROVE Day(modified[t]) > Day(config[p].intake)
    BY DEF Later
  <2>2. config[p].intake \in Nat /\ modified[t] \in Nat /\ config[p].intake <= modified[t]
    <3>1. config[p].intake \in Nat
      BY <1>1, Lengths DEF Settings
    <3>2. created[t] \in Nat /\ modified[t] \in Nat /\ created[t] <= modified[t]
      BY <1>2, BarsOfCursors
    <3>3. QED
      BY <1>3, <3>1, <3>2
  <2>3. Day(modified[t]) # Day(config[p].intake)
    BY <1>2, <2>1 DEF OnFirstDay
  <2>4. QED
    BY <2>2, <2>3, DaysGrow
<1>5. config[p].intake \in Seconds
  BY DEF Typed, TypeOK
<1>6. QED
  BY <1>2, <1>3, <1>4, <1>5 DEF Entitled, Starts

\* The one project that a ticket passes and matches takes it.
LEMMA RoutedAlone ==
  ASSUME NEW t \in Tickets, NEW projects \in Settings, NEW p \in Projects,
         projects[p].enabled, t \in Filtered[p] \cap Conditioned[p],
         \A q \in Projects : t \in Filtered[q] \cap Conditioned[q] => q = p,
         ~ created[t] <= projects[p].intake
  PROVE  Route(t, projects) = p
<1> DEFINE passed == {q \in Enabled(projects) : t \in Filtered[q]}
           candidates == passed \cap {q \in Projects : t \in Conditioned[q]}
           top == {q \in candidates : \A r \in candidates : Priority[r] <= Priority[q]}
<1>1. candidates = {p}
  BY DEF Enabled
<1>2. Priority[p] \in Nat
  BY Rules
<1>3. top = {p}
  BY <1>1, <1>2
<1>4. Cardinality(top) = 1
  <2>1. Cardinality({p}) = 1
    BY FS_Singleton
  <2>2. QED
    BY <1>3, <2>1
<1>5. candidates # {} /\ ~ Cardinality(top) > 1
  BY <1>1, <1>4
<1>6. Route(t, projects) = LET q == CHOOSE q \in top : TRUE
                           IN IF created[t] <= projects[q].intake THEN Ignored ELSE q
  BY <1>5 DEF Route
<1>7. (CHOOSE q \in top : TRUE) = p
  BY <1>3
<1>8. QED
  BY <1>6, <1>7

\* A poll that reads routes whoever is entitled to a project.
LEMMA EntitledRouted ==
  ASSUME Typed, NoContest, RequestsApart, PollKnows, Reads, NEW t \in Tickets, Entitled(t)
  PROVE  Route(t, poll.projects) \in Projects
<1>1. poll.projects \in Settings
  BY DEF Typed, PollTyped
<1>2. CASE MaxSwitches = 0
  BY <1>2 DEF PollKnows, Entitled
<1>3. CASE MaxSwitches # 0
  <2>1. PICK p \in Projects, start \in Seconds :
          Starts(p, start) /\ created[t] > start /\ t \in Filtered[p] \cap Conditioned[p]
    BY <1>3 DEF Entitled
  <2>2. config[p].enabled /\ config[p].intake = start /\ poll.projects[p] = config[p]
    BY <2>1 DEF Starts, PollKnows
  <2>3. \A q \in Projects : t \in Filtered[q] \cap Conditioned[q] => q = p
    BY <1>3, <2>1 DEF NoContest
  <2>4. created[t] \in Nat /\ start \in Nat
    BY Lengths DEF Typed, TypeOK, Seconds
  <2>5. Route(t, poll.projects) = p
    BY <1>1, <2>1, <2>2, <2>3, <2>4, RoutedAlone
  <2>6. QED
    BY <2>5
<1>4. QED
  BY <1>2, <1>3

\* Who is entitled depends on the creation of the tickets and on the settings.
LEMMA EntitledStays ==
  ASSUME UNCHANGED <<created, modified, config, requests>>
  PROVE  \A t \in Tickets : Entitled(t)' <=> Entitled(t)
<1>1. \A t \in Tickets, p \in Projects : (Route(t, config) = p)' <=> Route(t, config) = p
  BY DEF Route, Enabled
<1>2. \A p \in Projects, start \in Seconds : Starts(p, start)' <=> Starts(p, start)
  BY DEF Starts, Enabling
<1>3. \A t \in Tickets, start \in Seconds : Later(modified[t], start)' <=> Later(modified[t], start)
  BY DEF Later, Day
<1>4. QED
  BY <1>1, <1>2, <1>3 DEF Entitled

\* An entitled ticket is new to a poll that starts from a pipeline's beginning.
LEMMA StartCovers ==
  ASSUME Typed, NEW c \in Cursors, c.own, NotAhead(c), NEW t \in Tickets, Entitled(t)
  PROVE  After(modified[t], c)
<1>1. PICK start \in Seconds : c.at <= start /\ created[t] > start /\ Later(modified[t], start)
  BY DEF Entitled, NotAhead
<1>2. /\ modified[t] \in Seconds /\ modified[t] \in Nat /\ created[t] \in Nat
      /\ created[t] <= modified[t]
  BY BarsOfCursors DEF Entitled
<1>3. start \in Nat /\ start <= modified[t]
  BY <1>1, <1>2, Lengths DEF Seconds
<1>4. modified[t] >= Bar(c)
  BY <1>1, <1>2, <1>3, ClearsBar
<1>5. QED
  BY <1>2, <1>4, Bars

\* The source answers the same as long as no ticket changes.
LEMMA AnswerStays ==
  ASSUME UNCHANGED <<created, modified, poll.since>>
  PROVE  Answer(poll.since)' = Answer(poll.since)
BY DEF Answer, Listed, Before

\* What a poll has in hand keeps what holds of it while the tickets and the tasks
\* stand, nobody becomes entitled, and no second is reopened.
LEMMA PollStands ==
  ASSUME Typed, UNCHANGED <<created, modified, poll, tasks>>,
         \A t \in Tickets : Entitled(t)' => Entitled(t),
         \A second \in Nat : Past(second) => Past(second)',
         FoundHolds, BatchHolds, StepsHold, PagesHold, NothingForgotten
  PROVE  FoundHolds' /\ BatchHolds' /\ StepsHold' /\ PagesHold' /\ NothingForgotten'
<1>1. \A t \in Tickets : (Newer(t)' <=> Newer(t)) /\ (Arrived(t)' <=> Arrived(t))
  BY DEF Newer, After, Arrived
<1>2. \A i \in DOMAIN poll.found : poll.found[i].content \in Nat
  <2>1. \A i \in DOMAIN poll.found : poll.found[i] \in Items
    BY ElementOfSeq DEF Typed, TypeOK
  <2>2. QED
    BY <2>1, Lengths DEF Items, Seconds
<1>3. FoundHolds'
  <2>1. ASSUME NEW i \in DOMAIN poll.found, NEW t \in Tickets, NEW second \in Nat,
               poll.found[i].ticket = t, poll.found[i].content = second
        PROVE  /\ second = modified[t] \/ (Entitled(t)' => Newer(t)')
               /\ Past(second)'
               /\ Format = "redmine" \/ poll.step = "paging" => second = modified[t]
    <3>1. /\ second = modified[t] \/ (Entitled(t) => Newer(t))
          /\ Past(second)
          /\ Format = "redmine" \/ poll.step = "paging" => second = modified[t]
      BY <2>1 DEF FoundHolds, Fresh
    <3>2. QED
      BY <1>1, <3>1
  <2>2. QED
    BY <1>2, <2>1 DEF FoundHolds, Fresh, Past
<1>4. BatchHolds'
  BY <1>1 DEF BatchHolds, Fresh
<1>5. StepsHold' /\ PagesHold'
  BY AnswerStays DEF StepsHold, Bar, PagesHold
<1>6. NothingForgotten'
  BY <1>1 DEF NothingForgotten
<1>7. QED
  BY <1>3, <1>4, <1>5, <1>6

---------------------------------------------------------------------------
(***************************************************************************)
(* The invariant, one action at a time.                                    *)
(***************************************************************************)
LEMMA InitCovers == Init /\ Typed => CoverInv
<1> SUFFICES ASSUME Init, Typed PROVE CoverInv
  OBVIOUS
<1>1. /\ clock = 1 /\ cursor = NoCursor /\ poll = Idle
      /\ \A c \in Clients : requests[c] = NoRequest
      /\ created = [t \in Tickets |-> 0]
      /\ \A p \in Projects : config[p].intake = 1
  BY DEF Init
<1>2. /\ poll.step = "idle" /\ poll.since = NoCursor /\ poll.newest = NoCursor
      /\ poll.found = << >> /\ poll.batch = << >>
      /\ \A p \in Projects : poll.projects[p].intake = 0
  BY <1>1 DEF Idle
<1>3. CursorsNotAhead
  BY <1>1, <1>2 DEF CursorsNotAhead, NotAhead, Past, NoCursor
<1>4. RequestsApart /\ PollKnows
  <2>1. \A c \in Clients : requests[c].step = "idle" /\ requests[c].at = 0
    BY <1>1 DEF NoRequest
  <2>2. QED
    BY <1>1, <1>2, <2>1 DEF RequestsApart, PollKnows, Reads
<1>5. FoundHolds /\ BatchHolds /\ StepsHold /\ PagesHold /\ NothingForgotten
  BY <1>2 DEF FoundHolds, BatchHolds, StepsHold, PagesHold, NothingForgotten, Bar,
     NoCursor
<1>6. CursorsCover
  BY <1>1, <1>2 DEF CursorsCover, Covered, Entitled, Reads
<1>7. QED
  BY <1>3, <1>4, <1>5, <1>6 DEF CoverInv

\* Redmine's pages that were fetched stay the first of the answer when a ticket
\* changes that is on none of them: the change puts it behind them, where a ticket
\* moves at most towards the front.
LEMMA PagesStay ==
  ASSUME Typed, Typed', PagesHold, FoundHolds, poll.step = "paging", Format = "redmine",
         UNCHANGED <<clock, poll>>, NEW t \in Tickets,
         modified' = [modified EXCEPT ![t] = clock], created'[t] # 0,
         \A u \in Tickets \ {t} : created'[u] = created[u],
         \A i \in DOMAIN poll.found :
           poll.found[i].ticket # t /\ poll.found[i].content < clock
  PROVE  PagesHold'
<1> DEFINE answer == Answer(poll.since)
           next == Answer(poll.since)'
           listed == Listed(poll.since)
           now == Listed(poll.since)'
<1>1. /\ \A u \in Tickets : modified[u] \in Nat /\ modified'[u] \in Nat
      /\ modified[t] <= clock /\ modified'[t] = clock /\ clock \in Nat
      /\ poll.since.at \in Nat /\ poll.offset \in Nat
      /\ \A u \in Tickets \ {t} : modified'[u] = modified[u]
  <2>1. modified \in [Tickets -> Nat] /\ modified' \in [Tickets -> Nat]
    BY Lengths DEF Typed, TypeOK
  <2>2. poll.since.at \in Nat
    BY Bars DEF Typed, TypeOK
  <2>3. QED
    BY <2>1, <2>2, Lengths DEF Typed, TypeOK, PollTyped, Stamped
<1>2. modified \in [Tickets -> Nat]
  BY Lengths DEF Typed, TypeOK
<1>3. listed \subseteq now /\ now \subseteq listed \cup {t} /\ now \subseteq Tickets
  BY <1>1 DEF Listed
<1>4. AnswerRanked /\ AnswerRanked'
  BY AnswerIsRanked, NextAnswerIsRanked
<1>5. /\ IsFiniteSet(now) /\ Cardinality(listed) <= Cardinality(now)
      /\ Cardinality(listed) \in Nat /\ Cardinality(now) \in Nat
  <2>1. IsFiniteSet(now)
    BY <1>3, TicketsFinite, FS_Subset
  <2> HIDE DEF now, listed
  <2>2. QED
    BY <1>3, <2>1, FS_Subset, FS_CardinalityType
<1>6. /\ Len(answer) = Cardinality(listed) /\ Len(next) = Cardinality(now)
      /\ poll.offset <= Len(answer)
      /\ \A k \in 1 .. Len(answer) :
           k <= poll.offset => \E i \in DOMAIN poll.found : poll.found[i].ticket = answer[k]
  BY <1>4 DEF AnswerRanked, PagesHold
<1>7. \A k \in 1 .. Len(answer) : k <= poll.offset =>
        answer[k] # t /\ modified[answer[k]] < clock
  <2>1. ASSUME NEW k \in 1 .. Len(answer), k <= poll.offset
        PROVE  answer[k] # t /\ modified[answer[k]] < clock
    <3>1. PICK i \in DOMAIN poll.found : poll.found[i].ticket = answer[k]
      BY <1>6, <2>1
    <3>2. poll.found[i].ticket \in Tickets
      <4>1. poll.found \in Seq(Items)
        BY DEF Typed, PollTyped
      <4>2. poll.found[i] \in Items
        BY <4>1, ElementOfSeq
      <4>3. QED
        BY <4>2 DEF Items
    <3>3. poll.found[i].content = modified[poll.found[i].ticket]
      BY <3>2 DEF FoundHolds
    <3>4. QED
      BY <3>1, <3>3
  <2>2. QED
    BY <2>1
<1>8. /\ \A k \in 1 .. Len(answer) :
           /\ answer[k] \in listed
           /\ Cardinality({s \in listed : Before(s, answer[k])}) = k - 1
      /\ \A s \in listed : \E k \in 1 .. Len(answer) :
           answer[k] = s
  BY <1>2, AnswerRanks
<1>9. \A r, s \in listed : Before(r, s) =>
         Cardinality({q \in listed : Before(q, r)}) < Cardinality({q \in listed : Before(q, s)})
  <2>1. listed \subseteq Tickets
    BY <1>3
  <2> HIDE DEF listed
  <2>2. QED
    BY <1>2, <2>1, Ranked
<1>10. \A k \in 1 .. Len(next), s \in now :
         next[k] = s <=> Cardinality({r \in now : Before(r, s)'}) = k - 1
  BY <1>4 DEF AnswerRanked
<1> HIDE DEF answer, next, listed, now
<1>11. ASSUME NEW k \in 1 .. Len(next), k <= poll.offset PROVE next[k] = answer[k]
  <2>1. k \in 1 .. Len(answer)
    BY <1>1, <1>5, <1>6, <1>11
  <2>2. PICK u \in listed : u = answer[k]
    BY <1>8, <2>1
  <2>3. u # t /\ modified[u] < clock /\ u \in now /\ u \in Tickets
    BY <1>3, <1>7, <1>11, <2>1, <2>2
  <2> DEFINE first == {s \in listed : Before(s, u)}
  <2>4. Cardinality(first) = k - 1
    BY <1>8, <2>1, <2>2
  <2>5. ~ (t \in listed /\ Before(t, u))
    <3>1. SUFFICES ASSUME t \in listed, Before(t, u) PROVE FALSE
      OBVIOUS
    <3>2. PICK j \in 1 .. Len(answer) : answer[j] = t
      BY <1>8, <3>1
    <3>3. Cardinality({s \in listed : Before(s, t)}) = j - 1
      BY <1>8, <3>1, <3>2
    <3>4. Cardinality({s \in listed : Before(s, t)}) < Cardinality(first)
      BY <1>9, <2>3, <2>2, <3>1
    <3>5. j < k
      BY <1>5, <1>6, <2>4, <3>3, <3>4
    <3>6. j <= poll.offset
      BY <1>1, <1>5, <1>6, <1>11, <3>5
    <3>7. QED
      BY <1>7, <3>2, <3>6
  <2>6. \A s \in now : Before(s, u)' <=> s \in listed /\ Before(s, u)
    <3>1. ~ Before(t, u)'
      BY <1>1, <2>3 DEF Before
    <3>2. ASSUME NEW s \in Tickets, s # t PROVE Before(s, u)' <=> Before(s, u)
      BY <1>1, <2>3, <3>2 DEF Before
    <3>3. QED
      BY <1>3, <2>5, <3>1, <3>2
  <2>7. Cardinality({s \in now : Before(s, u)'}) = k - 1
    <3>1. {s \in now : Before(s, u)'} = first
      BY <1>3, <2>6
    <3>2. QED
      BY <2>4, <3>1
  <2>8. next[k] = u
    BY <1>10, <1>11, <2>3, <2>7
  <2>9. QED
    BY <2>2, <2>8
<1>12. QED
  BY <1>1, <1>5, <1>6, <1>11 DEF PagesHold, answer, next

\* A ticket that is created or edited is new to the next poll, whatever the poll
\* in flight has read.
LEMMA ChangeCovers ==
  ASSUME QuietSource, Typed, Typed', CoverInv, NEW t \in Tickets, Create(t) \/ Edit(t)
  PROVE  CoverInv'
<1> USE DEF CoverInv
<1>1. /\ ~ read /\ (poll.step = "paging" => Format = "redmine")
      /\ Format = "redmine" => \A i \in DOMAIN poll.found : poll.found[i].ticket # t
      /\ UNCHANGED <<clock, config, cursor, poll, tasks, requests, read>>
      /\ modified' = [modified EXCEPT ![t] = clock]
      /\ created' = created \/ (created' = [created EXCEPT ![t] = clock] /\ created[t] = 0)
  BY DEF QuietSource, Create, Edit, Undisturbed
<1>2. /\ modified'[t] = clock
      /\ \A u \in Tickets \ {t} : modified'[u] = modified[u] /\ created'[u] = created[u]
  BY <1>1 DEF Typed, TypeOK
<1>3. /\ clock \in Seconds /\ clock \in Nat /\ {cursor, poll.since, poll.newest} \subseteq Cursors
      /\ \A i \in DOMAIN poll.found : poll.found[i] \in Items
      /\ \A i \in DOMAIN poll.batch : poll.batch[i] \in Items
  <2>1. /\ clock \in Seconds /\ clock \in Nat
        /\ {cursor, poll.since, poll.newest} \subseteq Cursors
    BY BarsOfCursors DEF Typed, TypeOK
  <2>2. poll.found \in Seq(Items) /\ poll.batch \in Seq(Items)
    BY DEF Typed, PollTyped
  <2>3. QED
    BY <2>1, <2>2, ElementOfSeq
<1>4. \A c \in {cursor, poll.since, poll.newest} : Entitled(t)' => After(clock, c)
  <2>1. ASSUME NEW c \in Cursors, NotAhead(c), Entitled(t)' PROVE clock >= Bar(c)
    <3>1. CASE ~ c.own
      <4>1. c.at \in Nat
        BY Bars
      <4>2. QED
        BY <1>1, <1>3, <2>1, <3>1, <4>1 DEF NotAhead, Past, Bar
    <3>2. CASE c.own
      <4>1. PICK p \in Projects, start \in Seconds : Starts(p, start)' /\ Later(modified[t], start)'
        BY <2>1 DEF Entitled
      <4>2. Starts(p, start) /\ Later(clock, start)
        BY <1>1, <1>2, <4>1 DEF Starts, Enabling, Later, Day
      <4>3. start \in Nat /\ start <= clock
        BY <4>2, Lengths DEF Starts, RequestsApart, Seconds
      <4>4. c.at <= start
        BY <2>1, <3>2, <4>2 DEF NotAhead
      <4>5. QED
        BY <1>3, <3>2, <4>2, <4>3, <4>4, ClearsBar
    <3>3. QED
      BY <3>1, <3>2
  <2>2. \A c \in {cursor, poll.since, poll.newest} : c \in Cursors /\ NotAhead(c)
    BY <1>3 DEF CursorsNotAhead
  <2>3. QED
    BY <1>3, <2>1, <2>2, Bars
<1>5. \A i \in DOMAIN poll.found : poll.found[i].content < clock
  <2>1. \A i \in DOMAIN poll.found : poll.found[i].ticket \in Tickets
    BY <1>3 DEF Items
  <2>2. QED
    BY <1>1, <2>1 DEF FoundHolds, Past
<1>6. Entitled(t)' => Newer(t)'
  <2>1. clock # 0
    BY <1>3, Lengths DEF Seconds
  <2>2. QED
    BY <1>1, <1>2, <1>4, <1>5, <2>1 DEF Newer, After
<1>7. \A u \in Tickets \ {t} :
        /\ Newer(u)' <=> Newer(u)
        /\ Arrived(u)' <=> Arrived(u)
        /\ Entitled(u)' <=> Entitled(u)
  <2>1. ASSUME NEW u \in Tickets \ {t}
        PROVE  (Newer(u)' <=> Newer(u)) /\ (Arrived(u)' <=> Arrived(u))
    BY <1>1, <1>2 DEF Newer, Arrived, After
  <2>2. ASSUME NEW u \in Tickets \ {t} PROVE Entitled(u)' <=> Entitled(u)
    <3>1. \A p \in Projects : (Route(u, config) = p)' <=> Route(u, config) = p
      BY <1>1, <1>2 DEF Route, Enabled
    <3>2. \A p \in Projects, start \in Seconds :
            /\ Starts(p, start)' <=> Starts(p, start)
            /\ Later(modified[u], start)' <=> Later(modified[u], start)
            /\ (created[u] > start)' <=> created[u] > start
      BY <1>1, <1>2 DEF Starts, Enabling, Later, Day
    <3>3. (created[u] = 0)' <=> created[u] = 0
      BY <1>2
    <3>4. QED
      BY <3>1, <3>2, <3>3 DEF Entitled
  <2>3. QED
    BY <2>1, <2>2
<1>8. CursorsNotAhead' /\ RequestsApart' /\ PollKnows' /\ StepsHold' /\ PagesHold'
  <2>1. CursorsNotAhead' /\ RequestsApart' /\ PollKnows' /\ StepsHold'
    BY <1>1 DEF CursorsNotAhead, NotAhead, Starts, Enabling, Past, RequestsApart,
       PollKnows, Reads, StepsHold, Bar
  <2>2. CASE poll.step = "paging"
    <3>1. created'[t] # 0
      BY <1>3, Lengths DEF Create, Edit, Typed, TypeOK, Seconds
    <3>2. PagesHold'
      BY <1>1, <1>2, <1>5, <2>2, <3>1, PagesStay
    <3>3. QED
      BY <2>1, <3>2
  <2>3. CASE poll.step # "paging"
    BY <1>1, <2>1, <2>3 DEF PagesHold
  <2>4. QED
    BY <2>2, <2>3
<1>9. FoundHolds' /\ BatchHolds'
  <2>1. ASSUME NEW u \in Tickets, NEW second \in Nat, Fresh(u, second)
        PROVE  Fresh(u, second)'
    BY <1>2, <1>6, <1>7, <2>1 DEF Fresh
  <2>2. ASSUME NEW i \in DOMAIN poll.found, NEW u \in Tickets, poll.found[i].ticket = u,
               NEW second \in Nat, poll.found[i].content = second
        PROVE  Fresh(u, second)' /\ Past(second)' /\ (Format = "redmine" => second = modified'[u])
    <3>1. Fresh(u, second) /\ Past(second) /\ (Format = "redmine" => second = modified[u])
      BY <2>2 DEF FoundHolds
    <3>2. QED
      BY <1>1, <1>2, <2>1, <2>2, <3>1 DEF Past
  <2>3. /\ \A i \in DOMAIN poll.found : poll.found[i].content \in Nat
        /\ \A i \in DOMAIN poll.batch : poll.batch[i].content \in Nat
    BY <1>3, Lengths DEF Items, Seconds
  <2>4. FoundHolds'
    BY <1>1, <2>2, <2>3 DEF FoundHolds, Fresh, Past
  <2>5. BatchHolds'
    <3>1. ASSUME NEW i \in DOMAIN poll.batch, NEW u \in Tickets, poll.batch[i].ticket = u,
                 NEW second \in Nat, poll.batch[i].content = second
          PROVE  Fresh(u, second)'
      BY <2>1, <3>1 DEF BatchHolds
    <3>2. QED
      BY <1>1, <2>3, <3>1 DEF BatchHolds, Fresh
  <2>6. QED
    BY <2>4, <2>5
<1>10. NothingForgotten'
  <2>1. SUFFICES ASSUME poll.step = "reading", NEW u \in Tickets, Entitled(u)'
                 PROVE  \/ Arrived(u)' \/ Newer(u)'
                        \/ \E i \in DOMAIN poll.found : poll.found[i].ticket = u
                        \/ \E i \in DOMAIN poll.batch :
                             poll.batch[i] = [ticket |-> u, content |-> modified'[u]]
    BY <1>1 DEF NothingForgotten
  <2>2. CASE u = t
    BY <1>6, <2>1, <2>2
  <2>3. CASE u # t
    BY <1>2, <1>7, <2>1, <2>3 DEF NothingForgotten
  <2>4. QED
    BY <2>2, <2>3
<1>11. CursorsCover'
  <2>1. \A c \in {cursor, poll.since} :
          /\ Covered(c) => \A u \in Tickets :
               Entitled(u)' /\ ~ After(modified'[u], c) => Arrived(u)'
          /\ Unpassed(c) => \A u \in Tickets : Entitled(u)' => After(modified'[u], c)
    BY <1>2, <1>4, <1>7 DEF Covered, Unpassed
  <2>2. QED
    BY <1>1, <2>1 DEF CursorsCover, Reads, Covered, Unpassed, After
<1>12. QED
  BY <1>8, <1>9, <1>10, <1>11

LEMMA TickCovers ==
  ASSUME QuietSource, Typed, CoverInv, Tick
  PROVE  CoverInv'
<1> USE DEF CoverInv
<1>1. /\ clock' = clock + 1 /\ clock \in Nat
      /\ UNCHANGED <<created, modified, config, cursor, poll, tasks, requests>>
  BY BarsOfCursors DEF Tick, source
<1>2. /\ \A second \in Nat : Past(second) => Past(second)'
      /\ {cursor, poll.since, poll.newest} \subseteq Cursors
      /\ \A c \in Cursors : c.at \in Nat
  BY <1>1, Bars DEF Past, Typed, TypeOK
<1>3. CursorsNotAhead'
  BY <1>1, <1>2 DEF CursorsNotAhead, NotAhead, Starts, Enabling, Past
<1>4. RequestsApart' /\ PollKnows'
  <2>1. /\ \A p \in Projects : config[p].intake \in Nat
        /\ \A c \in Clients : requests[c].at \in Nat
    BY Lengths DEF Typed, TypeOK, Seconds
  <2>2. QED
    BY <1>1, <2>1 DEF RequestsApart, PollKnows, Reads, Enabling
<1>5. FoundHolds' /\ BatchHolds' /\ StepsHold' /\ PagesHold' /\ NothingForgotten'
  BY <1>1, <1>2, EntitledStays, PollStands
<1>6. CursorsCover'
  BY <1>1, EntitledStays DEF CursorsCover, Reads, Covered, Unpassed, Arrived, After
<1>7. QED
  BY <1>3, <1>4, <1>5, <1>6

\* A poll that finds the enabled pipelines healthy goes by their settings.
LEMMA PollIsToldAll ==
  ASSUME Typed, NoContest, NobodyLeftOut, RequestsApart
  PROVE  Usable = config /\ \A c \in Clients : ~ Enabling(c)
<1>1. \A p \in Projects : Usable[p] = config[p]
  <2>1. SUFFICES ASSUME NEW p \in Projects PROVE Usable[p] = config[p]
    OBVIOUS
  <2>2. CASE config[p].enabled
    <3>1. ready[p]
      BY <2>2 DEF NoContest, NobodyLeftOut
    <3>2. QED
      BY <3>1, UsableSettings
  <2>3. CASE ~ config[p].enabled
    <3>1. config \in Settings /\ Usable \in Settings /\ ~ Usable[p].enabled
          /\ Usable[p].intake = config[p].intake
      BY <2>3, UsableSettings
    <3>2. /\ config[p] = [enabled |-> config[p].enabled, intake |-> config[p].intake]
          /\ Usable[p] = [enabled |-> Usable[p].enabled, intake |-> Usable[p].intake]
          /\ config[p].enabled \in BOOLEAN /\ Usable[p].enabled \in BOOLEAN
      BY <3>1 DEF Settings
    <3>3. config[p].enabled = Usable[p].enabled
      BY <2>3, <3>1, <3>2
    <3>4. QED
      BY <3>1, <3>2, <3>3
  <2>4. QED
    BY <2>2, <2>3
<1>2. config \in Settings /\ Usable \in Settings
  BY UsableSettings
<1>3. Usable = config
  BY <1>1, <1>2 DEF Settings
<1>4. ASSUME NEW c \in Clients PROVE ~ Enabling(c)
  <2>1. CASE MaxSwitches = 0
    BY <2>1 DEF RequestsApart, Enabling, NoRequest
  <2>2. CASE MaxSwitches # 0
    BY <2>2 DEF NoContest, NobodyLeftOut
  <2>3. QED
    BY <2>1, <2>2
<1>5. QED
  BY <1>3, <1>4

\* Who is entitled changed his ticket after a pipeline had started: a first poll
\* misses nobody.
LEMMA BeginPollCovers ==
  ASSUME QuietSource, NoContest, Typed, CoverInv, BeginPoll
  PROVE  CoverInv'
<1> USE DEF CoverInv
<1> DEFINE starts == {Usable[p].intake : p \in Enabled(Usable)}
           first == Min(starts)
           since == IF cursor = NoCursor /\ starts # {}
                    THEN [own |-> TRUE, at |-> first] ELSE cursor
<1>1. Usable = config /\ \A c \in Clients : ~ Enabling(c)
  BY PollIsToldAll DEF BeginPoll
<1>2. /\ cursor' = since
      /\ poll' = [Idle EXCEPT !.step = "paging", !.since = since, !.newest = since,
                              !.projects = config]
      /\ UNCHANGED <<clock, created, modified, config, tasks, requests, read>>
  BY <1>1 DEF BeginPoll, source
<1>3. starts # {} =>
        /\ \E p \in Projects : config[p].enabled /\ first = config[p].intake
        /\ first \in Seconds /\ first \in Nat /\ first \in 0 .. MaxTime
        /\ \A p \in Enabled(config) : first <= config[p].intake
  <2>1. SUFFICES ASSUME Enabled(Usable) # {}
                 PROVE  /\ \E p \in Projects : config[p].enabled /\ first = config[p].intake
                        /\ first \in Seconds /\ first \in Nat /\ first \in 0 .. MaxTime
                        /\ \A p \in Enabled(config) : first <= config[p].intake
    OBVIOUS
  <2>2. /\ \E p \in Enabled(Usable) : first = config[p].intake
        /\ first \in Seconds
        /\ \A p \in Enabled(Usable) : first <= config[p].intake
    BY <2>1, FirstIntake
  <2>3. \A n \in Seconds : n \in Nat /\ n \in 0 .. MaxTime
    BY Lengths DEF Seconds
  <2>4. \A p \in Enabled(config) : p \in Projects /\ config[p].enabled
    BY DEF Enabled
  <2> HIDE DEF first
  <2>5. QED
    BY <1>1, <2>2, <2>3, <2>4
<1> HIDE DEF first, starts
<1>4. since.at \in Nat /\ since \in Cursors /\ clock \in Nat
  <2>1. cursor.at \in Nat /\ cursor \in Cursors
    BY Bars DEF Typed, TypeOK
  <2>2. QED
    BY <1>3, <2>1, BarsOfCursors DEF Cursors
<1>5. NotAhead(since)
  <2>1. CASE cursor = NoCursor /\ starts # {}
    <3>1. since = [own |-> TRUE, at |-> first] /\ first <= clock
      BY <1>3, <2>1 DEF RequestsApart
    <3>2. ASSUME NEW q \in Projects, NEW start \in Seconds, Starts(q, start) PROVE first <= start
      BY <1>1, <1>3, <2>1, <3>2 DEF Starts, Enabled
    <3>3. QED
      BY <3>1, <3>2 DEF NotAhead
  <2>2. QED
    BY <2>1 DEF CursorsNotAhead
<1>6. \A t \in Tickets : Entitled(t) /\ ~ After(modified[t], since) => Arrived(t)
  <2>1. CASE cursor = NoCursor /\ starts # {}
    BY <1>4, <1>5, <2>1, StartCovers
  <2>2. CASE ~ (cursor = NoCursor /\ starts # {})
    BY <2>2 DEF CursorsCover, Covered
  <2>3. QED
    BY <2>1, <2>2
<1> HIDE DEF since
<1>7. poll' = [step |-> "paging", since |-> since, newest |-> since, projects |-> config,
               offset |-> 0, found |-> << >>, batch |-> << >>]
  BY <1>2 DEF Idle
<1>8. CursorsNotAhead'
  BY <1>2, <1>5, <1>7 DEF CursorsNotAhead, NotAhead, Starts, Enabling, Past
<1>9. RequestsApart' /\ PollKnows'
  BY <1>1, <1>2, <1>7 DEF RequestsApart, PollKnows, Reads, Enabling
<1>10. FoundHolds' /\ BatchHolds' /\ NothingForgotten'
  BY <1>7 DEF FoundHolds, BatchHolds, NothingForgotten
<1>11. StepsHold'
  <2>1. Bar(since) \in Nat
    BY <1>4, Bars
  <2>2. QED
    BY <1>7, <2>1 DEF StepsHold, Bar
<1>12. PagesHold'
  <2>1. Answer(since) \in Seq(Tickets)
    <3>1. modified \in [Tickets -> Nat]
      BY Lengths DEF Typed, TypeOK
    <3>2. QED
      BY <3>1, AnswerLists
  <2>2. Answer(poll.since)' = Answer(since)
    BY <1>2, <1>7 DEF Answer, Listed, Before
  <2>3. Len(Answer(poll.since)') \in Nat
    BY <2>1, <2>2
  <2>4. QED
    BY <1>7, <2>3 DEF PagesHold
<1>13. CursorsCover'
  BY <1>2, <1>6, <1>7, EntitledStays DEF CursorsCover, Reads, Covered, Arrived, After
<1>14. QED
  BY <1>8, <1>9, <1>10, <1>11, <1>12, <1>13

\* A poll that goes on has found every ticket of the answer up to its offset, and
\* after the last page every ticket of the answer.
LEMMA PagesReach ==
  ASSUME Typed, PagesHold, FetchPage
  PROVE  /\ poll'.offset <= Len(Answer(poll.since))
         /\ \A k \in 1 .. Len(Answer(poll.since)) :
              poll'.step = "reading" \/ k <= poll'.offset =>
                \E i \in DOMAIN poll'.found : poll'.found[i].ticket = Answer(poll.since)[k]
<1> DEFINE answer == Answer(poll.since)
           offset == poll.offset + PageSize
           page == SubSeq(answer, poll.offset + 1, Min({offset, Len(answer)}))
           items == [i \in DOMAIN page |-> [ticket |-> page[i], content |-> modified[page[i]]]]
           last == IF offset < Len(answer) THEN offset ELSE Len(answer)
           found == poll.found
<1>1. /\ offset \in Nat /\ offset > poll.offset
      /\ Len(page) \in Nat /\ Len(page) = IF poll.offset < last THEN last - poll.offset ELSE 0
      /\ items \in Seq(Items) /\ Len(items) = Len(page)
      /\ \A i \in 1 .. Len(page) : page[i] = answer[poll.offset + i]
      /\ \A i \in 1 .. Len(page) :
           items[i] = [ticket |-> page[i], content |-> modified[page[i]]]
  BY PageTyped
<1>2. /\ poll' = [poll EXCEPT !.offset = IF LastPage(page, offset) THEN 0 ELSE offset,
                              !.found = @ \o items,
                              !.step = IF LastPage(page, offset) THEN "reading" ELSE "paging"]
      /\ poll.step = "paging"
  BY DEF FetchPage
<1>3. LastPage(page, offset) =>
        IF Format = "redmine" THEN page = << >> \/ offset >= Len(answer)
                              ELSE Len(page) < PageSize
  BY DEF LastPage
<1>4. Len(answer) \in Nat /\ poll.offset \in Nat /\ found \in Seq(Items)
  <2>1. modified \in [Tickets -> Nat]
    BY Lengths DEF Typed, TypeOK
  <2>2. answer \in Seq(Tickets)
    BY <2>1, AnswerLists
  <2> HIDE DEF answer
  <2>3. QED
    BY <2>2 DEF Typed, PollTyped
<1>5. LastPage(page, offset) => last = Len(answer)
  <2>1. page = << >> => Len(page) = 0
    BY EmptySeq
  <2>2. PageSize \in Nat /\ offset = poll.offset + PageSize
    BY Lengths
  <2> HIDE DEF page, answer, offset
  <2>3. QED
    BY <1>1, <1>3, <1>4, <2>1, <2>2
<1> HIDE DEF items, page, offset, answer
<1>6. /\ poll'.found = found \o items
      /\ poll'.offset = IF LastPage(page, offset) THEN 0 ELSE offset
      /\ poll'.step = IF LastPage(page, offset) THEN "reading" ELSE "paging"
  BY <1>2 DEF Typed, PollTyped
<1>7. \A k \in 1 .. Len(answer) : k <= poll.offset => \E i \in DOMAIN found : found[i].ticket = answer[k]
  BY <1>2 DEF PagesHold, answer
<1> HIDE DEF found
<1>8. /\ DOMAIN (found \o items) = 1 .. Len(found) + Len(items)
      /\ DOMAIN found = 1 .. Len(found) /\ Len(found) \in Nat /\ Len(items) \in Nat
      /\ \A i \in DOMAIN found : (found \o items)[i] = found[i]
      /\ \A i \in 1 .. Len(items) : (found \o items)[Len(found) + i] = items[i]
  BY <1>1, <1>4, ConcatProperties
<1>9. poll'.offset <= Len(answer)
  <2>1. ~ LastPage(page, offset) => offset <= Len(answer)
    <3>1. PageSize \in Nat /\ offset = poll.offset + PageSize /\ poll.offset <= Len(answer)
      BY <1>2, Lengths DEF PagesHold, answer, offset
    <3>2. Format = "tapd" => (LastPage(page, offset) <=> Len(page) < PageSize)
      BY Formats DEF LastPage
    <3>3. Format # "tapd" => (LastPage(page, offset) <=> page = << >> \/ offset >= Len(answer))
      BY Formats DEF LastPage, answer
    <3>4. QED
      BY <1>1, <1>4, <3>1, <3>2, <3>3
  <2>2. QED
    BY <1>4, <1>6, <2>1
<1>10. SUFFICES ASSUME NEW k \in 1 .. Len(answer), poll'.step = "reading" \/ k <= poll'.offset
               PROVE  \E i \in 1 .. Len(found) + Len(items) : (found \o items)[i].ticket = answer[k]
  BY <1>6, <1>8, <1>9 DEF answer
<1>11. CASE k <= poll.offset
  <2>1. PICK i \in DOMAIN found : found[i].ticket = answer[k]
    BY <1>7, <1>11
  <2>2. i \in 1 .. Len(found) + Len(items) /\ (found \o items)[i] = found[i]
    BY <1>8
  <2>3. QED
    BY <2>1, <2>2
<1>12. CASE k > poll.offset
  <2>1. last \in Nat /\ k <= last
    BY <1>1, <1>4, <1>5, <1>6, <1>10, <1>12
  <2> HIDE DEF last
  <2> DEFINE i == k - poll.offset
  <2>2. i \in 1 .. Len(page) /\ poll.offset + i = k
    <3>1. k \in Nat /\ k >= 1
      BY <1>4, <1>10
    <3>2. Len(page) = last - poll.offset
      BY <1>1, <1>4, <1>12, <2>1, <3>1
    <3>3. \A a, b, c \in Nat : a > b /\ a <= c => a - b \in 1 .. c - b /\ b + (a - b) = a
      OBVIOUS
    <3>4. QED
      BY <1>4, <1>12, <2>1, <3>1, <3>2, <3>3
  <2> HIDE DEF i
  <2>3. items[i].ticket = answer[k]
    <3>1. page[i] = answer[k]
      BY <1>1, <2>2
    <3>2. items[i] = [ticket |-> page[i], content |-> modified[page[i]]]
      BY <1>1, <2>2
    <3>3. QED
      BY <3>1, <3>2
  <2>4. Len(found) + i \in 1 .. Len(found) + Len(items) /\ (found \o items)[Len(found) + i] = items[i]
    <3>1. i \in 1 .. Len(items)
      BY <1>1, <2>2
    <3>2. QED
      BY <1>8, <3>1
  <2>5. QED
    BY <2>3, <2>4
<1>13. QED
  BY <1>4, <1>11, <1>12

\* A last page leaves no ticket that the query selects unseen, and the query leaves
\* out only what the cursor covers.
LEMMA FetchPageCovers ==
  ASSUME QuietSource, Typed, CoverInv, FetchPage
  PROVE  CoverInv'
<1> USE DEF CoverInv
<1> DEFINE answer == Answer(poll.since)
           offset == poll.offset + PageSize
           page == SubSeq(answer, poll.offset + 1, Min({offset, Len(answer)}))
           items == [i \in DOMAIN page |-> [ticket |-> page[i], content |-> modified[page[i]]]]
           found == poll.found
<1>1. /\ items \in Seq(Items) /\ Len(items) = Len(page)
      /\ \A i \in 1 .. Len(page) : page[i] \in Listed(poll.since)
      /\ \A i \in 1 .. Len(page) :
           items[i] = [ticket |-> page[i], content |-> modified[page[i]]]
  BY PageTyped
<1>2. /\ poll' = [poll EXCEPT !.offset = IF LastPage(page, offset) THEN 0 ELSE offset,
                              !.found = @ \o items,
                              !.step = IF LastPage(page, offset) THEN "reading" ELSE "paging"]
      /\ poll.step = "paging" /\ read'
      /\ UNCHANGED <<clock, created, modified, config, cursor, tasks, requests>>
  BY DEF FetchPage, source
<1>3. found \in Seq(Items) /\ poll.batch = << >> /\ poll.newest = poll.since
  BY <1>2 DEF Typed, PollTyped, StepsHold
<1> HIDE DEF items, page, offset
<1>4. /\ poll'.found = found \o items /\ poll'.step \in {"reading", "paging"}
      /\ poll'.since = poll.since /\ poll'.newest = poll.newest /\ poll'.batch = poll.batch
      /\ poll'.projects = poll.projects
  BY <1>2 DEF Typed, PollTyped
<1> HIDE DEF found
<1>5. clock \in Nat /\ \A second \in Nat : Past(second) => Past(second)'
  BY <1>2, BarsOfCursors DEF Past
<1>6. CursorsNotAhead'
  <2>1. \A c \in {cursor, poll.since, poll.newest} : c.at \in Nat
    BY Bars DEF Typed, TypeOK
  <2>2. QED
    BY <1>2, <1>4, <1>5, <2>1 DEF CursorsNotAhead, NotAhead, Starts, Enabling
<1>7. RequestsApart' /\ PollKnows'
  BY <1>2, <1>4 DEF RequestsApart, PollKnows, Reads, Enabling
<1>8. FoundHolds'
  <2>1. Len(found) \in Nat /\ Len(items) \in Nat
    BY <1>1, <1>3
  <2>2. /\ DOMAIN (found \o items) = 1 .. Len(found) + Len(items)
        /\ \A i \in 1 .. Len(found) : (found \o items)[i] = found[i]
        /\ \A i \in 1 .. Len(items) : (found \o items)[Len(found) + i] = items[i]
    <3>1. /\ found \o items \in Seq(Items) /\ Len(found \o items) = Len(found) + Len(items)
          /\ \A i \in 1 .. Len(found) + Len(items) :
               (found \o items)[i] = IF i <= Len(found) THEN found[i] ELSE items[i - Len(found)]
      <4>1. found \in Seq(Items) /\ items \in Seq(Items)
        BY <1>1, <1>3
      <4>2. QED
        BY ONLY <4>1, ConcatProperties
    <3>2. DOMAIN (found \o items) = 1 .. Len(found) + Len(items)
      BY <3>1
    <3>3. \A i \in 1 .. Len(found) : (found \o items)[i] = found[i]
      BY <2>1, <3>1
    <3>4. \A i \in 1 .. Len(items) : (found \o items)[Len(found) + i] = items[i]
      <4>1. \A i \in 1 .. Len(items) : /\ Len(found) + i \in 1 .. Len(found) + Len(items)
                                        /\ ~ Len(found) + i <= Len(found)
                                        /\ (Len(found) + i) - Len(found) = i
        BY <2>1
      <4> QED BY <3>1, <4>1
    <3>5. QED
      BY <3>2, <3>3, <3>4
  <2> DEFINE Holds(item) == item.content = modified[item.ticket] /\ item.content <= clock
  <2>3. \A i \in 1 .. Len(found) : Holds(found[i]) /\ found[i].content \in Nat
    <3>1. \A i \in 1 .. Len(found) : found[i] \in Items
      BY <1>3, ElementOfSeq
    <3>2. \A i \in 1 .. Len(found) :
            found[i].content = modified[found[i].ticket] /\ Past(found[i].content)
      BY <1>2, <1>3, <3>1 DEF FoundHolds, found, Items
    <3>3. \A i \in 1 .. Len(found) : found[i].content \in Nat
      BY <3>1, Lengths DEF Items, Seconds
    <3>4. QED
      BY <1>5, <3>2, <3>3 DEF Past
  <2>4. \A j \in 1 .. Len(items) : Holds(items[j]) /\ items[j].content \in Nat
    <3>1. ASSUME NEW j \in 1 .. Len(items) PROVE Holds(items[j]) /\ items[j].content \in Nat
      <4>1. items[j] = [ticket |-> page[j], content |-> modified[page[j]]] /\ page[j] \in Tickets
        BY <1>1 DEF Listed
      <4>2. QED
        BY <4>1, Lengths DEF Typed, TypeOK, Stamped
    <3>2. QED
      BY <3>1
  <2>5. ASSUME NEW i \in 1 .. Len(found) + Len(items)
        PROVE  Holds((found \o items)[i]) /\ (found \o items)[i].content \in Nat
    <3> HIDE DEF Holds
    <3>1. i \in 1 .. Len(found) \/ (i - Len(found) \in 1 .. Len(items) /\ Len(found) + (i - Len(found)) = i)
      BY <2>1
    <3>2. (\E j \in 1 .. Len(found) : (found \o items)[i] = found[j])
          \/ (\E j \in 1 .. Len(items) : (found \o items)[i] = items[j])
      BY <2>2, <3>1
    <3>3. QED
      BY <2>3, <2>4, <3>2
  <2>6. \A i \in DOMAIN poll'.found :
          /\ poll'.found[i].content = modified'[poll'.found[i].ticket]
          /\ poll'.found[i].content <= clock' /\ poll'.found[i].content \in Nat
    BY <1>2, <1>4, <2>2, <2>5
  <2>7. clock' \in Nat
    BY <1>2, <1>5
  <2>8. QED
    BY <1>2, <2>6, <2>7 DEF FoundHolds, Fresh, Past
<1>9. BatchHolds' /\ StepsHold'
  BY <1>2, <1>3, <1>4 DEF BatchHolds, StepsHold, Bar
<1>10. Answer(poll.since)' = answer
  BY <1>2, <1>4, AnswerStays
<1>11. PagesHold'
  BY <1>10, PagesReach DEF PagesHold
<1>12. NothingForgotten'
  <2>1. SUFFICES ASSUME poll'.step = "reading", NEW t \in Tickets, Entitled(t), ~ Arrived(t)
                 PROVE  \E i \in DOMAIN poll'.found : poll'.found[i].ticket = t
    BY <1>2, EntitledStays DEF NothingForgotten, Arrived
  <2>2. modified[t] \in Nat /\ created[t] # 0 /\ modified[t] >= Bar(poll.since)
    <3>1. After(modified[t], poll.since) /\ created[t] # 0
      BY <1>2, <2>1 DEF CursorsCover, Reads, Covered, Entitled
    <3>2. QED
      BY <3>1, BarsOfCursors
  <2>3. poll.since.at \in Nat /\ Bar(poll.since) \in Nat /\ poll.since.at <= Bar(poll.since)
    BY Bars DEF Typed, TypeOK
  <2>4. t \in Listed(poll.since)
    BY <2>2, <2>3 DEF Listed
  <2>5. modified \in [Tickets -> Nat]
    BY Lengths DEF Typed, TypeOK
  <2>6. PICK k \in 1 .. Len(answer) : answer[k] = t
    BY <2>4, <2>5, AnswerLists
  <2>7. QED
    BY <2>1, <2>6, PagesReach
<1>13. CursorsCover'
  <2>1. CursorsCover /\ Reads
    BY <1>2 DEF Reads
  <2>2. QED
    BY <1>2, <1>4, <2>1, EntitledStays DEF CursorsCover, Reads, Covered, Unpassed,
       Arrived, After
<1>14. QED
  BY <1>6, <1>7, <1>8, <1>9, <1>11, <1>12, <1>13

\* What is read goes into the batch, or its task is current.  The cursor moves to
\* a second that is over, so whoever has changed since stays newer.
LEMMA ReadTicketCovers ==
  ASSUME QuietSource, Typed, CoverInv, ReadTicket
  PROVE  CoverInv'
<1> USE DEF CoverInv
<1> DEFINE item == Head(poll.found)
           batch == IF After(item.content, poll.since) THEN Append(poll.batch, item) ELSE poll.batch
           newest == IF After(item.content, poll.since) /\ After(item.content, poll.newest)
                     THEN [own |-> FALSE, at |-> item.content] ELSE poll.newest
<1>1. /\ item \in Items /\ item = poll.found[1] /\ 1 \in DOMAIN poll.found
      /\ \A i \in DOMAIN Tail(poll.found) :
           i + 1 \in DOMAIN poll.found /\ Tail(poll.found)[i] = poll.found[i + 1]
      /\ \A i \in DOMAIN poll.found : i = 1 \/ i - 1 \in DOMAIN Tail(poll.found)
      /\ poll.found \in Seq(Items)
  BY NextItem DEF ReadTicket, Typed, TypeOK
<1>2. /\ \A u \in Tickets : item.ticket = u => Fresh(u, item.content)
      /\ Past(item.content)
      /\ Format = "redmine" => item.content = modified[item.ticket]
  BY <1>1 DEF FoundHolds, Items
<1>3. Detail(item) = item
  BY <1>1, <1>2 DEF Detail, Items
<1>4. /\ poll' = [poll EXCEPT !.found = Tail(poll.found), !.batch = batch, !.newest = newest]
      /\ poll.step = "reading"
      /\ UNCHANGED <<clock, created, modified, config, cursor, tasks, requests, read>>
  BY <1>3 DEF ReadTicket, source, Typed, PollTyped
<1>5. /\ item.ticket \in Tickets /\ item.content \in Seconds /\ item.content \in Nat
      /\ item = [ticket |-> item.ticket, content |-> item.content]
  BY <1>1, Lengths DEF Items, Seconds
<1>6. /\ {poll.since, poll.newest} \subseteq Cursors /\ clock \in Nat
      /\ Bar(poll.since) \in Nat /\ Bar(poll.newest) \in Nat
      /\ After(item.content, poll.since) <=> item.content >= Bar(poll.since)
      /\ After(item.content, poll.newest) <=> item.content >= Bar(poll.newest)
  BY <1>5, Bars, BarsOfCursors DEF Typed, TypeOK
<1> HIDE DEF item
<1>7. /\ newest = poll.newest \/ (Bar(newest) = item.content + 1 /\ Bar(poll.newest) <= item.content)
      /\ NotAhead(newest) /\ Bar(poll.newest) <= Bar(newest) /\ newest \in Cursors
      /\ Bar(newest) \in Nat
  <2>1. CASE newest = poll.newest
    BY <1>6, <2>1 DEF CursorsNotAhead
  <2>2. CASE newest # poll.newest
    <3>1. newest = [own |-> FALSE, at |-> item.content] /\ item.content >= Bar(poll.newest)
      BY <1>6, <2>2
    <3>2. Bar(newest) = item.content + 1 /\ newest \in Cursors
      BY <1>5, <3>1, Lengths DEF Bar, Cursors, Seconds
    <3>3. NotAhead(newest)
      BY <1>2, <3>1 DEF NotAhead
    <3> HIDE DEF newest
    <3>4. QED
      BY <1>5, <1>6, <3>1, <3>2, <3>3
  <2>3. QED
    BY <2>1, <2>2
<1>8. /\ poll.batch \in Seq(Items) /\ batch \in Seq(Items)
      /\ \A i \in DOMAIN poll.batch : i \in DOMAIN batch /\ batch[i] = poll.batch[i]
      /\ \A i \in DOMAIN batch : i \in DOMAIN poll.batch \/ batch[i] = item
      /\ After(item.content, poll.since) => \E i \in DOMAIN batch : batch[i] = item
  <2>1. poll.batch \in Seq(Items)
    BY DEF Typed, TypeOK
  <2>2. CASE After(item.content, poll.since)
    <3> DEFINE old == poll.batch
               new == Append(old, item)
    <3>1. old \in Seq(Items) /\ item \in Items
      BY <1>1, <2>1
    <3> HIDE DEF old
    <3>2. /\ new \in Seq(Items) /\ Len(new) = Len(old) + 1 /\ Len(old) \in Nat
          /\ \A i \in 1 .. Len(old) : new[i] = old[i]
          /\ new[Len(old) + 1] = item
      BY <3>1, AppendProperties
    <3> HIDE DEF new
    <3>3. DOMAIN new = 1 .. Len(old) + 1 /\ DOMAIN old = 1 .. Len(old)
      BY <3>1, <3>2
    <3>4. /\ \A i \in DOMAIN old : i \in DOMAIN new /\ new[i] = old[i]
          /\ \A i \in DOMAIN new : i \in DOMAIN old \/ new[i] = item
          /\ \E i \in DOMAIN new : new[i] = item
      BY <3>2, <3>3
    <3>5. batch = new
      BY <2>2 DEF new, old
    <3>6. QED
      BY <2>1, <3>2, <3>4, <3>5 DEF old
  <2>3. CASE ~ After(item.content, poll.since)
    BY <2>1, <2>3
  <2>4. QED
    BY <2>2, <2>3
<1> HIDE DEF batch, newest
<1>9. /\ poll'.found = Tail(poll.found) /\ poll'.batch = batch /\ poll'.newest = newest
      /\ poll'.step = "reading" /\ poll'.since = poll.since /\ poll'.projects = poll.projects
  BY <1>4 DEF Typed, PollTyped
<1>10. \A u \in Tickets : Newer(u) => Newer(u)'
  <2>1. SUFFICES ASSUME NEW u \in Tickets, Newer(u)
                 PROVE  /\ After(modified[u], newest)
                        /\ \A i \in DOMAIN Tail(poll.found) : Tail(poll.found)[i].content < modified[u]
    BY <1>4, <1>9 DEF Newer, After
  <2>2. \A i \in DOMAIN Tail(poll.found) : Tail(poll.found)[i].content < modified[u]
    BY <1>1, <2>1 DEF Newer
  <2>3. /\ modified[u] \in Seconds /\ modified[u] \in Nat /\ item.content < modified[u]
        /\ modified[u] >= Bar(poll.newest)
    <3>1. created[u] # 0
      BY <2>1 DEF Newer, Typed, Stamped
    <3>2. QED
      BY <1>1, <2>1, <3>1, BarsOfCursors DEF Newer
  <2>4. modified[u] >= Bar(newest)
    BY <1>5, <1>6, <1>7, <2>3
  <2>5. After(modified[u], newest)
    BY <1>7, <2>3, <2>4, Bars
  <2>6. QED
    BY <2>2, <2>5
<1>11. CursorsNotAhead'
  BY <1>4, <1>7, <1>9 DEF CursorsNotAhead, NotAhead, Starts, Enabling, Past
<1>12. RequestsApart' /\ PollKnows'
  BY <1>4, <1>9 DEF RequestsApart, PollKnows, Reads, Enabling
<1>13. \A u \in Tickets, second \in Nat : Fresh(u, second) => Fresh(u, second)'
  BY <1>4, <1>10, EntitledStays DEF Fresh
<1>14. FoundHolds' /\ BatchHolds'
  <2>1. ASSUME NEW i \in DOMAIN Tail(poll.found), NEW u \in Tickets, NEW second \in Nat,
               Tail(poll.found)[i].ticket = u, Tail(poll.found)[i].content = second
        PROVE  /\ Fresh(u, second)' /\ Past(second)
               /\ Format = "redmine" => second = modified[u]
    <3>1. poll.found[i + 1].ticket = u /\ poll.found[i + 1].content = second
          /\ i + 1 \in DOMAIN poll.found
      BY <1>1, <2>1
    <3>2. /\ Fresh(u, second) /\ Past(second)
          /\ Format = "redmine" => second = modified[u]
      BY <3>1 DEF FoundHolds
    <3>3. QED
      BY <1>13, <3>2
  <2>2. ASSUME NEW i \in DOMAIN batch, NEW u \in Tickets, NEW second \in Nat,
               batch[i].ticket = u, batch[i].content = second
        PROVE  Fresh(u, second)'
    <3>1. CASE batch[i] = item
      BY <1>2, <1>13, <2>2, <3>1
    <3>2. CASE i \in DOMAIN poll.batch
      BY <1>8, <1>13, <2>2, <3>2 DEF BatchHolds
    <3>3. QED
      BY <1>8, <3>1, <3>2
  <2>3. /\ \A i \in DOMAIN Tail(poll.found) : Tail(poll.found)[i].content \in Nat
        /\ \A i \in DOMAIN batch : batch[i].content \in Nat
    <3>1. \A i \in DOMAIN batch : batch[i] \in Items
      BY <1>8, ElementOfSeq
    <3>2. \A i \in DOMAIN poll.found : poll.found[i] \in Items
      BY <1>1, ElementOfSeq
    <3>3. QED
      BY <1>1, <3>1, <3>2, Lengths DEF Items, Seconds
  <2>4. FoundHolds'
    BY <1>4, <1>9, <2>1, <2>3 DEF FoundHolds, Fresh, Past
  <2>5. BatchHolds'
    BY <1>9, <2>2, <2>3 DEF BatchHolds, Fresh
  <2>6. QED
    BY <2>4, <2>5
<1>15. StepsHold' /\ PagesHold'
  BY <1>6, <1>7, <1>9 DEF StepsHold, PagesHold, Bar
<1>16. NothingForgotten'
  <2>1. SUFFICES ASSUME NEW u \in Tickets, Entitled(u), ~ Arrived(u), ~ Newer(u)'
                 PROVE  \/ \E i \in DOMAIN Tail(poll.found) : Tail(poll.found)[i].ticket = u
                        \/ \E i \in DOMAIN batch : batch[i] = [ticket |-> u, content |-> modified[u]]
    <3>1. \A u \in Tickets : (Entitled(u)' <=> Entitled(u)) /\ (Arrived(u)' <=> Arrived(u))
      BY <1>4, EntitledStays DEF Arrived
    <3>2. QED
      BY <1>4, <1>9, <3>1 DEF NothingForgotten
  <2>2. ~ Newer(u)
    BY <1>10, <2>1
  <2>3. \/ \E i \in DOMAIN poll.found : poll.found[i].ticket = u
        \/ \E i \in DOMAIN poll.batch : poll.batch[i] = [ticket |-> u, content |-> modified[u]]
    BY <1>4, <2>1, <2>2 DEF NothingForgotten
  <2>4. CASE \E i \in DOMAIN poll.batch : poll.batch[i] = [ticket |-> u, content |-> modified[u]]
    BY <1>8, <2>4
  <2>5. CASE \E i \in DOMAIN poll.found : poll.found[i].ticket = u
    <3>1. PICK i \in DOMAIN poll.found : poll.found[i].ticket = u
      BY <2>5
    <3>2. CASE i = 1
      <4>1. item.ticket = u /\ item = [ticket |-> u, content |-> modified[u]]
        <5>1. item.ticket = u
          BY <1>1, <3>1, <3>2
        <5>2. item.content = modified[u]
          BY <1>2, <2>1, <2>2, <5>1 DEF Fresh
        <5>3. QED
          BY <1>5, <5>1, <5>2
      <4>2. After(modified[u], poll.since)
        BY <1>4, <2>1 DEF CursorsCover, Reads, Covered
      <4>3. item.content = modified[u]
        BY <4>1
      <4>4. QED
        BY <1>8, <4>1, <4>2, <4>3
    <3>3. CASE i # 1
      <4>1. i - 1 \in DOMAIN Tail(poll.found) /\ (i - 1) + 1 = i
        BY <1>1, <3>3
      <4>2. Tail(poll.found)[i - 1] = poll.found[i]
        BY <1>1, <4>1
      <4>3. QED
        BY <3>1, <4>1, <4>2
    <3>4. QED
      BY <3>2, <3>3
  <2>6. QED
    BY <2>3, <2>4, <2>5
<1>17. CursorsCover'
  <2>1. CursorsCover /\ Reads
    BY <1>4 DEF Reads
  <2>2. QED
    BY <1>4, <1>9, <2>1, EntitledStays DEF CursorsCover, Reads, Covered, Unpassed,
       Arrived, After
<1>18. QED
  BY <1>11, <1>12, <1>14, <1>15, <1>16, <1>17

\* A task that is written with an older content belongs to a ticket that the next
\* poll sees.
LEMMA IngestTicketCovers ==
  ASSUME QuietSource, NoContest, Typed, CoverInv, IngestTicket
  PROVE  CoverInv'
<1> USE DEF CoverInv
<1> DEFINE item == Head(poll.batch)
           project == Route(item.ticket, poll.projects)
<1>1. /\ item \in Items /\ item = poll.batch[1] /\ 1 \in DOMAIN poll.batch
      /\ \A i \in DOMAIN Tail(poll.batch) :
           i + 1 \in DOMAIN poll.batch /\ Tail(poll.batch)[i] = poll.batch[i + 1]
      /\ \A i \in DOMAIN poll.batch : i = 1 \/ i - 1 \in DOMAIN Tail(poll.batch)
      /\ DOMAIN poll.batch \subseteq Int
  <2>1. poll.batch \in Seq(Items)
    BY DEF Typed, PollTyped
  <2>2. QED
    BY <2>1, NextIngested DEF IngestTicket
<1>2. /\ poll' = [poll EXCEPT !.batch = Tail(poll.batch)]
      /\ poll.step = "reading" /\ poll.found = << >>
      /\ UNCHANGED <<clock, created, modified, config, cursor, requests, read>>
  BY DEF IngestTicket, source, Typed, PollTyped
<1>3. item.ticket \in Tickets /\ item = [ticket |-> item.ticket, content |-> item.content]
  BY <1>1 DEF Items
<1>4. Entitled(item.ticket) => project \in Projects
  BY <1>2, <1>3, EntitledRouted DEF Reads
<1>5. \A u \in Tickets : item.ticket = u => Fresh(u, item.content)
  BY <1>1 DEF BatchHolds
<1> HIDE DEF item, project
<1>6. /\ poll'.found = poll.found /\ poll'.batch = Tail(poll.batch) /\ poll'.newest = poll.newest
      /\ poll'.step = poll.step /\ poll'.since = poll.since /\ poll'.projects = poll.projects
      /\ poll'.offset = poll.offset
  BY <1>2 DEF Typed, PollTyped
<1>7. /\ \A u \in Tickets : u # item.ticket => tasks'[u] = tasks[u]
      /\ project \in Projects => /\ tasks'[item.ticket].content = item.content
                                 /\ tasks'[item.ticket].project # None
  <2>1. /\ project = Ignored => tasks' = tasks
        /\ project # Ignored =>
             \E binding \in {project, tasks[item.ticket].project} :
               /\ tasks' = [tasks EXCEPT ![item.ticket] =
                              [content |-> item.content, project |-> binding]]
               /\ project \in Projects => binding \in Projects
    BY Ingested DEF item, project
  <2>2. CASE project = Ignored
    BY <2>1, <2>2, IgnoredIsApart
  <2>3. CASE project # Ignored
    <3>1. PICK binding :
            /\ tasks' = [tasks EXCEPT ![item.ticket] =
                           [content |-> item.content, project |-> binding]]
            /\ project \in Projects => binding \in Projects
      BY <2>1, <2>3
    <3>2. QED
      BY <1>3, <3>1, NoneIsNoProject DEF Typed, TypeOK
  <2>4. QED
    BY <2>2, <2>3
<1>8. /\ CursorsNotAhead' /\ RequestsApart' /\ PollKnows' /\ StepsHold' /\ PagesHold'
      /\ poll'.found = << >>
  BY <1>2, <1>6 DEF CursorsNotAhead, NotAhead, Starts, Enabling, Past, RequestsApart,
     PollKnows, Reads, StepsHold, Bar, PagesHold
<1>9. \A u \in Tickets : (Newer(u)' <=> Newer(u)) /\ (Entitled(u)' <=> Entitled(u))
  <2>1. \A u \in Tickets : Newer(u)' <=> Newer(u)
    BY <1>2, <1>6 DEF Newer, After
  <2>2. QED
    BY <1>2, <2>1, EntitledStays
<1>10. FoundHolds' /\ BatchHolds'
  <2>1. FoundHolds'
    BY <1>8 DEF FoundHolds
  <2>2. ASSUME NEW i \in DOMAIN Tail(poll.batch), NEW u \in Tickets, Tail(poll.batch)[i].ticket = u
        PROVE  Tail(poll.batch)[i].content = modified[u] \/ (Entitled(u)' => Newer(u)')
    BY <1>1, <1>9, <2>2 DEF BatchHolds, Fresh
  <2>3. BatchHolds'
    BY <1>2, <1>6, <2>2 DEF BatchHolds, Fresh
  <2>4. QED
    BY <2>1, <2>3
<1>11. \A u \in Tickets : Entitled(u) /\ Arrived(u) /\ ~ Arrived(u)' => Newer(u)
  <2>1. SUFFICES ASSUME NEW u \in Tickets, Entitled(u), Arrived(u), ~ Arrived(u)'
                 PROVE  Newer(u)
    OBVIOUS
  <2>2. u = item.ticket
    BY <1>2, <1>7, <2>1 DEF Arrived
  <2>3. project \in Projects
    BY <1>4, <2>1, <2>2
  <2>4. QED
    BY <1>2, <1>3, <1>5, <1>7, <2>1, <2>2, <2>3 DEF Arrived, Fresh
<1>12. NothingForgotten'
  <2>1. SUFFICES ASSUME NEW u \in Tickets, Entitled(u), ~ Arrived(u)', ~ Newer(u)
                 PROVE  \E i \in DOMAIN Tail(poll.batch) :
                          Tail(poll.batch)[i] = [ticket |-> u, content |-> modified[u]]
    BY <1>2, <1>6, <1>9 DEF NothingForgotten
  <2>2. ~ Arrived(u)
    BY <1>11, <2>1
  <2>3. PICK i \in DOMAIN poll.batch : poll.batch[i] = [ticket |-> u, content |-> modified[u]]
    BY <1>2, <2>1, <2>2 DEF NothingForgotten
  <2>4. i # 1
    <3>1. ASSUME i = 1 PROVE FALSE
      <4>1. item.ticket = u /\ item.content = modified[u]
        BY <1>1, <2>3, <3>1
      <4>2. project \in Projects
        BY <1>4, <2>1, <4>1
      <4>3. QED
        BY <1>2, <1>7, <2>1, <4>1, <4>2 DEF Arrived
    <3>2. QED
      BY <3>1
  <2>5. i - 1 \in DOMAIN Tail(poll.batch) /\ (i - 1) + 1 = i
    BY <1>1, <2>4
  <2>6. Tail(poll.batch)[i - 1] = poll.batch[i]
    BY <1>1, <2>5
  <2>7. QED
    BY <2>3, <2>5, <2>6
<1>13. CursorsCover'
  <2>1. CursorsCover /\ Reads
    BY <1>2 DEF Reads
  <2>2. \A u \in Tickets : Entitled(u) /\ Newer(u) =>
          After(modified[u], poll.since) /\ After(modified[u], cursor)
    <3>1. ASSUME NEW u \in Tickets, Entitled(u), Newer(u) PROVE After(modified[u], poll.since)
      <4>1. created[u] # 0 /\ After(modified[u], poll.newest)
        BY <3>1 DEF Entitled, Newer
      <4>2. modified[u] \in Nat /\ modified[u] >= Bar(poll.newest)
            /\ Bar(poll.newest) \in Nat /\ Bar(poll.since) \in Nat
        BY <4>1, BarsOfCursors
      <4>3. modified[u] >= Bar(poll.since)
        BY <4>2 DEF StepsHold
      <4>4. QED
        BY <4>1, <4>3, BarsOfCursors
    <3>2. QED
      BY <2>1, <3>1 DEF CursorsCover, Unpassed
  <2>3. \A c \in {cursor, poll.since} : \A u \in Tickets :
          Entitled(u) /\ ~ After(modified[u], c) => Arrived(u)'
    BY <1>11, <2>1, <2>2 DEF CursorsCover, Covered
  <2>4. QED
    BY <1>2, <1>6, <1>9, <2>1, <2>3 DEF CursorsCover, Reads, Covered, Unpassed, After
<1>14. QED
  BY <1>8, <1>10, <1>12, <1>13

\* A poll that ends has nothing left but tickets that have arrived or are newer than
\* its cursor; one that fails leaves the cursor it began with, as one that is due does.
LEMMA PollEndCovers ==
  ASSUME QuietSource, Typed, CoverInv, EndPoll \/ PollFails \/ DecidePoll
  PROVE  CoverInv'
<1> USE DEF CoverInv
<1>1. /\ poll' = Idle \/ poll' = [Idle EXCEPT !.step = "due"]
      /\ UNCHANGED <<clock, created, modified, config, tasks, requests, read>>
      /\ \/ cursor' = cursor
         \/ /\ cursor' = poll.newest /\ poll.step = "reading"
            /\ poll.found = << >> /\ poll.batch = << >>
  BY DEF EndPoll, PollFails, DecidePoll, Done, source
<1>2. /\ poll'.step \in {"idle", "due"} /\ poll'.since = NoCursor /\ poll'.newest = NoCursor
      /\ poll'.found = << >> /\ poll'.batch = << >>
  BY <1>1 DEF Idle
<1>3. /\ clock \in Nat /\ clock > 0
      /\ \A p \in Projects : config[p].intake \in Nat
  BY BarsOfCursors, Lengths DEF Typed, TypeOK, Seconds
<1>4. CursorsNotAhead'
  BY <1>1, <1>2, <1>3 DEF CursorsNotAhead, NotAhead, Starts, Enabling, Past, NoCursor
<1>5. RequestsApart' /\ PollKnows'
  BY <1>1, <1>2, <1>3 DEF RequestsApart, PollKnows, Reads, Enabling
<1>6. FoundHolds' /\ BatchHolds' /\ StepsHold' /\ PagesHold' /\ NothingForgotten'
  BY <1>2 DEF FoundHolds, BatchHolds, StepsHold, PagesHold, NothingForgotten, Bar,
     NoCursor
<1>7. CursorsCover'
  <2>1. ASSUME cursor' # cursor
        PROVE  /\ cursor' = poll.newest
               /\ \A u \in Tickets :
                    Entitled(u) /\ ~ After(modified[u], poll.newest) => Arrived(u)
    <3>1. /\ poll.step = "reading" /\ DOMAIN poll.found = {} /\ DOMAIN poll.batch = {}
      BY <1>1, <2>1
    <3>2. \A u \in Tickets : Entitled(u) => Arrived(u) \/ Newer(u)
      BY <3>1 DEF NothingForgotten
    <3>3. QED
      BY <1>1, <2>1, <3>2 DEF Newer
  <2>2. \A u \in Tickets : Entitled(u) /\ ~ After(modified[u], cursor) => Arrived(u)
    BY DEF CursorsCover, Covered
  <2>3. \A u \in Tickets : Entitled(u) /\ ~ After(modified[u], cursor') => Arrived(u)
    BY <2>1, <2>2
  <2>4. \A u \in Tickets : (Entitled(u)' <=> Entitled(u)) /\ (Arrived(u)' <=> Arrived(u))
    BY <1>1, EntitledStays DEF Arrived
  <2>5. QED
    BY <1>1, <1>2, <2>3, <2>4 DEF CursorsCover, Reads, Covered, After
<1>8. QED
  BY <1>4, <1>5, <1>6, <1>7

\* A request that enables or disables a pipeline entitles nobody: whoever created
\* his ticket before is too early, and after the request nobody has yet.  Nor does
\* it bring any beginning before a cursor.
LEMMA SwitchEntitles ==
  ASSUME Typed, NoContest, CoverInv, NEW c \in Clients,
         Respond(c) \/ RequestFails(c) \/ \E p \in Projects : Request(c, p)
  PROVE  /\ RequestsApart' /\ PollKnows'
         /\ \A t \in Tickets : Entitled(t)' => Entitled(t)
         /\ \A d \in Cursors : NotAhead(d) => NotAhead(d)'
<1> USE DEF CoverInv
<1> DEFINE r == requests'[c]
           NoEarlierStart ==
             \A p \in Projects, start \in Seconds : Starts(p, start)' => Starts(p, start) \/ start = clock
<1>1. /\ UNCHANGED <<clock, created, modified, poll, read>>
      /\ \A d \in Clients \ {c} : requests'[d] = requests[d]
  BY RequestStep DEF Respond, RequestFails, Request, WriteConfig, WriteCursor,
     SaveHealth, source, Typed, TypeOK
<1>2. /\ \A p \in Projects : config[p].intake \in Nat /\ config[p].enabled \in BOOLEAN
      /\ \A d \in Clients : requests[d].at \in Nat
      /\ clock \in Nat
      /\ \A t \in Tickets : created[t] \in Nat /\ created[t] <= clock
  <2>1. \A t \in Tickets :
          /\ created[t] \in Nat /\ modified[t] \in Nat
          /\ created[t] <= modified[t] /\ modified[t] <= clock
    BY Lengths DEF Typed, TypeOK, Stamped
  <2>2. \A p \in Projects : config[p].intake \in Nat /\ config[p].enabled \in BOOLEAN
    BY Lengths DEF Typed, TypeOK, Seconds
  <2>3. clock \in Nat /\ \A d \in Clients : requests[d].at \in Nat
    BY BarsOfCursors, Lengths DEF Typed, TypeOK
  <2>4. QED
    BY <2>1, <2>2, <2>3
<1>3. MaxSwitches # 0 /\ {"requests", "polls"} \subseteq Apart
  <2>1. MaxSwitches # 0
    <3>1. CASE \E p \in Projects : Request(c, p)
      BY <3>1, Numbers DEF Request, Typed, TypeOK
    <3>2. CASE Respond(c) \/ RequestFails(c)
      <4>1. requests[c] # NoRequest
        BY <3>2 DEF Respond, WriteConfig, WriteCursor, SaveHealth, RequestFails,
           NoRequest
      <4>2. QED
        BY <4>1 DEF RequestsApart
    <3>3. QED
      BY <3>1, <3>2
  <2>2. QED
    BY <2>1 DEF NoContest
<1>4. ASSUME NEW p \in Projects, Request(c, p)
      PROVE  RequestsApart' /\ PollKnows' /\ NoEarlierStart
  <2>1. /\ config' = config /\ \A d \in Clients : requests[d] = NoRequest
        /\ r = [step |-> "asked", project |-> p, on |-> ~ config[p].enabled,
                at |-> IF config[p].enabled THEN config[p].intake ELSE clock]
        /\ ~ config[p].enabled => poll.step \in {"idle", "due"}
    BY <1>3, <1>4 DEF Request, Typed, TypeOK
  <2>2. /\ r.step = "asked" /\ (r.on <=> ~ config[p].enabled) /\ r.at <= clock
        /\ r.on => r.at = clock
    <3> DEFINE on == ~ config[p].enabled
               at == IF config[p].enabled THEN config[p].intake ELSE clock
    <3>1. r = [step |-> "asked", project |-> p, on |-> on, at |-> at]
      BY <2>1
    <3>2. at <= clock /\ (on => at = clock)
      BY <1>2 DEF RequestsApart
    <3> HIDE DEF r, on, at
    <3>3. r.step = "asked" /\ r.on = on /\ r.at = at
      BY <3>1
    <3>4. QED
      BY <3>2, <3>3 DEF on
  <2> HIDE DEF r
  <2>3. \A d \in Clients \ {c} : requests'[d] = NoRequest
    BY <1>1, <2>1
  <2>4. \A d \in Clients : d = c \/ (requests'[d].step = "idle" /\ requests'[d].at = 0)
    BY <2>3 DEF NoRequest
  <2>5. RequestsApart'
    BY <1>1, <1>2, <1>3, <2>1, <2>2, <2>3, <2>4 DEF RequestsApart, r
  <2>6. Reads => ~ r.on
    BY <2>1, <2>2 DEF Reads
  <2>7. PollKnows'
    BY <1>1, <1>3, <2>1, <2>4, <2>6 DEF PollKnows, Reads, Enabling, r
  <2>8. NoEarlierStart
    BY <1>1, <2>1, <2>2, <2>4 DEF Starts, Enabling, r
  <2>9. QED
    BY <2>5, <2>7, <2>8
<1>5. ASSUME WriteConfig(c)
      PROVE  RequestsApart' /\ PollKnows' /\ NoEarlierStart
  <2> DEFINE p == requests[c].project
  <2>1. requests[c].step = "asked" /\ requests[c] # NoRequest /\ p \in Projects
    BY <1>5 DEF WriteConfig, NoRequest, Typed, RequestsTyped
  <2>2. /\ config'[p] = [enabled |-> requests[c].on, intake |-> requests[c].at]
        /\ \A q \in Projects \ {p} : config'[q] = config[q]
    BY <1>5, <2>1 DEF WriteConfig, Typed, TypeOK
  <2>3. /\ r.step # "asked" /\ r.at <= clock
        /\ r.step = "cursor" => /\ r.at = requests[c].at
                                /\ \A q \in Projects \ {p} : ~ config[q].enabled
    <3>1. r = IF ~ requests[c].on THEN NoRequest
              ELSE [requests[c] EXCEPT !.step =
                      IF Enabled(config) \ {p} = {} THEN "cursor" ELSE "health"]
      BY <1>5 DEF WriteConfig, Typed, TypeOK
    <3>2. CASE ~ requests[c].on
      BY <1>2, <3>1, <3>2 DEF NoRequest
    <3>3. CASE requests[c].on
      <4>1. /\ r.step = IF Enabled(config) \ {p} = {} THEN "cursor" ELSE "health"
            /\ r.at = requests[c].at
        BY <3>1, <3>3 DEF Typed, TypeOK
      <4> HIDE DEF r
      <4>2. QED
        BY <4>1 DEF Enabled, RequestsApart
    <3>4. QED
      BY <3>2, <3>3
  <2>4. \A d \in Clients \ {c} : requests'[d] = NoRequest
    BY <1>1, <2>1 DEF RequestsApart
  <2>5. \A d \in Clients : d = c \/ (requests'[d].step = "idle" /\ requests'[d].at = 0)
    BY <2>4 DEF NoRequest
  <2> HIDE DEF r
  <2>6. RequestsApart'
    <3>1. \A d, e \in Clients : requests'[d] # NoRequest /\ requests'[e] # NoRequest => d = e
      BY <2>4
    <3>2. \A d \in Clients : requests'[d].at <= clock
      BY <1>2, <2>3, <2>5 DEF r
    <3>3. \A d \in Clients, q \in Projects :
            requests'[d].step = "cursor" /\ config'[q].enabled =>
              config'[q].intake = requests'[d].at
      BY <2>2, <2>3, <2>5 DEF r
    <3>4. \A q \in Projects : config'[q].intake <= clock
      BY <2>2 DEF RequestsApart
    <3>5. QED
      BY <1>1, <1>3, <3>1, <3>2, <3>3, <3>4 DEF RequestsApart
  <2>7. PollKnows'
    <3>1. Reads => ~ requests[c].on
      BY <2>1 DEF PollKnows, Enabling
    <3>2. QED
      BY <1>1, <1>3, <2>2, <2>3, <2>5, <3>1 DEF PollKnows, Reads, Enabling, r
  <2>8. NoEarlierStart
    BY <2>1, <2>2, <2>3, <2>5 DEF Starts, Enabling, r
  <2>9. QED
    BY <2>6, <2>7, <2>8
<1>6. ASSUME WriteCursor(c) \/ SaveHealth(c) \/ RequestFails(c)
      PROVE  RequestsApart' /\ PollKnows' /\ NoEarlierStart
  <2>1. config' = config /\ requests[c] # NoRequest
    BY <1>6 DEF WriteCursor, SaveHealth, RequestFails, NoRequest
  <2>2. r.step \in {"idle", "health"} /\ r.at <= clock
    <3>1. r = NoRequest \/ (r = [requests[c] EXCEPT !.step = "health"] /\ WriteCursor(c))
      BY <1>6 DEF WriteCursor, SaveHealth, RequestFails, Typed, TypeOK
    <3>2. QED
      BY <1>2, <3>1 DEF NoRequest, RequestsApart, Typed, TypeOK
  <2>3. \A d \in Clients \ {c} : requests'[d] = NoRequest
    BY <1>1, <2>1 DEF RequestsApart
  <2>4. \A d \in Clients : d = c \/ (requests'[d].step = "idle" /\ requests'[d].at = 0)
    BY <2>3 DEF NoRequest
  <2> HIDE DEF r
  <2>5. RequestsApart'
    BY <1>1, <1>2, <1>3, <2>1, <2>2, <2>3, <2>4 DEF RequestsApart, r
  <2>6. PollKnows' /\ NoEarlierStart
    BY <1>1, <1>3, <2>1, <2>2, <2>4 DEF PollKnows, Reads, Starts, Enabling, r
  <2>7. QED
    BY <2>5, <2>6
<1> HIDE DEF r
<1>7. RequestsApart' /\ PollKnows' /\ NoEarlierStart
  BY <1>4, <1>5, <1>6 DEF Respond
<1> HIDE DEF NoEarlierStart
<1>8. ASSUME NEW t \in Tickets, Entitled(t)' PROVE Entitled(t)
  <2>1. created[t] # 0
    BY <1>1, <1>8 DEF Entitled
  <2>2. PICK p \in Projects, start \in Seconds :
          /\ Starts(p, start)' /\ created[t] > start /\ t \in Filtered[p] \cap Conditioned[p]
          /\ Later(modified[t], start)'
    BY <1>1, <1>3, <1>8 DEF Entitled
  <2>3. Starts(p, start)
    BY <1>2, <1>7, <2>2 DEF NoEarlierStart
  <2>4. Later(modified[t], start)
    BY <1>1, <2>2 DEF Later, Day
  <2>5. QED
    BY <1>3, <2>1, <2>2, <2>3, <2>4 DEF Entitled
<1>9. ASSUME NEW d \in Cursors, NotAhead(d) PROVE NotAhead(d)'
  BY <1>1, <1>7, <1>9 DEF NotAhead, NoEarlierStart, Past
<1>10. QED
  BY <1>7, <1>8, <1>9

\* The cursor that a request writes is the beginning of the only pipeline there is.
LEMMA SwitchCovers ==
  ASSUME Typed, NoContest, CoverInv, NEW c \in Clients,
         Respond(c) \/ RequestFails(c) \/ \E p \in Projects : Request(c, p)
  PROVE  CoverInv'
<1> USE DEF CoverInv
<1>1. /\ RequestsApart' /\ PollKnows'
      /\ \A t \in Tickets : Entitled(t)' => Entitled(t)
      /\ \A d \in Cursors : NotAhead(d) => NotAhead(d)'
  BY SwitchEntitles
<1>2. UNCHANGED <<clock, created, modified, poll, tasks, read>>
  BY DEF Respond, RequestFails, Request, WriteConfig, WriteCursor, SaveHealth, source
<1>3. FoundHolds' /\ BatchHolds' /\ StepsHold' /\ PagesHold' /\ NothingForgotten'
  <2>1. \A second \in Nat : Past(second) => Past(second)'
    BY <1>2 DEF Past
  <2>2. QED
    BY <1>1, <1>2, <2>1, PollStands
<1>4. \E d \in Cursors :
        /\ cursor' = d /\ NotAhead(d)
        /\ d = cursor \/ \A t \in Tickets : Entitled(t)' => After(modified[t], d)
  <2>1. CASE WriteCursor(c)
    <3> DEFINE d == [own |-> TRUE, at |-> requests[c].at]
    <3>1. requests[c].step = "cursor" /\ cursor' = d
      BY <2>1 DEF WriteCursor
    <3>2. d \in Cursors /\ d.own
      BY DEF Typed, TypeOK, Cursors
    <3>3. NotAhead(d)
      <4>1. requests[c].at \in Nat /\ requests[c].at <= clock
        BY Lengths DEF Typed, TypeOK, RequestsApart
      <4>2. \A e \in Clients : ~ Enabling(e)
        BY <3>1 DEF RequestsApart, Enabling, NoRequest
      <4>3. \A p \in Projects, start \in Seconds : Starts(p, start) => start = requests[c].at
        BY <3>1, <4>2 DEF Starts, RequestsApart
      <4>4. QED
        BY <4>1, <4>3 DEF NotAhead
    <3>4. \A t \in Tickets : Entitled(t)' => After(modified[t], d)
      <4> HIDE DEF d
      <4> QED BY <1>1, <3>2, <3>3, StartCovers
    <3>5. QED
      <4> HIDE DEF d
      <4> QED BY <3>1, <3>2, <3>3, <3>4
  <2>2. CASE ~ WriteCursor(c)
    <3>1. cursor' = cursor /\ cursor \in Cursors
      BY <2>2 DEF Respond, RequestFails, Request, WriteConfig, SaveHealth, Typed, TypeOK
    <3>2. QED
      BY <3>1 DEF CursorsNotAhead
  <2>3. QED
    BY <2>1, <2>2
<1>5. CursorsNotAhead'
  BY <1>1, <1>2, <1>4 DEF CursorsNotAhead, Typed, TypeOK
<1>6. CursorsCover'
  BY <1>1, <1>2, <1>4 DEF CursorsCover, Reads, Covered, Unpassed, Arrived, After
<1>7. QED
  BY <1>1, <1>3, <1>5, <1>6

LEMMA StepCovers ==
  QuietSource /\ NoContest /\ Typed /\ CoverInv /\ [Next]_vars => CoverInv'
<1> SUFFICES ASSUME QuietSource, NoContest, Typed, CoverInv, [Next]_vars PROVE CoverInv'
  OBVIOUS
<1>1. CASE \E t \in Tickets : Create(t) \/ Edit(t)
  <2>1. Typed'
    BY StepTyped
  <2>2. QED
    BY <1>1, <2>1, ChangeCovers
<1>2. CASE Tick
  BY <1>2, TickCovers
<1>3. CASE BeginPoll
  BY <1>3, BeginPollCovers
<1>4. CASE Poll
  BY <1>4, FetchPageCovers, ReadTicketCovers, IngestTicketCovers, PollEndCovers DEF Poll
<1>5. CASE PollFails \/ DecidePoll
  BY <1>5, PollEndCovers
<1>6. CASE \E c \in Clients : Respond(c) \/ RequestFails(c) \/ \E p \in Projects : Request(c, p)
  BY <1>6, SwitchCovers
<1>7. CASE UNCHANGED vars \/ \E p \in Projects, healthy \in BOOLEAN : CheckHealth(p, healthy)
  <2>1. UNCHANGED <<clock, created, modified, config, cursor, poll, tasks, requests, read>>
    BY <1>7 DEF vars, source, CheckHealth
  <2>2. CursorsNotAhead' /\ RequestsApart' /\ PollKnows'
    BY <2>1 DEF CoverInv, CursorsNotAhead, NotAhead, Starts, Enabling, Past,
       RequestsApart, PollKnows, Reads
  <2>3. FoundHolds' /\ BatchHolds' /\ StepsHold' /\ PagesHold' /\ NothingForgotten'
    <3>1. \A second \in Nat : Past(second) => Past(second)'
      BY <2>1 DEF Past
    <3>2. QED
      BY <2>1, <3>1, EntitledStays, PollStands DEF CoverInv
  <2>4. CursorsCover'
    BY <2>1, EntitledStays DEF CoverInv, CursorsCover, Reads, Covered, Unpassed,
       Arrived, After
  <2>5. QED
    BY <2>2, <2>3, <2>4 DEF CoverInv
<1>8. QED
  BY <1>1, <1>2, <1>3, <1>4, <1>5, <1>6, <1>7 DEF Next

\* The cursor passes no ticket that a pipeline wants before its task has the
\* ticket's content, for both sources: although polls, requests and checks fail at
\* any step, tickets are created and changed between them, a pipeline turns red while
\* a poll is on its way, and one is enabled between the tick's decision and the poll.
\* TAPD's comparison excepts the tickets last changed on a pipeline's first day.
\* The tickets must not change where a poll looks away: in a second in which it
\* has read a page, between a Redmine ticket's listing and its details (which go to
\* the end of the list with their change), and between two pages of TAPD.  A poll
\* must find the enabled pipelines healthy.  When pipelines are switched, no two may
\* take the same ticket, their requests must not overlap, and none may be between its
\* time and its configuration during a poll.
THEOREM CursorPassesNobody ==
  ASSUME "seconds" \in Quiet, (IF Format = "redmine" THEN "listed" ELSE "pages") \in Quiet,
         "health" \in Apart,
         \/ MaxSwitches = 0
         \/ /\ {"requests", "polls"} \subseteq Apart
            /\ \A p, q \in Projects :
                 p # q => Filtered[p] \cap Conditioned[p] \cap Filtered[q] \cap Conditioned[q] = {}
  PROVE  Spec => []CursorCovers
<1>1. QuietSource /\ NoContest
  BY DEF QuietSource, NoContest
<1>2. Typed /\ CoverInv => CursorCovers
  BY WantedEntitled DEF CoverInv, CursorsCover, Covered, CursorCovers
<1>3. Init => Typed /\ CoverInv
  BY InitTyped, InitCovers
<1>4. Typed /\ CoverInv /\ [Next]_vars => (Typed /\ CoverInv)'
  BY <1>1, StepTyped, StepCovers
<1>5. QED
  BY <1>2, <1>3, <1>4, PTL DEF Spec
=============================================================================
