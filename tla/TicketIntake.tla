---------------------------- MODULE TicketIntake ----------------------------
(***************************************************************************)
(* How the tickets of one feedback source become tasks: the poll of the    *)
(* scheduler, RedmineTicketProvider and TapdTicketProvider with their      *)
(* pages and the incremental cursor, IngestionService, route_ticket, the   *)
(* checks of the pipelines' health, and the API handler that enables and   *)
(* disables a pipeline meanwhile.                                          *)
(*                                                                         *)
(* Time is counted in the seconds the source stamps its tickets with.  A   *)
(* pipeline's intakeStartedAt has microseconds: it lies inside its second. *)
(* A ticket's content is named by the second of its last change.           *)
(***************************************************************************)
EXTENDS Integers, Sequences, FiniteSets, FiniteSetsExt

CONSTANTS
  Format,       \* the source: "redmine" or "tapd"
  NumTickets,   \* the tickets somebody assigns to the polling account
  Projects, None,
  Clients,      \* of the API
  Priority,     \* of the routing rule of each project
  Filtered,     \* the tickets its version and title filters let pass
  Conditioned,  \* the tickets its conditions match
  PageSize,     \* of the source's answers
  DayLength,    \* seconds in a day
  Running,      \* the sets of projects that may be enabled at the beginning
  Quiet,        \* when nobody changes a ticket: between two "pages" of a poll,
                \* in "seconds" in which a poll has read a page, and, of the
                \* tickets a poll has "listed", until it has read their details
  Apart,        \* what does not overlap: the "requests" of clients; "polls" and the
                \* enabling of a project they do not know; polls and the red "health"
                \* of a project that is enabled
  MaxTime,      \* bound: seconds
  Edited,       \* bound: the tickets that change after they appear
  MaxFailures,  \* bound: polls, requests and checks of a project that fail
  MaxSwitches   \* bound: requests that enable or disable a project

Tickets == 1 .. NumTickets
Seconds == 1 .. MaxTime

ASSUME Formats == Format \in {"redmine", "tapd"}
ASSUME Numbers == {NumTickets, MaxFailures, MaxSwitches} \subseteq Nat
ASSUME Lengths == {PageSize, DayLength, MaxTime} \subseteq Nat \ {0}
ASSUME FiniteProjects == IsFiniteSet(Projects)
ASSUME Rules ==
  /\ Priority \in [Projects -> Nat]
  /\ Filtered \in [Projects -> SUBSET Tickets]
  /\ Conditioned \in [Projects -> SUBSET Tickets]
ASSUME RunningProjects == Running \subseteq SUBSET Projects
ASSUME QuietTimes == Quiet \subseteq {"pages", "seconds", "listed"}
ASSUME ApartKinds == Apart \subseteq {"requests", "polls", "health"}
ASSUME NoneIsNoProject == None \notin Projects

VARIABLES
  clock,
  created, modified,  \* the source's tickets, 0 before they exist
  config,     \* enabled and intakeStartedAt of each project
  ready,      \* project_health
  cursor,     \* provider_cursors: a second, and whether the backend wrote it
              \* (its isoformat) or the source; NoCursor without a row
  poll,       \* the poll in flight
  tasks,      \* the content and the project of the task of each ticket
  requests,   \* those in flight that enable or disable a project
  failures,   \* polls, requests and checks that failed
  switches,   \* requests that enabled or disabled a project
  read        \* history: a poll has read a page in this second

source == <<created, modified>>
vars ==
  <<clock, source, config, ready, cursor, poll, tasks, requests, failures, switches, read>>

NoCursor == [own |-> FALSE, at |-> 0]
Cursors == [own : BOOLEAN, at : 0 .. MaxTime]
NoTask == [content |-> 0, project |-> None]
NoRequest == [step |-> "idle", project |-> None, on |-> FALSE, at |-> 0]
Idle == [step |-> "idle", since |-> NoCursor, newest |-> NoCursor,
         projects |-> [p \in Projects |-> [enabled |-> FALSE, intake |-> 0]],
         offset |-> 0, found |-> << >>, batch |-> << >>]

Init ==
  /\ clock = 1
  /\ created = [t \in Tickets |-> 0]
  /\ modified = [t \in Tickets |-> 0]
  /\ config \in {[p \in Projects |-> [enabled |-> p \in on, intake |-> 1]] : on \in Running}
  /\ ready = [p \in Projects |-> TRUE]
  /\ cursor = NoCursor
  /\ poll = Idle
  /\ tasks = [t \in Tickets |-> NoTask]
  /\ requests = [c \in Clients |-> NoRequest]
  /\ failures = 0
  /\ switches = 0
  /\ read = FALSE

---------------------------------------------------------------------------
(***************************************************************************)
(* The source.                                                             *)
(***************************************************************************)
Undisturbed(t) ==
  /\ "pages" \in Quiet => poll.step # "paging"
  /\ "seconds" \in Quiet => ~ read
  /\ "listed" \in Quiet => \A i \in DOMAIN poll.found : poll.found[i].ticket # t

Create(t) ==
  /\ created[t] = 0
  /\ Undisturbed(t)
  /\ created' = [created EXCEPT ![t] = clock]
  /\ modified' = [modified EXCEPT ![t] = clock]
  /\ UNCHANGED <<clock, config, ready, cursor, poll, tasks, requests, failures, switches, read>>

Edit(t) ==
  /\ t \in Edited
  /\ created[t] # 0
  /\ modified[t] < clock
  /\ Undisturbed(t)
  /\ modified' = [modified EXCEPT ![t] = clock]
  /\ UNCHANGED <<clock, created, config, ready, cursor, poll, tasks, requests, failures,
                 switches, read>>

Tick ==
  /\ clock < MaxTime
  /\ clock' = clock + 1
  /\ read' = FALSE
  /\ UNCHANGED <<source, config, ready, cursor, poll, tasks, requests, failures, switches>>

\* The query: modified or updated_on not before the cursor.  Redmine is asked to
\* sort by updated_on and id; TAPD is taken to answer by id.
Before(s, t) ==
  IF Format = "redmine" /\ modified[s] # modified[t]
  THEN modified[s] < modified[t] ELSE s < t

Listed(since) == {t \in Tickets : created[t] # 0 /\ modified[t] >= since.at}

\* The k-th ticket of the answer is the one that k - 1 others come before.
Answer(since) ==
  [k \in 1 .. Cardinality(Listed(since)) |->
     CHOOSE t \in Listed(since) : Cardinality({s \in Listed(since) : Before(s, t)}) = k - 1]

Day(second) == second \div DayLength

\* `modified > cursor`, as the strings compare: "...:00Z" is greater than
\* "...:00.123456+00:00", and TAPD's "<day> <time>" is smaller than the
\* backend's "<day>T<time>" on the same day.
After(second, c) ==
  CASE c = NoCursor -> TRUE
    [] c # NoCursor /\ ~ c.own -> second > c.at
    [] c.own /\ Format = "redmine" -> second >= c.at
    [] c.own /\ Format = "tapd" -> Day(second) > Day(c.at)

Enabled(projects) == {p \in Projects : projects[p].enabled}

\* Between the time a pipeline is to start at and its place in the configuration.
Enabling(c) == requests[c].step = "asked" /\ requests[c].on

---------------------------------------------------------------------------
(***************************************************************************)
(* The scheduler.  A tick decides on a poll by the pipelines it finds      *)
(* enabled and healthy; the poll, in a thread of its own, reads both again *)
(* and goes on whatever it finds, without a cursor if nobody wrote one.    *)
(***************************************************************************)
Usable ==
  [p \in Projects |->
     [enabled |-> config[p].enabled /\ ready[p], intake |-> config[p].intake]]

\* The scheduled preflight, or that of an execution.
CheckHealth(p, healthy) ==
  /\ ready[p] # healthy
  /\ healthy \/ failures < MaxFailures
  /\ ready' = [ready EXCEPT ![p] = healthy]
  /\ failures' = IF healthy THEN failures ELSE failures + 1
  /\ UNCHANGED <<clock, source, config, cursor, poll, tasks, requests, switches, read>>

DecidePoll ==
  /\ poll.step = "idle"
  /\ Enabled(Usable) # {}
  /\ poll' = [Idle EXCEPT !.step = "due"]
  /\ UNCHANGED <<clock, source, config, ready, cursor, tasks, requests, failures, switches,
                 read>>

\* Where polls and others are apart.
NobodyLeftOut ==
  /\ "polls" \in Apart => \A c \in Clients : ~ Enabling(c)
  /\ "health" \in Apart => \A p \in Projects : config[p].enabled => ready[p]

BeginPoll ==
  /\ poll.step = "due"
  /\ NobodyLeftOut
  /\ LET starts == {Usable[p].intake : p \in Enabled(Usable)}
         since == IF cursor = NoCursor /\ starts # {}
                  THEN [own |-> TRUE, at |-> Min(starts)] ELSE cursor
     IN /\ cursor' = since
        /\ poll' = [Idle EXCEPT !.step = "paging", !.since = since, !.newest = since,
                                !.projects = Usable]
  /\ UNCHANGED <<clock, source, config, ready, tasks, requests, failures, switches, read>>

---------------------------------------------------------------------------
(***************************************************************************)
(* poll of the two adapters.                                               *)
(***************************************************************************)
LastPage(page, offset) ==
  IF Format = "redmine"
  THEN page = << >> \/ offset >= Len(Answer(poll.since))
  ELSE Len(page) < PageSize

FetchPage ==
  /\ poll.step = "paging"
  /\ LET answer == Answer(poll.since)
         offset == poll.offset + PageSize
         page == SubSeq(answer, poll.offset + 1, Min({offset, Len(answer)}))
     IN poll' = [poll EXCEPT
          !.offset = IF LastPage(page, offset) THEN 0 ELSE offset,
          !.found = @ \o [i \in DOMAIN page |->
                            [ticket |-> page[i], content |-> modified[page[i]]]],
          !.step = IF LastPage(page, offset) THEN "reading" ELSE "paging"]
  /\ read' = TRUE
  /\ UNCHANGED <<clock, source, config, ready, cursor, tasks, requests, failures, switches>>

\* The loop over what was found; Redmine's goes by the detail it gets now.
Detail(item) ==
  IF Format = "redmine" THEN [item EXCEPT !.content = modified[item.ticket]] ELSE item

ReadTicket ==
  /\ poll.step = "reading"
  /\ poll.found # << >>
  /\ LET item == Detail(Head(poll.found))
     IN poll' = [poll EXCEPT
          !.found = Tail(@),
          !.batch = IF After(item.content, poll.since) THEN Append(@, item) ELSE @,
          !.newest = IF After(item.content, poll.since) /\ After(item.content, @)
                     THEN [own |-> FALSE, at |-> item.content] ELSE @]
  /\ UNCHANGED <<clock, source, config, ready, cursor, tasks, requests, failures, switches, read>>

---------------------------------------------------------------------------
(***************************************************************************)
(* IngestionService and route_ticket.                                      *)
(***************************************************************************)
Ignored == "ignored"

ASSUME IgnoredIsApart == Ignored \notin Projects \cup {None}

\* The project a ticket is routed to, None when its task fails for want of a
\* unique one, or Ignored.
Route(t, projects) ==
  LET passed == {p \in Enabled(projects) : t \in Filtered[p]}
      candidates == passed \cap {p \in Projects : t \in Conditioned[p]}
      top == {p \in candidates : \A q \in candidates : Priority[q] <= Priority[p]}
  IN IF candidates = {}
     THEN IF passed = {} /\ Enabled(projects) # {} THEN Ignored ELSE None
     ELSE IF Cardinality(top) > 1 THEN None
     ELSE LET p == CHOOSE p \in top : TRUE
          IN IF created[t] <= projects[p].intake THEN Ignored ELSE p

\* What a task is bound to when its ticket is ingested: the new route, unless it was
\* bound and nothing changed; a task that runs keeps its project.
Bindings(task, content, project) ==
  CASE task.project = None -> {project}
    [] task.project # None /\ task.content = content -> {task.project}
    [] OTHER -> {project, task.project}

\* Mutant: the tickets that no pipeline is to have are ingested, too.
IngestIgnored ==
  /\ poll.step = "reading"
  /\ poll.found = << >>
  /\ poll.batch # << >>
  /\ LET item == Head(poll.batch)
     IN tasks' = [tasks EXCEPT ![item.ticket] =
                    [content |-> item.content, project |-> Route(item.ticket, poll.projects)]]
  /\ poll' = [poll EXCEPT !.batch = Tail(@)]
  /\ UNCHANGED <<clock, source, config, ready, cursor, requests, failures, switches, read>>

IngestTicket ==
  /\ poll.step = "reading"
  /\ poll.found = << >>
  /\ poll.batch # << >>
  /\ LET item == Head(poll.batch)
         project == Route(item.ticket, poll.projects)
     IN IF project = Ignored THEN tasks' = tasks
        ELSE \E binding \in Bindings(tasks[item.ticket], item.content, project) :
               tasks' = [tasks EXCEPT ![item.ticket] =
                           [content |-> item.content, project |-> binding]]
  /\ poll' = [poll EXCEPT !.batch = Tail(@)]
  /\ UNCHANGED <<clock, source, config, ready, cursor, requests, failures, switches, read>>

Done == poll.step = "reading" /\ poll.found = << >> /\ poll.batch = << >>

\* Mutant: the next poll starts from the time at which this one ends.
EndPollNow ==
  /\ Done
  /\ cursor' = [own |-> TRUE, at |-> clock]
  /\ poll' = Idle
  /\ UNCHANGED <<clock, source, config, ready, tasks, requests, failures, switches, read>>

EndPoll ==
  /\ Done
  /\ cursor' = IF poll.newest = NoCursor THEN cursor ELSE poll.newest
  /\ poll' = Idle
  /\ UNCHANGED <<clock, source, config, ready, tasks, requests, failures, switches, read>>

\* Mutant: a poll that fails keeps the cursor it has come to.
PollFailsLate ==
  /\ poll.step # "idle"
  /\ failures < MaxFailures
  /\ cursor' = poll.newest
  /\ poll' = Idle
  /\ failures' = failures + 1
  /\ UNCHANGED <<clock, source, config, ready, tasks, requests, switches, read>>

\* An HTTP error, or a locked database in the middle of the batch.
PollFails ==
  /\ poll.step # "idle"
  /\ failures < MaxFailures
  /\ poll' = Idle
  /\ failures' = failures + 1
  /\ UNCHANGED <<clock, source, config, ready, cursor, tasks, requests, switches, read>>

---------------------------------------------------------------------------
(***************************************************************************)
(* set_project_enabled.  Enabling takes the time, checks the project for   *)
(* seconds, and then writes the configuration, the cursor unless others    *)
(* poll the source, and the health, one after the other.                   *)
(***************************************************************************)
Request(c, p) ==
  /\ requests[c] = NoRequest
  /\ switches < MaxSwitches
  /\ "requests" \in Apart => \A d \in Clients : requests[d] = NoRequest
  /\ "polls" \in Apart /\ ~ config[p].enabled => poll.step \in {"idle", "due"}
  /\ switches' = switches + 1
  /\ requests' = [requests EXCEPT ![c] =
       [step |-> "asked", project |-> p, on |-> ~ config[p].enabled,
        at |-> IF config[p].enabled THEN config[p].intake ELSE clock]]
  /\ UNCHANGED <<clock, source, config, ready, cursor, poll, tasks, failures, read>>

WriteConfig(c) ==
  /\ requests[c].step = "asked"
  /\ LET r == requests[c]
         others == Enabled(config) \ {r.project}
     IN /\ config' = [config EXCEPT ![r.project] = [enabled |-> r.on, intake |-> r.at]]
        /\ requests' = [requests EXCEPT ![c] =
             IF ~ r.on THEN NoRequest
             ELSE [r EXCEPT !.step = IF others = {} THEN "cursor" ELSE "health"]]
  /\ UNCHANGED <<clock, source, ready, cursor, poll, tasks, failures, switches, read>>

WriteCursor(c) ==
  /\ requests[c].step = "cursor"
  /\ cursor' = [own |-> TRUE, at |-> requests[c].at]
  /\ requests' = [requests EXCEPT ![c].step = "health"]
  /\ UNCHANGED <<clock, source, config, ready, poll, tasks, failures, switches, read>>

SaveHealth(c) ==
  /\ requests[c].step = "health"
  /\ ready' = [ready EXCEPT ![requests[c].project] = TRUE]
  /\ requests' = [requests EXCEPT ![c] = NoRequest]
  /\ UNCHANGED <<clock, source, config, cursor, poll, tasks, failures, switches, read>>

\* The preflight fails, the database is locked, or the service stops.
RequestFails(c) ==
  /\ requests[c] # NoRequest
  /\ failures < MaxFailures
  /\ requests' = [requests EXCEPT ![c] = NoRequest]
  /\ failures' = failures + 1
  /\ UNCHANGED <<clock, source, config, ready, cursor, poll, tasks, switches, read>>

Respond(c) == WriteConfig(c) \/ WriteCursor(c) \/ SaveHealth(c)

---------------------------------------------------------------------------
Poll == FetchPage \/ ReadTicket \/ IngestTicket \/ EndPoll

Next ==
  \/ \E t \in Tickets : Create(t) \/ Edit(t)
  \/ Tick
  \/ DecidePoll
  \/ BeginPoll
  \/ Poll
  \/ PollFails
  \/ \E p \in Projects, healthy \in BOOLEAN : CheckHealth(p, healthy)
  \/ \E c \in Clients : Respond(c) \/ RequestFails(c) \/ \E p \in Projects : Request(c, p)

Spec == Init /\ [][Next]_vars

\* The scheduler polls again and again, and requests end.
Fairness ==
  /\ WF_vars(DecidePoll \/ BeginPoll \/ Poll)
  /\ \A c \in Clients : WF_vars(Respond(c))

FairSpec == Spec /\ Fairness

---------------------------------------------------------------------------
(***************************************************************************)
(* Properties.                                                             *)
(***************************************************************************)
Items == [ticket : Tickets, content : Seconds]

TypeOK ==
  /\ clock \in Seconds
  /\ created \in [Tickets -> 0 .. MaxTime]
  /\ modified \in [Tickets -> 0 .. MaxTime]
  /\ config \in [Projects -> [enabled : BOOLEAN, intake : Seconds]]
  /\ ready \in [Projects -> BOOLEAN]
  /\ cursor \in Cursors
  /\ poll.step \in {"idle", "due", "paging", "reading"}
  /\ {poll.since, poll.newest} \subseteq Cursors
  /\ poll.found \in Seq(Items)
  /\ poll.batch \in Seq(Items)
  /\ tasks \in [Tickets -> [content : 0 .. MaxTime, project : Projects \cup {None}]]
  /\ requests \in [Clients -> [step : {"idle", "asked", "cursor", "health"},
                               project : Projects \cup {None}, on : BOOLEAN,
                               at : 0 .. MaxTime]]
  /\ failures \in 0 .. MaxFailures
  /\ switches \in 0 .. MaxSwitches
  /\ read \in BOOLEAN

\* A ticket that belongs to a pipeline: routed to it, and created after the
\* pipeline began to take tickets.
Wanted(t) == created[t] # 0 /\ Route(t, config) \in Projects

\* It has a task of some pipeline, with the content it has now; a task that failed
\* for want of a pipeline does not count.
Arrived(t) == tasks[t].content = modified[t] /\ tasks[t].project # None

\* Last changed on the day its pipeline began: TAPD's comparison takes it for old.
OnFirstDay(t) ==
  Format = "tapd" /\ Day(modified[t]) = Day(config[Route(t, config)].intake)

\* The cursor saves requests and nothing else: a wanted ticket that the next
\* poll would pass over has arrived, except on that day.
CursorCovers ==
  \A t \in Tickets :
    Wanted(t) /\ ~ OnFirstDay(t) /\ ~ After(modified[t], cursor) => Arrived(t)

\* Whatever is wanted becomes a task, although polls and requests fail and pipelines
\* are switched off and on, unless one of those switched on is not healthy.
TicketsArrive ==
  \A t \in Tickets :
    []<>(\/ ~ Wanted(t) \/ Arrived(t)
         \/ \E p \in Projects : config[p].enabled /\ ~ ready[p])
=============================================================================
