--------------------------- MODULE CohortPromise ---------------------------
(***************************************************************************)
(* What a baseline cohort promises to the runs that join it: it is decided *)
(* at most once, a refusal admits nobody any more, and whoever is answered *)
(* is answered with the decision of its cohort.  A cohort is named by the  *)
(* run that leads it.                                                      *)
(***************************************************************************)
CONSTANTS
  Members,    \* the task runs
  Nobody,     \* no cohort
  Undecided,  \* no decision
  Baselines,  \* decisions that give a revision
  Refusals    \* decisions that give the evidence of a failure

VARIABLES group, decision, answer

promise == <<group, decision, answer>>

Init ==
  /\ group = [r \in Members |-> Nobody]
  /\ decision = [r \in Members |-> Undecided]
  /\ answer = [r \in Members |-> Undecided]

Join(r) ==
  /\ group[r] = Nobody
  /\ \/ group' = [group EXCEPT ![r] = r]
     \/ \E c \in Members :
          /\ group[c] = c
          /\ decision[c] \notin Refusals
          /\ group' = [group EXCEPT ![r] = c]
  /\ UNCHANGED <<decision, answer>>

Decide(c) ==
  /\ decision[c] = Undecided
  /\ \E d \in Baselines \cup Refusals : decision' = [decision EXCEPT ![c] = d]
  /\ UNCHANGED <<group, answer>>

Answer(r) ==
  /\ group[r] \in Members
  /\ decision[group[r]] # Undecided
  /\ answer' = [answer EXCEPT ![r] = decision[group[r]]]
  /\ UNCHANGED <<group, decision>>

Next == \E r \in Members : Join(r) \/ Decide(r) \/ Answer(r)

Spec == Init /\ [][Next]_promise
=============================================================================
