--------------------------- MODULE DeliveryProofs ---------------------------
(***************************************************************************)
(* Proofs about Delivery, for every number of target branches, every plan  *)
(* of final actions and every set of faults.                               *)
(***************************************************************************)
EXTENDS Delivery, TLAPS

---------------------------------------------------------------------------
(***************************************************************************)
(* The plan, and what the coordinator does at which place of it.           *)
(***************************************************************************)
LEMMA PlanFacts ==
  ASSUME plan \in Plans
  PROVE  /\ Len(plan) \in Nat
         /\ DOMAIN plan = 1 .. Len(plan)
         /\ \A i \in DOMAIN plan : plan[i] \in Actions \ {"fallback"}
         /\ \A i, j \in DOMAIN plan : plan[i] = plan[j] => i = j
<1>1. plan \in Seq({"patch"} \cup Remotes)
  BY PlansAreSequences
<1>2. Len(plan) \in Nat /\ DOMAIN plan = 1 .. Len(plan)
  BY <1>1
<1>3. \A i \in DOMAIN plan : plan[i] \in {"patch"} \cup Remotes
  BY <1>1, <1>2
<1>4. \A i \in DOMAIN plan : plan[i] \in Actions \ {"fallback"}
  BY <1>3 DEF Actions, Patches, Remotes
<1>5. QED
  BY <1>2, <1>4, PlansAreSequences

\* The action in hand is one of the plan, or the fallback.
LEMMA DoingFacts ==
  ASSUME TypeOK
  PROVE  /\ Doing \in Actions \cup {"end"}
         /\ Doing \in Actions => at <= Len(plan) + 1
         /\ Doing \in Actions \ {"fallback"} => at \in DOMAIN plan /\ Doing = plan[at]
         /\ Doing = "fallback" => at = Len(plan) + 1
         /\ Doing = "end" => at > Len(plan)
<1>1. /\ Len(plan) \in Nat /\ DOMAIN plan = 1 .. Len(plan)
      /\ at \in 1 .. Len(plan) + 2
      /\ \A i \in DOMAIN plan : plan[i] \in Actions \ {"fallback"}
  BY PlanFacts DEF TypeOK
<1>2. CASE at <= Len(plan)
  <2>1. at \in DOMAIN plan /\ Doing = plan[at]
    BY <1>1, <1>2 DEF Doing
  <2>2. plan[at] \in Actions \ {"fallback"}
    BY <1>1, <2>1
  <2>3. "end" \notin Actions
    BY DEF Actions, Patches, Remotes
  <2>4. QED
    BY <1>1, <1>2, <2>1, <2>2, <2>3
<1>3. CASE ~ (at <= Len(plan))
  <2>1. Doing = IF at = Len(plan) + 1 /\ RemoteFailed THEN "fallback" ELSE "end"
    BY <1>3 DEF Doing
  <2>2. "fallback" \in Actions /\ "end" \notin Actions
    BY DEF Actions, Patches, Remotes
  <2>3. QED
    BY <1>1, <1>3, <2>1, <2>2
<1>4. QED
  BY <1>2, <1>3

\* As long as no result comes in, the coordinator does the same thing.
LEMMA DoingSame == UNCHANGED <<plan, at, results>> => Doing' = Doing
BY DEF Doing, RemoteFailed

---------------------------------------------------------------------------
(***************************************************************************)
(* The inductive invariant.                                                *)
(***************************************************************************)
InTarget == {"listing", "checking", "cherry-pick", "picking", "pushing", "proposing", "proposed"}

StepsOf(doing) ==
  CASE doing \in Patches -> {"begin", "opening", "writing"}
    [] doing = "gitlabPush" ->
         {"begin", "commit", "building", "checking", "pushing", "confirming"}
    [] doing = "githubPr" -> {"begin", "commit", "building", "target"} \cup InTarget
    [] OTHER -> {"begin"}

\* Where an execution can be.  Results come in the order of the plan, so that
\* no action is executed twice in one execution.
Control ==
  /\ step \in StepsOf(Doing)
  /\ step # "begin" => row[Doing].status = "running"
  /\ \A i \in DOMAIN plan : results[plan[i]] # "none" => i < at
  /\ results["fallback"] # "none" => at > Len(plan) + 1
  /\ Doing = "gitlabPush" /\ step \in {"checking", "pushing", "confirming"} => local # 0

\* What the loop over the targets knows at each step, and has done before.
Loop ==
  /\ \A t \in Targets : t < turn => t \in failed \/ pulls[t] = 1
  /\ Doing = "githubPr" /\ step \in InTarget =>
       /\ turn \in Targets
       /\ target[turn].status = "reconciling"
       /\ step \notin {"listing", "proposed"} => pulls[turn] = 0
       /\ step \in {"pushing", "proposing", "proposed"} => target[turn].expected # 0
       /\ step \in {"proposing", "proposed"} => remote[turn] = target[turn].expected
       /\ step = "proposed" => pulls[turn] = 1

\* What rows and results say of the outside world.
Reality ==
  /\ \A t \in Targets :
       /\ pulls[t] = 1 => remote[t] # 0
       /\ target[t].status = "succeeded" => target[t].linked /\ pulls[t] = 1
  /\ row["gitlabPush"].status = "succeeded" =>
       remote[0] # 0 /\ remote[0] = row["gitlabPush"].commit
  /\ results["gitlabPush"] = "succeeded" => remote[0] # 0
  /\ results["githubPr"] = "succeeded" => \A t \in Targets : pulls[t] = 1

Files ==
  /\ row["patch"].status = "succeeded" => file["patch"] = "whole"
  /\ results["patch"] = "succeeded" => file["patch"] = "whole"
  /\ results["fallback"] = "succeeded" => \E f \in Patches : file[f] = "whole"

Inv == TypeOK /\ Control /\ Loop /\ Reality /\ Files

---------------------------------------------------------------------------
LEMMA BeginIsStep == \A doing : "begin" \in StepsOf(doing)
BY DEF StepsOf

\* An action returns its result.
LEMMA Concluding ==
  ASSUME Inv, Doing \in Actions, NEW result \in {"succeeded", "failed"}, Conclude(result),
         plan' = plan
  PROVE  /\ at' \in 1 .. Len(plan') + 2 /\ step' = "begin" /\ turn' = 1 /\ local' = 0
         /\ failed' = {}
         /\ results' \in [Actions -> {"none", "succeeded", "failed"}]
         /\ Control'
         /\ Loop'
<1> USE DEF Inv
<1>1. /\ step' = "begin" /\ turn' = 1 /\ local' = 0 /\ failed' = {} /\ at' = at + 1
      /\ results' = [results EXCEPT ![Doing] = result]
  BY DEF Conclude
<1>2. at' \in 1 .. Len(plan') + 2
  BY <1>1, DoingFacts, PlanFacts DEF TypeOK
<1>3. results' \in [Actions -> {"none", "succeeded", "failed"}]
  BY <1>1 DEF TypeOK
<1>4. \A i \in DOMAIN plan : results'[plan[i]] # "none" => i < at'
  <2>1. SUFFICES ASSUME NEW i \in DOMAIN plan, results'[plan[i]] # "none"
                 PROVE  i < at + 1
    BY <1>1
  <2>2. at \in Nat /\ i \in Nat
    BY PlanFacts DEF TypeOK
  <2>3. CASE plan[i] = Doing
    <3>1. Doing # "fallback"
      BY <2>3, PlanFacts DEF TypeOK
    <3>2. i = at
      BY <2>3, <3>1, DoingFacts, PlanFacts DEF TypeOK
    <3>3. QED
      BY <2>2, <3>2
  <2>4. CASE plan[i] # Doing
    <3>1. results[plan[i]] # "none"
      BY <1>1, <2>1, <2>4, PlanFacts DEF TypeOK
    <3>2. QED
      BY <2>2, <3>1 DEF Control
  <2>5. QED
    BY <2>3, <2>4
<1>5. results'["fallback"] # "none" => at' > Len(plan) + 1
  <2>1. "fallback" \in Actions
    BY DEF Actions, Patches
  <2>2. Len(plan) \in Nat /\ at \in Nat
    BY PlanFacts DEF TypeOK
  <2>3. CASE Doing = "fallback"
    BY <1>1, <2>2, <2>3, DoingFacts
  <2>4. CASE Doing # "fallback"
    BY <1>1, <2>1, <2>2, <2>4 DEF Control, TypeOK
  <2>5. QED
    BY <2>3, <2>4
<1>6. Control'
  BY <1>1, <1>4, <1>5, BeginIsStep DEF Control
<1>7. Loop'
  BY <1>1 DEF Loop, InTarget, Targets
<1>8. QED
  BY <1>1, <1>2, <1>3, <1>6, <1>7

\* Marking an action running keeps the invariant.
LEMMA BeginKeeps == ASSUME Inv, Begin PROVE Inv'
<1> USE DEF Inv
<1>1. /\ Doing \in Actions /\ step = "begin" /\ run = "running"
      /\ row' = [row EXCEPT ![Doing].status = "running"]
      /\ step' = IF Doing \in Remotes THEN "commit" ELSE "opening"
      /\ UNCHANGED <<plan, overwrite, calm, run, target, remote, pulls, file, worktrees>>
      /\ UNCHANGED <<at, turn, local, failed, results>>
  BY DEF Begin, At, Goto, config, outside, disk
<1>2. Doing' = Doing
  BY <1>1, DoingSame
<1>3. TypeOK'
  BY <1>1 DEF TypeOK, Steps, Statuses
<1>4. Control'
  BY <1>1, <1>2 DEF Control, StepsOf, Actions, Remotes, Patches, TypeOK
<1>5. Loop'
  BY <1>1 DEF Loop, InTarget
<1>6. Reality' /\ Files'
  BY <1>1 DEF Reality, Files, TypeOK
<1>7. QED
  BY <1>3, <1>4, <1>5, <1>6

---------------------------------------------------------------------------
(***************************************************************************)
(* The patch actions.                                                      *)
(***************************************************************************)
\* A patch action returns; whichever file it succeeds with is whole.
LEMMA PatchConcluded ==
  ASSUME Inv, Doing \in Patches, NEW result \in {"succeeded", "failed"},
         Record(result, 0, FALSE), Conclude(result),
         UNCHANGED <<config, calm, run, target, outside, worktrees>>,
         file' \in [Patches -> {"absent", "partial", "whole", "other"}],
         \A f \in Patches \ {Doing} : file'[f] = file[f],
         result = "succeeded" /\ Doing = "patch" => file'["patch"] = "whole",
         result = "succeeded" => \E f \in Patches : file'[f] = "whole"
  PROVE  Inv'
<1> USE DEF Inv
<1>1. Doing \in Actions /\ plan' = plan
  BY DEF Actions, config
<1>2. row' = [row EXCEPT ![Doing] = [status |-> result, commit |-> 0, differs |-> FALSE]]
  BY DEF Record
<1>3. TypeOK'
  <2>1. /\ at' \in 1 .. Len(plan') + 2 /\ step' \in Steps /\ turn' \in 1 .. NumTargets + 1
        /\ local' \in Commits \cup {0} /\ failed' \subseteq Targets
        /\ results' \in [Actions -> {"none", "succeeded", "failed"}]
    BY <1>1, Concluding, NumTargetsAssumption DEF Steps
  <2>2. row' \in [Actions -> [status : Statuses, commit : Commits \cup {0}, differs : BOOLEAN]]
    BY <1>1, <1>2 DEF TypeOK, Statuses
  <2>3. QED
    BY <2>1, <2>2 DEF TypeOK, config, outside
<1>4. Control' /\ Loop'
  BY <1>1, Concluding
<1>5. results' = [results EXCEPT ![Doing] = result]
  BY DEF Conclude
<1>6. Reality'
  BY <1>1, <1>2, <1>5 DEF Reality, TypeOK, outside, Patches
<1>7. Files'
  <2>1. CASE Doing = "patch"
    <3>1. results["fallback"] = "none"
      <4>1. at <= Len(plan) /\ at \in Nat /\ Len(plan) \in Nat
        BY <1>1, <2>1, DoingFacts, PlanFacts DEF TypeOK
      <4>2. QED
        BY <4>1 DEF Control
    <3>2. QED
      BY <1>1, <1>2, <1>5, <2>1, <3>1 DEF Files, TypeOK, Patches
  <2>2. CASE Doing = "fallback"
    BY <1>1, <1>2, <1>5, <2>2 DEF Files, TypeOK, Patches
  <2>3. QED
    BY <2>1, <2>2 DEF Patches
<1>8. QED
  BY <1>3, <1>4, <1>6, <1>7

\* Creating the patch file keeps it.
LEMMA CreateKeeps == ASSUME Inv, CreatePatch PROVE Inv'
<1> USE DEF Inv
<1>1. /\ Doing \in Patches /\ step = "opening" /\ run = "running"
      /\ file' = [file EXCEPT ![Doing] = "partial"] /\ step' = "writing"
      /\ UNCHANGED <<plan, overwrite, calm, run, row, target, remote, pulls, worktrees>>
      /\ UNCHANGED <<at, turn, local, failed, results>>
  BY DEF CreatePatch, At, Goto, config, outside, rows
<1>2. Doing' = Doing
  BY <1>1, DoingSame
<1>3. TypeOK'
  BY <1>1 DEF TypeOK, Steps
<1>4. Control'
  BY <1>1, <1>2 DEF Control, StepsOf, Patches
<1>5. Loop' /\ Reality'
  BY <1>1, <1>2 DEF Loop, InTarget, Reality
<1>6. Files'
  <2>1. at \in Nat /\ Len(plan) \in Nat
    BY PlanFacts DEF TypeOK
  <2>2. Doing = "patch" => results["patch"] # "succeeded" /\ row["patch"].status = "running"
    <3>1. ASSUME Doing = "patch" PROVE at \in DOMAIN plan /\ plan[at] = "patch"
      BY <3>1, DoingFacts DEF Actions, Patches
    <3>2. QED
      BY <1>1, <2>1, <3>1 DEF Control
  <2>3. results["fallback"] = "none"
    <3>1. at <= Len(plan) + 1
      BY <1>1, DoingFacts DEF Actions
    <3>2. QED
      BY <2>1, <3>1 DEF Control
  <2>4. QED
    BY <1>1, <2>2, <2>3 DEF Files, TypeOK, Patches
<1>7. QED
  BY <1>3, <1>4, <1>5, <1>6

\* So does each step of the two patch actions.
LEMMA PatchKeeps == ASSUME Inv, DeliverPatch PROVE Inv'
<1> USE DEF Inv
<1>1. CASE AdoptPatch
  <2>1. Doing \in Patches
    BY <1>1 DEF AdoptPatch, At
  <2>2. /\ Doing = "patch" => file["patch"] = "whole"
        /\ \E f \in Patches : file[f] = "whole"
    BY <1>1, <2>1 DEF AdoptPatch, Reusable, Files, Patches
  <2>3. QED
    BY <1>1, <2>1, <2>2, PatchConcluded DEF AdoptPatch, disk, TypeOK
<1>2. CASE WritePatch
  <2>1. Doing \in Patches
    BY <1>2 DEF WritePatch, At
  <2>2. QED
    BY <1>2, <2>1, PatchConcluded DEF WritePatch, disk, TypeOK
<1>3. CASE PatchFails
  <2>1. Doing \in Patches
    BY <1>3 DEF PatchFails, At
  <2>2. QED
    BY <1>3, <2>1, PatchConcluded DEF PatchFails, disk, TypeOK
<1>4. QED
  BY <1>1, <1>2, <1>3, CreateKeeps DEF DeliverPatch

---------------------------------------------------------------------------
(***************************************************************************)
(* The delivery commit and the push to GitLab.                             *)
(***************************************************************************)
\* A remote action returns; it may succeed only with what is there.
LEMMA RemoteConcluded ==
  ASSUME Inv, Doing \in Remotes, NEW result \in {"succeeded", "failed"},
         NEW commit \in Commits \cup {0}, NEW differs \in BOOLEAN,
         Record(result, commit, differs), Conclude(result),
         UNCHANGED <<config, calm, run, target, outside, file>>, worktrees' \subseteq Branches,
         result = "succeeded" /\ Doing = "gitlabPush" => remote[0] # 0 /\ remote[0] = commit,
         result = "succeeded" /\ Doing = "githubPr" => \A t \in Targets : pulls[t] = 1
  PROVE  Inv'
<1> USE DEF Inv
<1>1. Doing \in Actions /\ plan' = plan
  BY DEF Actions, config
<1>2. row' = [row EXCEPT ![Doing] = [status |-> result, commit |-> commit, differs |-> differs]]
  BY DEF Record
<1>3. TypeOK'
  <2>1. /\ at' \in 1 .. Len(plan') + 2 /\ step' \in Steps /\ turn' \in 1 .. NumTargets + 1
        /\ local' \in Commits \cup {0} /\ failed' \subseteq Targets
        /\ results' \in [Actions -> {"none", "succeeded", "failed"}]
    BY <1>1, Concluding, NumTargetsAssumption DEF Steps
  <2>2. [status |-> result, commit |-> commit, differs |-> differs]
          \in [status : Statuses, commit : Commits \cup {0}, differs : BOOLEAN]
    BY DEF Statuses
  <2>3. row' \in [Actions -> [status : Statuses, commit : Commits \cup {0}, differs : BOOLEAN]]
    BY <1>1, <1>2, <2>2 DEF TypeOK
  <2>4. QED
    BY <2>1, <2>3 DEF TypeOK, config, outside
<1>4. Control' /\ Loop'
  BY <1>1, Concluding
<1>5. results' = [results EXCEPT ![Doing] = result]
  BY DEF Conclude
<1>6. Reality'
  BY <1>1, <1>2, <1>5 DEF Reality, TypeOK, outside, Remotes
<1>7. Files'
  BY <1>1, <1>2, <1>5 DEF Files, TypeOK, Remotes
<1>8. QED
  BY <1>3, <1>4, <1>6, <1>7

\* A failure of an action is recorded and the next action is taken up.
LEMMA FailActionKeeps ==
  ASSUME Inv, Doing \in Remotes, NEW differs \in BOOLEAN, FailAction(differs),
         UNCHANGED <<config, calm, run, target, outside, file>>, worktrees' \subseteq Branches
  PROVE  Inv'
<1>1. (IF Doing = "githubPr" THEN row[Doing].commit ELSE 0) \in Commits \cup {0}
  BY DEF Inv, TypeOK, Actions
<1>2. QED
  BY <1>1, RemoteConcluded DEF FailAction

\* The commit is kept, in the row or in a local variable.
LEMMA CommitKept ==
  ASSUME Inv, Doing \in Remotes, run = "running", step \in {"commit", "building"},
         NEW c \in Commits, KeepCommit(c),
         UNCHANGED <<config, calm, run, target, outside, file>>, worktrees' \subseteq Branches
  PROVE  Inv'
<1> USE DEF Inv
<1>1. /\ UNCHANGED <<plan, overwrite, target, remote, pulls, file, at, turn, failed, results>>
      /\ \/ /\ Doing = "githubPr"
            /\ row' = [row EXCEPT ![Doing].commit = c] /\ step' = "target" /\ local' = local
         \/ /\ Doing = "gitlabPush"
            /\ row' = row /\ step' = "checking" /\ local' = c
  BY DEF KeepCommit, Goto, config, outside, Remotes
<1>2. Doing' = Doing
  BY <1>1, DoingSame
<1>3. TypeOK'
  BY <1>1 DEF TypeOK, Steps, Actions
<1>4. Control'
  BY <1>1, <1>2 DEF Control, StepsOf, Patches, TypeOK, Actions, Commits
<1>5. Loop'
  BY <1>1, <1>2 DEF Loop, InTarget
<1>6. Reality' /\ Files'
  <2>1. row'["gitlabPush"] = row["gitlabPush"] /\ row'["patch"] = row["patch"]
    BY <1>1 DEF TypeOK, Actions, Remotes, Patches
  <2>2. QED
    BY <1>1, <2>1 DEF Reality, Files
<1>7. QED
  BY <1>3, <1>4, <1>5, <1>6

\* Building the delivery commit touches no remote branch.
LEMMA MakeCommitKeeps == ASSUME Inv, MakeCommit PROVE Inv'
<1> USE DEF Inv
<1>1. CASE ReuseCommit
  <2>1. row[Doing].commit \in Commits
    BY <1>1 DEF ReuseCommit, At, TypeOK, Actions
  <2>2. /\ Doing \in Remotes /\ run = "running" /\ step \in {"commit", "building"}
        /\ KeepCommit(row[Doing].commit) /\ worktrees' \subseteq Branches
        /\ UNCHANGED <<config, calm, run, target, outside, file>>
    BY <1>1 DEF ReuseCommit, At, disk, TypeOK
  <2>3. QED
    BY <2>1, <2>2, CommitKept
<1>2. CASE AddWorktree
  <2>1. /\ Doing \in Remotes /\ step = "commit" /\ step' = "building"
        /\ worktrees' = worktrees \cup {0}
        /\ UNCHANGED <<plan, overwrite, calm, run, row, target, remote, pulls, file>>
        /\ UNCHANGED <<at, turn, local, failed, results>>
    BY <1>2 DEF AddWorktree, At, Goto, config, rows, outside
  <2>2. Doing' = Doing
    BY <2>1, DoingSame
  <2>3. TypeOK'
    BY <2>1, NumTargetsAssumption DEF TypeOK, Steps, Branches
  <2>4. Control'
    BY <2>1, <2>2 DEF Control, StepsOf, Patches, Remotes
  <2>5. Loop' /\ Reality' /\ Files'
    BY <2>1, <2>2 DEF Loop, InTarget, Reality, Files
  <2>6. QED
    BY <2>3, <2>4, <2>5
<1>3. CASE Build
  <2>1. NewCommit(0) \in Commits
    BY DEF NewCommit, Commits
  <2>2. QED
    BY <1>3, <2>1, CommitKept DEF Build, At, TypeOK
<1>4. CASE CommitFails
  <2>1. Doing \in Remotes
    BY <1>4 DEF CommitFails, At
  <2>2. QED
    BY <1>4, <2>1, FailActionKeeps DEF CommitFails, TypeOK
<1>5. QED
  BY <1>1, <1>2, <1>3, <1>4 DEF MakeCommit

\* The push action succeeds when the branch holds its commit.
LEMMA PushSucceeded ==
  ASSUME Inv, Doing = "gitlabPush", local \in Commits, remote[0] = local,
         Record("succeeded", local, FALSE), Conclude("succeeded"),
         UNCHANGED <<config, calm, run, target, outside, file>>, worktrees' \subseteq Branches
  PROVE  Inv'
<1>1. /\ Doing \in Remotes /\ Doing # "githubPr" /\ FALSE \in BOOLEAN
      /\ "succeeded" \in {"succeeded", "failed"}
      /\ local \in Commits \cup {0} /\ remote[0] # 0
  BY DEF Remotes, Commits
<1>2. QED
  BY <1>1, RemoteConcluded

\* A GitLab push creates the task branch or fails.
LEMMA PushKeeps == ASSUME Inv, DeliverPush PROVE Inv'
<1> USE DEF Inv
<1>1. ASSUME Doing = "gitlabPush", step \in {"checking", "pushing", "confirming"}
      PROVE  Doing \in Remotes /\ local \in Commits
  BY <1>1 DEF Control, TypeOK, Remotes
<1>2. CASE CheckTaskBranch
  <2>1. Doing = "gitlabPush" /\ step = "checking" /\ run = "running"
    BY <1>2 DEF CheckTaskBranch, At
  <2>2. CASE Goto("pushing") /\ UNCHANGED row
    <3>1. /\ step' = "pushing"
          /\ UNCHANGED <<plan, overwrite, calm, run, row, target, remote, pulls, file, worktrees>>
          /\ UNCHANGED <<at, turn, local, failed, results>>
      BY <1>2, <2>2 DEF CheckTaskBranch, Goto, config, outside, disk
    <3>2. Doing' = Doing
      BY <3>1, DoingSame
    <3>3. TypeOK' /\ Control'
      BY <2>1, <3>1, <3>2 DEF TypeOK, Steps, Control, StepsOf, Patches
    <3>4. Loop' /\ Reality' /\ Files'
      BY <2>1, <3>1, <3>2 DEF Loop, Reality, Files
    <3>5. QED
      BY <3>3, <3>4
  <2>0. /\ UNCHANGED <<config, calm, run, target, outside, file>>
        /\ worktrees' \subseteq Branches
    BY <1>2 DEF CheckTaskBranch, disk, TypeOK
  <2>3. CASE Record("succeeded", local, FALSE) /\ Conclude("succeeded") /\ remote[0] = local
    BY <1>1, <2>1, <2>3, <2>0, PushSucceeded
  <2>4. CASE FailAction(TRUE)
    BY <1>1, <2>1, <2>4, <2>0, FailActionKeeps
  <2>5. PICK seen \in Seen(0) :
          \/ seen = 0 /\ Goto("pushing") /\ UNCHANGED row
          \/ seen = local /\ Record("succeeded", local, FALSE) /\ Conclude("succeeded")
          \/ seen \notin {0, local} /\ FailAction(TRUE)
    BY <1>2 DEF CheckTaskBranch
  <2>6. seen = local => remote[0] = local
    <3>1. seen = remote[0] \/ seen = 0
      BY DEF Seen
    <3>2. QED
      BY <1>1, <2>1, <3>1 DEF Commits
  <2>7. QED
    BY <2>2, <2>3, <2>4, <2>5, <2>6
<1>3. CASE PushCommit
  <2>1. /\ Doing = "gitlabPush" /\ step = "pushing" /\ run = "running" /\ step' = "confirming"
        /\ remote[0] \in {0, local} /\ remote' = [remote EXCEPT ![0] = local]
        /\ UNCHANGED <<plan, overwrite, calm, run, row, target, pulls, file, worktrees>>
        /\ UNCHANGED <<at, turn, local, failed, results>>
    BY <1>3 DEF PushCommit, At, Accepts, Goto, config, rows, disk
  <2>2. Doing' = Doing
    BY <2>1, DoingSame
  <2>3. TypeOK' /\ Control'
    BY <2>1, <2>2 DEF TypeOK, Steps, Control, StepsOf, Patches
  <2>4. Loop' /\ Files'
    BY <2>1, <2>2 DEF Loop, Files
  <2>5. Reality'
    BY <1>1, <2>1, NumTargetsAssumption DEF Reality, TypeOK, Commits, Targets, Branches
  <2>6. QED
    BY <2>3, <2>4, <2>5
<1>4. CASE Confirm
  <2>1. /\ Doing = "gitlabPush" /\ step = "confirming" /\ remote[0] = local
        /\ Record("succeeded", local, FALSE) /\ Conclude("succeeded")
        /\ UNCHANGED <<config, calm, run, target, outside, file>>
        /\ worktrees' \subseteq Branches
    BY <1>4 DEF Confirm, At, disk, TypeOK
  <2>2. QED
    BY <1>1, <2>1, PushSucceeded
<1>5. CASE PushFails
  <2>1. Doing \in Remotes
    BY <1>5 DEF PushFails, At, Remotes
  <2>2. QED
    BY <1>5, <2>1, FailActionKeeps DEF PushFails, disk, TypeOK
<1>6. QED
  BY <1>2, <1>3, <1>4, <1>5 DEF DeliverPush

---------------------------------------------------------------------------
(***************************************************************************)
(* The loop over the targets.                                              *)
(***************************************************************************)
LEMMA AtTargetFacts ==
  ASSUME Inv, NEW s, AtTarget(s)
  PROVE  /\ Doing = "githubPr" /\ step = s /\ run = "running"
         /\ turn \in Targets /\ turn \in Branches /\ turn # 0 /\ 0 \in Branches
         /\ turn + 1 \in 1 .. NumTargets + 1
         /\ \A t \in Targets : t < turn + 1 => t < turn \/ t = turn
BY NumTargetsAssumption DEF AtTarget, At, Targets, Branches

\* What every step of the loop leaves as it is, and what remains to be shown.
LEMMA LoopStep ==
  ASSUME Inv, Doing = "githubPr", step \in {"target"} \cup InTarget,
         UNCHANGED <<plan, row, at, results, file>>,
         step' \in {"target"} \cup InTarget, TypeOK', Doing' = Doing => Loop', Reality'
  PROVE  Inv'
<1>1. Doing' = Doing
  BY DoingSame
<1>2. Control'
  BY <1>1 DEF Inv, Control, StepsOf, Patches, InTarget
<1>3. Files'
  BY DEF Inv, Files
<1>4. QED
  BY <1>1, <1>2, <1>3 DEF Inv

\* The loop is done with a target that has a pull request, or failed.
LEMMA NextTargetKeeps ==
  ASSUME Inv, NEW s \in {"target"} \cup InTarget, AtTarget(s), NextTarget,
         failed' \subseteq Targets, failed \subseteq failed',
         turn \in failed' \/ pulls[turn] = 1,
         NEW row1 \in [status : {"reconciling", "succeeded", "failed"},
                       expected : Commits \cup {0}, linked : BOOLEAN, differs : BOOLEAN],
         row1.status = "succeeded" => row1.linked /\ pulls[turn] = 1,
         target' = [target EXCEPT ![turn] = row1], worktrees' \subseteq Branches,
         UNCHANGED <<config, calm, run, row, outside, file>>
  PROVE  Inv'
<1> USE DEF Inv
<1>1. /\ UNCHANGED <<plan, overwrite, calm, run, row, remote, pulls, file, at, local, results>>
      /\ turn' = turn + 1 /\ step' = "target"
  BY DEF NextTarget, config, outside
<1>2. TypeOK'
  <2>1. target' \in [Targets ->
          [status : {"absent", "reconciling", "succeeded", "failed"},
           expected : Commits \cup {0}, linked : BOOLEAN, differs : BOOLEAN]]
    BY DEF TypeOK
  <2>2. QED
    BY <1>1, <2>1, AtTargetFacts DEF TypeOK, Steps
<1>3. Loop'
  BY <1>1, AtTargetFacts DEF Loop, InTarget
<1>4. Reality'
  BY <1>1, AtTargetFacts DEF Reality, TypeOK
<1>5. QED
  BY <1>1, <1>2, <1>3, <1>4, AtTargetFacts, LoopStep

\* A failed target loses its commit and nothing that exists remotely.
LEMMA FailTargetKeeps ==
  ASSUME Inv, NEW s \in InTarget, AtTarget(s), NEW known \in BOOLEAN, NEW differs \in BOOLEAN,
         FailTarget(known, differs), worktrees' \subseteq Branches,
         UNCHANGED <<config, calm, run, row, outside, file>>
  PROVE  Inv'
<1> DEFINE row1 == [target[turn] EXCEPT !.status = "failed", !.differs = differs,
                      !.expected = IF known THEN target[turn].expected ELSE 0]
<1>1. turn \in Targets
  BY AtTargetFacts
<1>2. row1 \in [status : {"reconciling", "succeeded", "failed"},
               expected : Commits \cup {0}, linked : BOOLEAN, differs : BOOLEAN]
      /\ row1.status = "failed"
  BY <1>1 DEF Inv, TypeOK
<1>3. target' = [target EXCEPT ![turn] = row1]
  BY <1>1 DEF FailTarget, Inv, TypeOK
<1>4. /\ NextTarget /\ failed' \subseteq Targets /\ failed \subseteq failed'
      /\ turn \in failed'
  BY <1>1 DEF FailTarget, Inv, TypeOK
<1> HIDE DEF row1
<1>5. QED
  BY <1>2, <1>3, <1>4, NextTargetKeeps

\* A target that gets the link of a pull request has one.
LEMMA LinkKeeps ==
  ASSUME Inv, NEW s \in InTarget, AtTarget(s), NEW expected \in Commits \cup {0},
         Link(expected), pulls[turn] = 1,
         UNCHANGED <<config, calm, run, row, outside, disk>>
  PROVE  Inv'
<1>1. [status |-> "succeeded", expected |-> expected, linked |-> TRUE, differs |-> FALSE]
        \in [status : {"reconciling", "succeeded", "failed"},
            expected : Commits \cup {0}, linked : BOOLEAN, differs : BOOLEAN]
  OBVIOUS
<1>2. /\ NextTarget /\ failed' \subseteq Targets /\ failed \subseteq failed'
      /\ target' = [target EXCEPT ![turn] =
           [status |-> "succeeded", expected |-> expected, linked |-> TRUE, differs |-> FALSE]]
      /\ worktrees' \subseteq Branches /\ file' = file
  BY DEF Link, Inv, TypeOK, disk
<1>3. QED
  BY <1>1, <1>2, NextTargetKeeps

\* Within a target: what the next step of the loop needs is there.
LEMMA GotoKeeps ==
  ASSUME Inv, NEW s \in InTarget, AtTarget(s), NEW next \in InTarget, Goto(next),
         UNCHANGED <<config, calm, run, row, outside, file>>, worktrees' \subseteq Branches,
         NEW row1 \in [status : {"reconciling"}, expected : Commits \cup {0},
                       linked : BOOLEAN, differs : BOOLEAN],
         target' = [target EXCEPT ![turn] = row1],
         next # "listing" => pulls[turn] = 0,
         next \in {"pushing", "proposing"} => row1.expected # 0,
         next = "proposing" => remote[turn] = row1.expected,
         next # "proposed"
  PROVE  Inv'
<1> USE DEF Inv
<1>1. /\ UNCHANGED <<plan, overwrite, calm, run, row, remote, pulls, file>>
      /\ UNCHANGED <<at, turn, local, failed, results>>
      /\ step' = next
  BY DEF Goto, config, outside
<1>2. TypeOK'
  BY <1>1, AtTargetFacts DEF TypeOK, Steps, InTarget
<1>3. Loop'
  BY <1>1, AtTargetFacts DEF Loop, TypeOK, InTarget
<1>4. Reality'
  BY <1>1, AtTargetFacts DEF Reality, TypeOK
<1>5. QED
  BY <1>1, <1>2, <1>3, <1>4, AtTargetFacts, LoopStep

\* The row of the target in turn, while it is in turn.
LEMMA TurnFacts ==
  ASSUME Inv, NEW s \in InTarget, AtTarget(s)
  PROVE  /\ target[turn] \in [status : {"reconciling"}, expected : Commits \cup {0},
                              linked : BOOLEAN, differs : BOOLEAN]
         /\ target = [target EXCEPT ![turn] = target[turn]]
         /\ pulls[turn] \in 0 .. 1 /\ remote[turn] \in Commits \cup {0}
         /\ s \notin {"listing", "proposed"} => pulls[turn] = 0
         /\ s \in {"pushing", "proposing", "proposed"} => target[turn].expected # 0
         /\ s \in {"proposing", "proposed"} => remote[turn] = target[turn].expected
         /\ s = "proposed" => pulls[turn] = 1
BY AtTargetFacts DEF Inv, TypeOK, Loop

\* A target is begun only when it is next and has not succeeded.
LEMMA BeginTargetKeeps == ASSUME Inv, BeginTarget PROVE Inv'
<1>1. AtTarget("target") /\ turn \in Targets /\ Doing = "githubPr" /\ step = "target"
  BY AtTargetFacts DEF BeginTarget
<1>2. target[turn] \in [status : {"absent", "reconciling", "succeeded", "failed"},
        expected : Commits \cup {0}, linked : BOOLEAN, differs : BOOLEAN]
  BY <1>1 DEF Inv, TypeOK
<1>3. /\ UNCHANGED <<config, calm, run, row, outside, file>>
      /\ worktrees' \subseteq Branches
  BY DEF BeginTarget, disk, Inv, TypeOK
<1>4. CASE target[turn].status = "succeeded" /\ target[turn].linked
  <2>1. /\ target[turn] \in [status : {"reconciling", "succeeded", "failed"},
                             expected : Commits \cup {0}, linked : BOOLEAN, differs : BOOLEAN]
        /\ pulls[turn] = 1
    BY <1>1, <1>2, <1>4 DEF Inv, Reality
  <2>2. NextTarget /\ failed' = failed /\ target' = target
    BY <1>4 DEF BeginTarget
  <2>3. target' = [target EXCEPT ![turn] = target[turn]] /\ failed' \subseteq Targets
    BY <1>1, <2>2 DEF Inv, TypeOK
  <2>4. QED
    BY <1>1, <1>3, <1>4, <2>1, <2>2, <2>3, NextTargetKeeps
<1>5. CASE ~ (target[turn].status = "succeeded" /\ target[turn].linked)
  <2> USE DEF Inv
  <2>1. /\ target' = [target EXCEPT ![turn].status = "reconciling"] /\ step' = "listing"
        /\ UNCHANGED <<plan, overwrite, calm, run, row, remote, pulls, file, worktrees>>
        /\ UNCHANGED <<at, turn, local, failed, results>>
    BY <1>5 DEF BeginTarget, Goto, config, outside, disk
  <2>2. TypeOK'
    BY <1>1, <2>1 DEF TypeOK, Steps
  <2>3. Loop'
    BY <1>1, <2>1 DEF Loop, TypeOK
  <2>4. Reality'
    BY <1>1, <2>1 DEF Reality, TypeOK
  <2>5. QED
    BY <1>1, <2>1, <2>2, <2>3, <2>4, LoopStep DEF InTarget
<1>6. QED
  BY <1>4, <1>5

\* Looking at the remote branch keeps the invariant.
LEMMA CheckBranchKeeps == ASSUME Inv, CheckBranch PROVE Inv'
<1>1. /\ AtTarget("checking") /\ "checking" \in InTarget
      /\ UNCHANGED <<config, calm, run, row, outside, file>> /\ worktrees' \subseteq Branches
  BY DEF CheckBranch, disk, Inv, TypeOK, InTarget
<1>2. PICK seen \in Seen(turn) :
        \/ /\ seen = 0
           /\ Goto(IF target[turn].expected = 0 THEN "cherry-pick" ELSE "pushing")
           /\ UNCHANGED target
        \/ /\ seen # 0 /\ seen = target[turn].expected
           /\ Goto("proposing")
           /\ UNCHANGED target
        \/ /\ seen \notin {0, target[turn].expected}
           /\ FailTarget(FALSE, TRUE)
  BY DEF CheckBranch
<1>3. CASE UNCHANGED target /\ Goto("cherry-pick")
  BY <1>1, <1>3, TurnFacts, GotoKeeps DEF InTarget
<1>4. CASE UNCHANGED target /\ Goto("pushing") /\ target[turn].expected # 0
  BY <1>1, <1>4, TurnFacts, GotoKeeps DEF InTarget
<1>5. CASE UNCHANGED target /\ Goto("proposing") /\ target[turn].expected # 0
             /\ remote[turn] = target[turn].expected
  BY <1>1, <1>5, TurnFacts, GotoKeeps DEF InTarget
<1>6. CASE FailTarget(FALSE, TRUE)
  BY <1>1, <1>6, FailTargetKeeps
<1>7. seen # 0 => seen = remote[turn]
  BY DEF Seen
<1>8. QED
  BY <1>2, <1>3, <1>4, <1>5, <1>6, <1>7

\* So does adding the worktree of a target,
LEMMA AddTargetWorktreeKeeps == ASSUME Inv, AddTargetWorktree PROVE Inv'
<1>1. /\ AtTarget("cherry-pick") /\ "cherry-pick" \in InTarget /\ "picking" \in InTarget
      /\ UNCHANGED <<config, calm, run, row, target, outside, file>> /\ Goto("picking")
  BY DEF AddTargetWorktree, rows, InTarget
<1>2. worktrees' \subseteq Branches
  BY <1>1, AtTargetFacts DEF AddTargetWorktree, Inv, TypeOK
<1>3. QED
  BY <1>1, <1>2, TurnFacts, GotoKeeps

\* picking the commit into it,
LEMMA CherryPickKeeps == ASSUME Inv, CherryPick PROVE Inv'
<1> DEFINE row1 == [target[turn] EXCEPT !.expected = NewCommit(turn), !.differs = FALSE]
<1>1. /\ AtTarget("picking") /\ "picking" \in InTarget /\ "pushing" \in InTarget
      /\ UNCHANGED <<config, calm, run, row, outside, file>> /\ Goto("pushing")
      /\ worktrees' \subseteq Branches
  BY DEF CherryPick, InTarget, Inv, TypeOK
<1>2. NewCommit(turn) \in Commits /\ NewCommit(turn) # 0
  BY DEF NewCommit, Commits
<1>3. row1 \in [status : {"reconciling"}, expected : Commits \cup {0},
               linked : BOOLEAN, differs : BOOLEAN]
      /\ row1.expected # 0
  BY <1>1, <1>2, TurnFacts
<1>4. target' = [target EXCEPT ![turn] = row1]
  BY <1>1, AtTargetFacts DEF CherryPick, Inv, TypeOK
<1>5. pulls[turn] = 0
  BY <1>1, TurnFacts
<1> HIDE DEF row1
<1>6. QED
  BY <1>1, <1>3, <1>4, <1>5, GotoKeeps

\* pushing it,
LEMMA PushTargetKeeps == ASSUME Inv, PushTarget PROVE Inv'
<1> USE DEF Inv
<1>1. /\ AtTarget("pushing") /\ "pushing" \in InTarget
      /\ UNCHANGED <<plan, overwrite, calm, run, row, target, pulls, file, worktrees>>
      /\ UNCHANGED <<at, turn, local, failed, results>> /\ step' = "proposing"
      /\ remote' = [remote EXCEPT ![turn] = target[turn].expected]
      /\ remote[turn] \in {0, target[turn].expected}
  BY DEF PushTarget, config, rows, disk, Goto, Accepts, InTarget
<1>2. /\ turn \in Branches /\ turn \in Targets /\ turn # 0 /\ 0 \in Branches
      /\ Doing = "githubPr" /\ step = "pushing"
  BY <1>1, AtTargetFacts
<1>3. target[turn].expected \in Commits /\ target[turn].expected # 0 /\ pulls[turn] = 0
  BY <1>1, TurnFacts
<1>4. TypeOK'
  BY <1>1, <1>2, <1>3 DEF TypeOK, Steps
<1>5. Loop'
  BY <1>1, <1>2, <1>3 DEF Loop, TypeOK, InTarget
<1>6. Reality'
  <2>1. remote'[0] = remote[0]
    BY <1>1, <1>2 DEF TypeOK
  <2>2. \A t \in Targets : remote[t] # 0 => remote'[t] # 0
    BY <1>1, <1>2, <1>3 DEF TypeOK, Targets, Branches
  <2>3. QED
    BY <1>1, <2>1, <2>2 DEF Reality
<1>7. QED
  BY <1>1, <1>2, <1>4, <1>5, <1>6, LoopStep DEF InTarget

\* opening the pull request,
LEMMA OpenPullKeeps == ASSUME Inv, OpenPull PROVE Inv'
<1> USE DEF Inv
<1>1. /\ AtTarget("proposing") /\ "proposing" \in InTarget
      /\ UNCHANGED <<plan, overwrite, calm, run, row, target, remote, file, worktrees>>
      /\ UNCHANGED <<at, turn, local, failed, results>> /\ step' = "proposed"
      /\ pulls' = [pulls EXCEPT ![turn] = @ + 1]
  BY DEF OpenPull, config, rows, disk, Goto, InTarget
<1>2. turn \in Targets /\ Doing = "githubPr" /\ step = "proposing"
  BY <1>1, AtTargetFacts
<1>3. pulls[turn] = 0 /\ remote[turn] # 0
  BY <1>1, TurnFacts
<1>4. pulls' = [pulls EXCEPT ![turn] = 1]
  BY <1>1, <1>3
<1>5. TypeOK'
  BY <1>1, <1>2, <1>4 DEF TypeOK, Steps
<1>6. Loop'
  BY <1>1, <1>2, <1>3, <1>4 DEF Loop, TypeOK, InTarget
<1>7. Reality'
  BY <1>1, <1>2, <1>3, <1>4 DEF Reality, TypeOK
<1>8. QED
  BY <1>1, <1>2, <1>5, <1>6, <1>7, LoopStep DEF InTarget

\* and any failure on the way.
LEMMA TargetFailsKeeps == ASSUME Inv, TargetFails PROVE Inv'
<1>1. /\ FailTarget(step \in {"pushing", "proposing", "proposed"}, FALSE)
      /\ worktrees' \subseteq Branches /\ UNCHANGED <<config, calm, run, row, outside, file>>
  BY DEF TargetFails, Inv, TypeOK
<1>2. \E s \in InTarget : AtTarget(s)
  BY DEF TargetFails, InTarget
<1>3. /\ (step \in {"pushing", "proposing", "proposed"}) \in BOOLEAN
      /\ FALSE \in BOOLEAN
  OBVIOUS
<1>4. QED
  BY <1>1, <1>2, <1>3, FailTargetKeeps

\* The action succeeds only when every target has.
LEMMA EndTargetsKeeps == ASSUME Inv, EndTargets PROVE Inv'
<1> DEFINE result == IF failed = {} THEN "succeeded" ELSE "failed"
<1>1. /\ Doing = "githubPr" /\ Doing \in Remotes /\ turn \notin Targets
      /\ Record(result, row[Doing].commit, FALSE) /\ Conclude(result)
      /\ UNCHANGED <<config, calm, run, target, outside, file>>
      /\ worktrees' \subseteq Branches
  BY DEF EndTargets, At, Remotes, disk, Inv, TypeOK
<1>2. result \in {"succeeded", "failed"} /\ row[Doing].commit \in Commits \cup {0}
      /\ FALSE \in BOOLEAN
  BY <1>1 DEF Inv, TypeOK, Actions
<1>3. result = "succeeded" => \A t \in Targets : pulls[t] = 1
  BY <1>1, NumTargetsAssumption DEF Inv, TypeOK, Loop, Targets
<1> HIDE DEF result
<1>4. QED
  BY <1>1, <1>2, <1>3, RemoteConcluded

\* All the steps of a GitHub delivery together.
LEMMA PullsKeep == ASSUME Inv, DeliverPulls PROVE Inv'
<1>1. CASE AdoptPull
  <2>1. /\ AtTarget("listing") /\ "listing" \in InTarget /\ Link(0) /\ pulls[turn] = 1
        /\ 0 \in Commits \cup {0} /\ UNCHANGED <<config, calm, run, row, outside, disk>>
    BY <1>1 DEF AdoptPull, InTarget
  <2>2. QED
    BY <2>1, LinkKeeps
<1>2. CASE FindNoPull
  <2>1. /\ AtTarget("listing") /\ "listing" \in InTarget /\ "checking" \in InTarget
        /\ Goto("checking") /\ pulls[turn] = 0
        /\ UNCHANGED <<config, calm, run, row, target, outside, file>>
        /\ worktrees' \subseteq Branches
    BY <1>2 DEF FindNoPull, InTarget, rows, disk, Inv, TypeOK
  <2>2. QED
    BY <2>1, TurnFacts, GotoKeeps
<1>3. CASE MarkPull
  <2>1. /\ AtTarget("proposed") /\ "proposed" \in InTarget /\ Link(target[turn].expected)
        /\ UNCHANGED <<config, calm, run, row, outside, disk>>
    BY <1>3 DEF MarkPull, InTarget
  <2>2. target[turn].expected \in Commits \cup {0} /\ pulls[turn] = 1
    BY <2>1, TurnFacts
  <2>3. QED
    BY <2>1, <2>2, LinkKeeps
<1>4. QED
  BY <1>1, <1>2, <1>3, BeginTargetKeeps, CheckBranchKeeps, AddTargetWorktreeKeeps,
     CherryPickKeeps, PushTargetKeeps, OpenPullKeeps, TargetFailsKeeps, EndTargetsKeeps
     DEF DeliverPulls

---------------------------------------------------------------------------
(***************************************************************************)
(* The coordinator and the run; the invariant.                             *)
(***************************************************************************)
LEMMA RaisesKeeps == ASSUME Inv, Raises PROVE Inv'
<1> USE DEF Inv
<1>1. /\ Doing \in Actions /\ Conclude("failed")
      /\ UNCHANGED <<plan, overwrite, calm, run, row, target, remote, pulls, file>>
      /\ worktrees' \subseteq Branches
  BY DEF Raises, config, rows, outside, TypeOK
<1>2. /\ at' \in 1 .. Len(plan') + 2 /\ step' = "begin" /\ turn' = 1 /\ local' = 0
      /\ failed' = {} /\ results' \in [Actions -> {"none", "succeeded", "failed"}]
      /\ Control' /\ Loop'
  BY <1>1, Concluding
<1>3. TypeOK'
  BY <1>1, <1>2, NumTargetsAssumption DEF TypeOK, Steps
<1>4. \A a \in Actions : results'[a] = "succeeded" => results[a] = "succeeded"
  BY <1>1 DEF Conclude, TypeOK
<1>5. Reality' /\ Files'
  BY <1>1, <1>4 DEF Reality, Files, Actions, Remotes, Patches
<1>6. QED
  BY <1>2, <1>3, <1>5

\* A crash or a retry puts delivery back at its beginning.
LEMMA BeginningKeeps ==
  ASSUME Inv, AtTheBeginning, run' \in {"running", "interrupted", "failed", "completed"},
         UNCHANGED <<config, calm, rows, outside, disk>>
  PROVE  Inv'
<1> USE DEF Inv
<1>1. /\ at' = 1 /\ step' = "begin" /\ turn' = 1 /\ local' = 0 /\ failed' = {}
      /\ results' = [a \in Actions |-> "none"]
      /\ UNCHANGED <<plan, overwrite, calm, row, target, remote, pulls, file, worktrees>>
  BY DEF AtTheBeginning, NoResults, config, rows, outside, disk
<1>2. TypeOK'
  BY <1>1, PlanFacts, NumTargetsAssumption DEF TypeOK, Steps
<1>3. Control'
  <2>1. /\ \A i \in DOMAIN plan : plan[i] \in Actions
        /\ "fallback" \in Actions
    BY PlanFacts DEF TypeOK, Actions, Patches
  <2>2. QED
    BY <1>1, <2>1, BeginIsStep DEF Control
<1>4. Loop'
  BY <1>1 DEF Loop, InTarget, Targets
<1>5. Reality' /\ Files'
  BY <1>1 DEF Reality, Files, Actions, Remotes, Patches
<1>6. QED
  BY <1>2, <1>3, <1>4, <1>5

\* The invariant is inductive.
LEMMA NextKeeps == ASSUME Inv, [Next]_vars PROVE Inv'
<1>1. CASE Finish
  <2>1. /\ run' \in {"running", "interrupted", "failed", "completed"}
        /\ UNCHANGED <<config, calm, place, rows, outside, disk>>
    BY <1>1 DEF Finish
  <2>2. Doing' = Doing
    BY <2>1, DoingSame DEF config, place
  <2>3. QED
    BY <2>1, <2>2 DEF Inv, TypeOK, Control, Loop, Reality, Files, config, place, rows,
                      outside, disk
<1>2. CASE Crash
  BY <1>2, BeginningKeeps DEF Crash
<1>3. CASE Resume
  BY <1>3, BeginningKeeps DEF Resume
<1>4. CASE ResumeFails
  BY <1>4, BeginningKeeps DEF ResumeFails
<1>5. CASE CalmDown \/ UNCHANGED vars
  <2>1. UNCHANGED <<config, run, place, rows, outside, disk>> /\ calm' \in BOOLEAN
    BY <1>5 DEF CalmDown, vars, Inv, TypeOK
  <2>2. Doing' = Doing
    BY <2>1, DoingSame DEF config, place
  <2>3. QED
    BY <2>1, <2>2 DEF Inv, TypeOK, Control, Loop, Reality, Files, config, place, rows,
                      outside, disk
<1>6. QED
  BY <1>1, <1>2, <1>3, <1>4, <1>5, BeginKeeps, PatchKeeps, MakeCommitKeeps, PushKeeps,
     PullsKeep, RaisesKeeps DEF Next, Execute

\* It holds at the start.
LEMMA InitInv == Init => Inv
<1> SUFFICES ASSUME Init PROVE Inv
  OBVIOUS
<1>1. TypeOK
  <2>1. plan \in Plans /\ Len(plan) \in Nat
    BY PlanFacts DEF Init
  <2>2. overwrite \in BOOLEAN
    BY DEF Init
  <2>3. row \in [Actions ->
          [status : Statuses, commit : Commits \cup {0}, differs : BOOLEAN]]
    BY DEF Init, NoRow, Statuses
  <2>4. target \in [Targets ->
          [status : {"absent", "reconciling", "succeeded", "failed"},
           expected : Commits \cup {0}, linked : BOOLEAN, differs : BOOLEAN]]
    BY DEF Init, NoTarget
  <2>5. /\ remote \in [Branches -> Commits \cup {0}] /\ pulls \in [Targets -> 0 .. 1]
        /\ results \in [Actions -> {"none", "succeeded", "failed"}]
    BY DEF Init, NoResults
  <2>6. file \in [Patches -> {"absent", "partial", "whole", "other"}]
    BY DEF Init
  <2>7. at \in 1 .. Len(plan) + 2 /\ turn \in 1 .. NumTargets + 1
    BY <2>1, NumTargetsAssumption DEF Init
  <2>8. /\ run \in {"running", "interrupted", "failed", "completed"} /\ step \in Steps
        /\ local \in Commits \cup {0} /\ failed \subseteq Targets
        /\ worktrees \subseteq Branches /\ calm \in BOOLEAN
    BY DEF Init, Steps
  <2>9. QED
    BY <2>1, <2>2, <2>3, <2>4, <2>5, <2>6, <2>7, <2>8 DEF TypeOK
<1>2. Control
  <2>1. /\ \A i \in DOMAIN plan : plan[i] \in Actions
        /\ "fallback" \in Actions
    BY PlanFacts DEF Init, Actions, Patches
  <2>2. QED
    BY <2>1, BeginIsStep DEF Init, Control, NoResults
<1>3. Loop
  BY DEF Init, Loop, InTarget, Targets
<1>4. Reality /\ Files
  BY DEF Init, Reality, Files, NoResults, NoRow, NoTarget, Actions, Remotes, Patches
<1>5. QED
  BY <1>1, <1>2, <1>3, <1>4 DEF Inv

\* It holds in every reachable state.
LEMMA InvHolds == Spec => []Inv
<1>1. Inv /\ [Next]_vars => Inv'
  BY NextKeeps
<1>2. QED
  BY InitInv, <1>1, PTL DEF Spec

---------------------------------------------------------------------------
(***************************************************************************)
(* The properties.                                                         *)
(***************************************************************************)
\* The variables keep their types; above all, a target never gets a second
\* pull request, whatever answers are lost and however often it is retried.
THEOREM DeliveryTypes == Spec => []TypeOK
<1>1. Inv => TypeOK
  BY DEF Inv
<1>2. QED
  BY InvHolds, <1>1, PTL

\* Whatever the delivery tables call a success exists outside of them.
THEOREM SuccessesAreReal == Spec => []SuccessIsReal
<1>1. Inv => SuccessIsReal
  BY DEF Inv, Reality, Files, SuccessIsReal
<1>2. QED
  BY InvHolds, <1>1, PTL

\* A failed run that offers a fallback patch has a whole one.
THEOREM FallbacksAreWhole == Spec => []FallbackIsWhole
<1>1. Inv => FallbackIsWhole
  BY DEF Inv, Files, FallbackIsWhole
<1>2. QED
  BY InvHolds, <1>1, PTL

\* Which steps change the remote repository.
LEMMA RemoteChanges ==
  ASSUME [Next]_vars
  PROVE  /\ remote' # remote => PushCommit \/ PushTarget
         /\ pulls' # pulls => OpenPull
BY DEF Next, Execute, Begin, DeliverPatch, AdoptPatch, CreatePatch, WritePatch, PatchFails,
       MakeCommit, ReuseCommit, AddWorktree, Build, CommitFails, DeliverPush,
       CheckTaskBranch, PushCommit, Confirm, PushFails, DeliverPulls, BeginTarget, AdoptPull,
       FindNoPull, CheckBranch, AddTargetWorktree, CherryPick, PushTarget, OpenPull, MarkPull,
       TargetFails, EndTargets, Raises, Finish, Crash, Resume, ResumeFails, CalmDown, vars,
       outside

\* A branch and a pull request are on record before they are there.
Recorded ==
  \A t \in Targets :
    /\ remote'[t] # remote[t] => remote'[t] = target[t].expected
    /\ pulls'[t] # pulls[t] => remote[t] = target[t].expected

\* Every step that changes a remote branch or opens a pull request has its row.
LEMMA StepRecorded == ASSUME Inv, [Next]_vars PROVE Recorded
<1>1. CASE PushCommit
  BY <1>1 DEF PushCommit, Targets, Recorded
<1>2. CASE PushTarget
  BY <1>2 DEF PushTarget, Inv, TypeOK, Targets, Recorded
<1>3. CASE OpenPull
  <2>1. remote[turn] = target[turn].expected
    BY <1>3, TurnFacts DEF OpenPull, InTarget
  <2>2. QED
    BY <1>3, <2>1 DEF OpenPull, Inv, TypeOK, Recorded
<1>4. QED
  BY <1>1, <1>2, <1>3, RemoteChanges DEF Recorded

\* Nothing is done to a remote before the row that intends it is written: a
\* crash right after the push finds what it has to adopt.
THEOREM IntentsFirst == Spec => IntentFirst
<1>1. Inv /\ [Next]_vars => [Recorded]_vars
  BY StepRecorded
<1>2. [][Recorded]_vars => IntentFirst
  <2>1. [Recorded]_vars =>
          [\A t \in Targets :
             /\ remote'[t] # remote[t] => remote'[t] = target[t].expected
             /\ pulls'[t] # pulls[t] => remote[t] = target[t].expected]_vars
    BY DEF Recorded
  <2>2. QED
    BY <2>1, PTL DEF IntentFirst
<1>3. QED
  BY <1>1, <1>2, InvHolds, PTL DEF Spec

\* Only the target in turn changes its row, and it is none that succeeded.
LEMMA TargetChanges ==
  ASSUME Inv, [Next]_vars, target' # target
  PROVE  /\ turn \in Targets /\ target[turn].status # "succeeded"
         /\ \A t \in Targets \ {turn} : target'[t] = target[t]
<1>1. CASE BeginTarget
  <2>1. turn \in Targets /\ target' = [target EXCEPT ![turn].status = "reconciling"]
        /\ ~ (target[turn].status = "succeeded" /\ target[turn].linked)
    BY <1>1, AtTargetFacts DEF BeginTarget
  <2>2. QED
    BY <2>1 DEF Inv, TypeOK, Reality
<1>2. CASE \E s \in InTarget : AtTarget(s)
  <2>1. turn \in Targets /\ target[turn].status = "reconciling"
    BY <1>2, AtTargetFacts DEF AtTarget, At, Inv, Loop
  <2>2. ~ BeginTarget /\ ~ EndTargets /\ ~ Begin
    BY <1>2 DEF AtTarget, At, InTarget, BeginTarget, EndTargets, Begin
  <2>3. \A t \in Targets \ {turn} : target'[t] = target[t]
    BY <1>2, <2>1, <2>2 DEF Next, Execute, DeliverPatch, AdoptPatch, CreatePatch, WritePatch,
       PatchFails, MakeCommit, ReuseCommit, AddWorktree, Build, CommitFails, DeliverPush,
       CheckTaskBranch, PushCommit, Confirm, PushFails, DeliverPulls, AdoptPull, FindNoPull,
       CheckBranch, AddTargetWorktree, CherryPick, PushTarget, OpenPull, MarkPull,
       TargetFails, Link, FailTarget, Raises, Finish, Crash, Resume, ResumeFails, CalmDown,
       vars, rows, Inv, TypeOK
  <2>4. QED
    BY <2>1, <2>3
<1>3. CASE ~ BeginTarget /\ ~ (\E s \in InTarget : AtTarget(s))
  BY <1>3 DEF Next, Execute, Begin, DeliverPatch, AdoptPatch, CreatePatch, WritePatch,
     PatchFails, MakeCommit, ReuseCommit, AddWorktree, Build, CommitFails, DeliverPush,
     CheckTaskBranch, PushCommit, Confirm, PushFails, DeliverPulls, AdoptPull, FindNoPull,
     CheckBranch, AddTargetWorktree, CherryPick, PushTarget, OpenPull, MarkPull,
     TargetFails, EndTargets, Raises, Finish, Crash, Resume, ResumeFails, CalmDown,
     vars, rows, InTarget
<1>4. QED
  BY <1>1, <1>2, <1>3

\* A target that succeeded stays as it is, whatever crashes and retries follow.
THEOREM SucceededStays == Spec => SucceededIsKept
<1>1. ASSUME Inv, [Next]_vars, NEW t \in Targets, target[t].status = "succeeded"
      PROVE  target'[t] = target[t]
  BY <1>1, TargetChanges
<1>2. Inv /\ [Next]_vars =>
        [\A t \in Targets : target[t].status = "succeeded" => target'[t] = target[t]]_vars
  BY <1>1
<1>3. QED
  BY <1>2, InvHolds, PTL DEF Spec, SucceededIsKept

---------------------------------------------------------------------------
(***************************************************************************)
(* Refinement.                                                             *)
(***************************************************************************)
LEMMA ActionDoneInPlan ==
  ASSUME Inv, NEW a \in Actions \ {"fallback"}, Doing = a
  PROVE  InPlan(plan, a)
BY DoingFacts DEF Inv, InPlan

\* Every step is a step of the promise or changes nothing of it.
LEMMA StepImplements == ASSUME Inv, [Next]_vars PROVE [Promise!Next]_(Promise!vars)
<1> USE DEF Inv
<1>1. CASE PushCommit
  <2>1. /\ Doing = "gitlabPush" /\ step = "pushing" /\ run = "running"
        /\ remote[0] \in {0, local} /\ remote' = [remote EXCEPT ![0] = local]
        /\ UNCHANGED <<plan, run, pulls>>
    BY <1>1 DEF PushCommit, At, Accepts, config
  <2>2. local \in Commits /\ 0 \in Branches /\ 0 \in Wanted /\ Wanted' = Wanted
    BY <2>1, ActionDoneInPlan, NumTargetsAssumption
       DEF Control, TypeOK, Branches, Wanted, Actions, Remotes
  <2>3. CASE remote[0] = 0
    BY <2>1, <2>2, <2>3 DEF Promise!Next, Promise!Push
  <2>4. CASE remote[0] = local
    BY <2>1, <2>2, <2>4 DEF Promise!vars, TypeOK
  <2>5. QED
    BY <2>1, <2>3, <2>4
<1>2. CASE PushTarget
  <2>1. /\ AtTarget("pushing") /\ "pushing" \in InTarget
        /\ remote[turn] \in {0, target[turn].expected}
        /\ remote' = [remote EXCEPT ![turn] = target[turn].expected]
        /\ UNCHANGED <<plan, run, pulls>>
    BY <1>2 DEF PushTarget, Accepts, config, InTarget
  <2>2. Doing = "githubPr" /\ turn \in Targets /\ turn \in Branches /\ run = "running"
    BY <2>1, AtTargetFacts
  <2>3. target[turn].expected \in Commits
    BY <2>1, TurnFacts
  <2>4. turn \in Wanted /\ Wanted' = Wanted
    BY <2>1, <2>2, ActionDoneInPlan DEF Wanted, Actions, Remotes
  <2>5. CASE remote[turn] = 0
    BY <2>1, <2>2, <2>3, <2>4, <2>5 DEF Promise!Next, Promise!Push
  <2>6. CASE remote[turn] = target[turn].expected
    BY <2>1, <2>4, <2>6 DEF Promise!vars, TypeOK
  <2>7. QED
    BY <2>1, <2>5, <2>6
<1>3. CASE OpenPull
  <2>1. /\ AtTarget("proposing") /\ "proposing" \in InTarget
        /\ pulls' = [pulls EXCEPT ![turn] = @ + 1]
        /\ UNCHANGED <<plan, run, remote>>
    BY <1>3 DEF OpenPull, config, InTarget
  <2>2. turn \in Targets /\ run = "running" /\ pulls[turn] = 0 /\ remote[turn] # 0
    BY <2>1, AtTargetFacts, TurnFacts
  <2>3. pulls' = [pulls EXCEPT ![turn] = 1] /\ Wanted' = Wanted
    BY <2>1, <2>2 DEF Wanted
  <2>4. QED
    BY <2>1, <2>2, <2>3 DEF Promise!Next, Promise!OpenPull
<1>4. CASE Finish
  <2>1. /\ Doing = "end" /\ run = "running"
        /\ run' = IF Succeeded THEN "completed" ELSE "failed"
        /\ UNCHANGED <<plan, remote, pulls>>
    BY <1>4 DEF Finish, At, config, outside
  <2>2. Wanted' = Wanted
    BY <2>1 DEF Wanted
  <2>3. CASE Succeeded
    <3>1. InPlan(plan, "gitlabPush") => remote[0] # 0
      BY <2>3 DEF InPlan, Succeeded, Reality
    <3>2. InPlan(plan, "githubPr") => \A t \in Targets : pulls[t] = 1 /\ remote[t] # 0
      BY <2>3 DEF InPlan, Succeeded, Reality
    <3>3. \A b \in Wanted : remote[b] # 0 /\ (b \in Targets => pulls[b] = 1)
      BY <3>1, <3>2 DEF Wanted, Targets
    <3>4. QED
      BY <2>1, <2>2, <2>3, <3>3 DEF Promise!Next, Promise!Complete
  <2>4. CASE ~ Succeeded
    BY <2>1, <2>2, <2>4 DEF Promise!vars
  <2>5. QED
    BY <2>3, <2>4
<1>5. CASE ~ (PushCommit \/ PushTarget \/ OpenPull \/ Finish)
  <2>1. UNCHANGED <<remote, pulls>>
    BY <1>5, RemoteChanges
  <2>2. UNCHANGED plan /\ (run' = "completed") = (run = "completed")
    BY <1>5 DEF Next, Execute, Begin, DeliverPatch, AdoptPatch, CreatePatch, WritePatch,
       PatchFails, MakeCommit, ReuseCommit, AddWorktree, Build, CommitFails, DeliverPush,
       CheckTaskBranch, Confirm, PushFails, DeliverPulls, BeginTarget, AdoptPull, FindNoPull,
       CheckBranch, AddTargetWorktree, CherryPick, MarkPull, TargetFails, EndTargets, Raises,
       Crash, Resume, ResumeFails, CalmDown, vars, config
  <2>3. Wanted' = Wanted
    BY <2>2 DEF Wanted
  <2>4. QED
    BY <2>1, <2>2, <2>3 DEF Promise!vars
<1>6. QED
  BY <1>1, <1>2, <1>3, <1>4, <1>5

\* Delivery implements DeliveryPromise: no branch is overwritten, no target gets
\* a second pull request, and a completed run has delivered all it was to.
THEOREM DeliveryKeepsPromise == Spec => PromiseKept
<1>1. Init => Promise!Init
  BY NumTargetsAssumption DEF Init, Promise!Init, Wanted, Branches, Targets
<1>2. Inv /\ [Next]_vars => [Promise!Next]_(Promise!vars)
  BY StepImplements
<1>3. QED
  BY <1>1, <1>2, InvHolds, PTL DEF Spec, PromiseKept, Promise!Spec
=============================================================================
