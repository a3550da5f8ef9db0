------------------------------ MODULE Delivery ------------------------------
(***************************************************************************)
(* The delivery of one frozen change: DeliveryCoordinator executes the     *)
(* final actions of the project in order, PatchFinalAction,                *)
(* GitLabPushFinalAction and GitHubPrFinalAction, then the fallback patch  *)
(* when a remote action failed, and the run is completed or failed.  A     *)
(* failed run may be retried, an interrupted one is resumed: every         *)
(* execution begins with the first action again and finds the rows of      *)
(* delivery_action_runs and delivery_target_runs, the files and the remote *)
(* as the earlier ones left them.                                          *)
(*                                                                         *)
(* Branch 0 is the task branch of GitLab, branch t the head of the pull    *)
(* request for the t-th target branch.  The code compares a commit only    *)
(* with what the same branch holds, and a new commit differs from it: a    *)
(* commit is 1 or 2, whichever its branch does not hold, and 0 is none.    *)
(* A step ends after what the outside world or another execution can see.  *)
(***************************************************************************)
EXTENDS Integers, Sequences, FiniteSets

CONSTANTS
  NumTargets,  \* the length of targetBranches of the githubPr action
  Plans,       \* the sequences of final actions projects have
  Faults       \* subset of {"commands", "answers", "disk", "locked", "crash"}

Remotes == {"gitlabPush", "githubPr"}
Patches == {"patch", "fallback"}
Actions == Remotes \cup Patches

Targets == 1 .. NumTargets
Branches == 0 .. NumTargets
Commits == {1, 2}

InPlan(p, action) == \E i \in DOMAIN p : p[i] = action

ASSUME NumTargetsAssumption == NumTargets \in Nat
ASSUME FaultKinds == Faults \subseteq {"commands", "answers", "disk", "locked", "crash"}
\* Action ids are unique, and a workspace is hosted on one kind of server only.
ASSUME PlansAreSequences ==
  \A p \in Plans :
    /\ p \in Seq({"patch"} \cup Remotes)
    /\ \A i, j \in DOMAIN p : p[i] = p[j] => i = j
    /\ ~ (InPlan(p, "gitlabPush") /\ InPlan(p, "githubPr"))

VARIABLES
  plan,       \* the project's final actions, from the frozen config
  overwrite,  \* the option of its patch action
  run,        \* the run: "running", "interrupted", "failed", "completed"
  at,         \* index in plan, then the fallback, then the end
  step,       \* where the action is
  turn,       \* the target of the githubPr action
  local,      \* delivery_commit of GitLabPushFinalAction.execute
  failed,     \* failures of GitHubPrDelivery.deliver
  results,    \* the FinalActionResults of this execution
  row,        \* delivery_action_runs: status, the commit in result_json, and
              \* whether its error is a remote branch with another content
  target,     \* delivery_target_runs: status, expectedCommit, external_url, same
  remote,     \* the branches of the remote repository
  pulls,      \* how many pull requests there are for each target
  file,       \* the patch files in the project's directory and in data_root
  worktrees,  \* worktree directories on disk, 0 for "delivery-commit"
  calm        \* no fault happens any more

config == <<plan, overwrite>>
place == <<at, step, turn, local, failed, results>>
rows == <<row, target>>
outside == <<remote, pulls>>
disk == <<file, worktrees>>
vars == <<config, run, place, rows, outside, disk, calm>>

NoRow == [status |-> "absent", commit |-> 0, differs |-> FALSE]
NoTarget == [status |-> "absent", expected |-> 0, linked |-> FALSE, differs |-> FALSE]
NoResults == [a \in Actions |-> "none"]

Init ==
  /\ plan \in Plans
  /\ overwrite \in IF InPlan(plan, "patch") THEN BOOLEAN ELSE {FALSE}
  /\ run = "running"
  /\ at = 1
  /\ step = "begin"
  /\ turn = 1
  /\ local = 0
  /\ failed = {}
  /\ results = NoResults
  /\ row = [a \in Actions |-> NoRow]
  /\ target = [t \in Targets |-> NoTarget]
  /\ remote = [b \in Branches |-> 0]
  /\ pulls = [t \in Targets |-> 0]
  /\ file \in [Patches -> {"absent", "other"}]  \* the name has no run id in it
  /\ worktrees = {}
  /\ calm = FALSE

---------------------------------------------------------------------------
May(fault) == fault \in Faults /\ ~ calm

RemoteFailed == \E a \in Remotes : results[a] = "failed"

Doing ==
  IF at <= Len(plan) THEN plan[at]
  ELSE IF at = Len(plan) + 1 /\ RemoteFailed THEN "fallback" ELSE "end"

At(actions, s) == run = "running" /\ Doing \in actions /\ step = s

Goto(s) == step' = s /\ UNCHANGED <<at, turn, local, failed, results>>

\* The action returns its result; the coordinator goes on with the next one.
Conclude(result) ==
  /\ results' = [results EXCEPT ![Doing] = result]
  /\ at' = at + 1
  /\ step' = "begin"
  /\ turn' = 1
  /\ local' = 0
  /\ failed' = {}

Record(status, commit, differs) ==
  row' = [row EXCEPT ![Doing] = [status |-> status, commit |-> commit, differs |-> differs]]

NewCommit(b) == IF remote[b] = 1 THEN 2 ELSE 1

\* What ls-remote shows of a branch; its failure looks like no branch.
Seen(b) == {remote[b]} \cup (IF May("commands") THEN {0} ELSE {})

\* ensure_action and the mark as running
Begin ==
  /\ At(Actions, "begin")
  /\ row' = [row EXCEPT ![Doing].status = "running"]
  /\ Goto(IF Doing \in Remotes THEN "commit" ELSE "opening")
  /\ UNCHANGED <<config, calm, run, target, outside, disk>>

---------------------------------------------------------------------------
(***************************************************************************)
(* PatchFinalAction, FallbackPatchFinalAction and deliver_patch.           *)
(***************************************************************************)
Overwrites == Doing = "patch" /\ overwrite

\* Mutant: any patch action may stand in for the fallback.
ReusableUnchecked == Doing = "fallback" /\ results["patch"] # "none"

Reusable == Doing = "fallback" /\ results["patch"] = "succeeded"

AdoptPatch ==
  /\ At(Patches, "opening")
  /\ Reusable \/ (file[Doing] = "whole" /\ ~ Overwrites)
  /\ Record("succeeded", 0, FALSE)
  /\ Conclude("succeeded")
  /\ UNCHANGED <<config, calm, run, target, outside, disk>>

CreatePatch ==
  /\ At(Patches, "opening")
  /\ ~ Reusable
  /\ file[Doing] = "absent" \/ Overwrites
  /\ file' = [file EXCEPT ![Doing] = "partial"]
  /\ Goto("writing")
  /\ UNCHANGED <<config, calm, run, rows, outside, worktrees>>

WritePatch ==
  /\ At(Patches, "writing")
  /\ file' = [file EXCEPT ![Doing] = "whole"]
  /\ Record("succeeded", 0, FALSE)
  /\ Conclude("succeeded")
  /\ UNCHANGED <<config, calm, run, target, outside, worktrees>>

PatchFails ==
  /\ \/ /\ At(Patches, "opening")
        /\ ~ Reusable
        /\ May("disk") \/ (file[Doing] \in {"partial", "other"} /\ ~ Overwrites)
     \/ /\ At(Patches, "writing")
        /\ May("disk")
  /\ Record("failed", 0, FALSE)
  /\ Conclude("failed")
  /\ UNCHANGED <<config, calm, run, target, outside, disk>>

---------------------------------------------------------------------------
(***************************************************************************)
(* The delivery commit, which both remote actions make in a worktree of    *)
(* their own; only GitHubPrDelivery records it at once.                    *)
(***************************************************************************)
KeepCommit(c) ==
  IF Doing = "githubPr"
  THEN /\ row' = [row EXCEPT ![Doing].commit = c]
       /\ Goto("target")
  ELSE /\ local' = c
       /\ step' = "checking"
       /\ UNCHANGED <<row, at, turn, failed, results>>

ReuseCommit ==
  /\ At(Remotes, "commit")
  /\ row[Doing].commit # 0
  /\ KeepCommit(row[Doing].commit)
  /\ UNCHANGED <<config, calm, run, target, outside, disk>>

AddWorktree ==
  /\ At(Remotes, "commit")
  /\ row[Doing].commit = 0
  /\ 0 \notin worktrees
  /\ worktrees' = worktrees \cup {0}
  /\ Goto("building")
  /\ UNCHANGED <<config, calm, run, rows, outside, file>>

Build ==
  /\ At(Remotes, "building")
  /\ KeepCommit(NewCommit(0))
  /\ worktrees' = worktrees \ {0}
  /\ UNCHANGED <<config, calm, run, target, outside, file>>

\* The error detail replaces result_json: of GitLab's the commit is gone.
FailAction(differs) ==
  /\ Record("failed", IF Doing = "githubPr" THEN row[Doing].commit ELSE 0, differs)
  /\ Conclude("failed")

CommitFails ==
  /\ \/ /\ At(Remotes, "commit")
        /\ May("commands") \/ (row[Doing].commit = 0 /\ 0 \in worktrees)
     \/ /\ At(Remotes, "building")
        /\ May("commands")
  /\ FailAction(FALSE)
  /\ worktrees' = IF step = "building" THEN worktrees \ {0} ELSE worktrees
  /\ UNCHANGED <<config, calm, run, target, outside, file>>

---------------------------------------------------------------------------
(***************************************************************************)
(* The rest of GitLabPushFinalAction.execute.                              *)
(***************************************************************************)
CheckTaskBranch ==
  /\ At({"gitlabPush"}, "checking")
  /\ \E seen \in Seen(0) :
       \/ seen = 0 /\ Goto("pushing") /\ UNCHANGED row
       \/ seen = local /\ Record("succeeded", local, FALSE) /\ Conclude("succeeded")
       \/ seen \notin {0, local} /\ FailAction(TRUE)
  /\ UNCHANGED <<config, calm, run, target, outside, disk>>

\* git push without force: a branch with another commit refuses it.
Accepts(b, c) == remote[b] \in {0, c}

\* Mutant: the push is not confirmed, nor its refusal noticed.
PushUnconfirmed ==
  /\ At({"gitlabPush"}, "pushing")
  /\ Record("succeeded", local, FALSE)
  /\ Conclude("succeeded")
  /\ UNCHANGED <<config, calm, run, target, outside, disk>>

PushCommit ==
  /\ At({"gitlabPush"}, "pushing")
  /\ Accepts(0, local)
  /\ remote' = [remote EXCEPT ![0] = local]
  /\ Goto("confirming")
  /\ UNCHANGED <<config, calm, run, rows, pulls, disk>>

Confirm ==
  /\ At({"gitlabPush"}, "confirming")
  /\ remote[0] = local
  /\ Record("succeeded", local, FALSE)
  /\ Conclude("succeeded")
  /\ UNCHANGED <<config, calm, run, target, outside, disk>>

\* A command fails, or it did what it should and its answer is lost.
PushFails ==
  /\ \/ At({"gitlabPush"}, "checking") /\ May("commands")
     \/ /\ At({"gitlabPush"}, "pushing")
        /\ May("commands") \/ ~ Accepts(0, local)
     \/ At({"gitlabPush"}, "confirming") /\ (May("commands") \/ May("answers"))
  /\ FailAction(FALSE)
  /\ UNCHANGED <<config, calm, run, target, outside, disk>>

---------------------------------------------------------------------------
(***************************************************************************)
(* The target branches, in the loop of GitHubPrDelivery.deliver.           *)
(***************************************************************************)
AtTarget(s) == At({"githubPr"}, s) /\ turn \in Targets

NextTarget ==
  /\ turn' = turn + 1
  /\ step' = "target"
  /\ UNCHANGED <<at, local, results>>

\* Mutant: a retry looks at every target anew.
BeginTargetAgain ==
  /\ AtTarget("target")
  /\ target' = [target EXCEPT ![turn].status = "reconciling"]
  /\ Goto("listing")
  /\ UNCHANGED <<config, calm, run, row, outside, disk>>

BeginTarget ==
  /\ AtTarget("target")
  /\ IF target[turn].status = "succeeded" /\ target[turn].linked
     THEN NextTarget /\ UNCHANGED <<failed, target>>
     ELSE /\ target' = [target EXCEPT ![turn].status = "reconciling"]
          /\ Goto("listing")
  /\ UNCHANGED <<config, calm, run, row, outside, disk>>

\* mark_target replaces result_json, an adopted pull request has no commit in it.
Link(expected) ==
  /\ target' = [target EXCEPT ![turn] =
       [status |-> "succeeded", expected |-> expected, linked |-> TRUE, differs |-> FALSE]]
  /\ NextTarget
  /\ UNCHANGED failed

\* `known`: target_commit was set in this attempt, so that it is kept.
FailTarget(known, differs) ==
  /\ target' = [target EXCEPT ![turn] =
       [target[turn] EXCEPT !.status = "failed", !.differs = differs,
          !.expected = IF known THEN target[turn].expected ELSE 0]]
  /\ failed' = failed \cup {turn}
  /\ NextTarget

\* Mutant: a pull request of an earlier attempt is an error.
RefusePull ==
  /\ AtTarget("listing")
  /\ pulls[turn] = 1
  /\ FailTarget(FALSE, FALSE)
  /\ UNCHANGED <<config, calm, run, row, outside, disk>>

AdoptPull ==
  /\ AtTarget("listing")
  /\ pulls[turn] = 1
  /\ Link(0)
  /\ UNCHANGED <<config, calm, run, row, outside, disk>>

\* Mutant: the lookup for a pull request of an earlier attempt is left out.
ListPulls ==
  /\ AtTarget("listing")
  /\ Goto("checking")
  /\ UNCHANGED <<config, calm, run, rows, outside, disk>>

FindNoPull ==
  /\ AtTarget("listing")
  /\ pulls[turn] = 0
  /\ Goto("checking")
  /\ UNCHANGED <<config, calm, run, rows, outside, disk>>

\* Mutant: a branch of that name is taken for the one pushed before.
CheckBranchName ==
  /\ AtTarget("checking")
  /\ Goto(IF remote[turn] # 0 THEN "proposing"
          ELSE IF target[turn].expected = 0 THEN "cherry-pick" ELSE "pushing")
  /\ UNCHANGED <<config, calm, run, rows, outside, disk>>

CheckBranch ==
  /\ AtTarget("checking")
  /\ \E seen \in Seen(turn) :
       \/ /\ seen = 0
          /\ Goto(IF target[turn].expected = 0 THEN "cherry-pick" ELSE "pushing")
          /\ UNCHANGED target
       \/ /\ seen # 0 /\ seen = target[turn].expected
          /\ Goto("proposing")
          /\ UNCHANGED target
       \/ /\ seen \notin {0, target[turn].expected}
          /\ FailTarget(FALSE, TRUE)
  /\ UNCHANGED <<config, calm, run, row, outside, disk>>

AddTargetWorktree ==
  /\ AtTarget("cherry-pick")
  /\ turn \notin worktrees
  /\ worktrees' = worktrees \cup {turn}
  /\ Goto("picking")
  /\ UNCHANGED <<config, calm, run, rows, outside, file>>

CherryPick ==
  /\ AtTarget("picking")
  /\ target' = [target EXCEPT ![turn] = [@ EXCEPT !.expected = NewCommit(turn), !.differs = FALSE]]
  /\ worktrees' = worktrees \ {turn}
  /\ Goto("pushing")
  /\ UNCHANGED <<config, calm, run, row, outside, file>>

\* Mutant: a retry pushes with force.
PushForced ==
  /\ AtTarget("pushing")
  /\ remote' = [remote EXCEPT ![turn] = target[turn].expected]
  /\ Goto("proposing")
  /\ UNCHANGED <<config, calm, run, rows, pulls, disk>>

PushTarget ==
  /\ AtTarget("pushing")
  /\ Accepts(turn, target[turn].expected)
  /\ remote' = [remote EXCEPT ![turn] = target[turn].expected]
  /\ Goto("proposing")
  /\ UNCHANGED <<config, calm, run, rows, pulls, disk>>

OpenPull ==
  /\ AtTarget("proposing")
  /\ pulls' = [pulls EXCEPT ![turn] = @ + 1]
  /\ Goto("proposed")
  /\ UNCHANGED <<config, calm, run, rows, remote, disk>>

MarkPull ==
  /\ AtTarget("proposed")
  /\ Link(target[turn].expected)
  /\ UNCHANGED <<config, calm, run, row, outside, disk>>

\* A command fails; at "proposing" that may be the push whose answer is lost,
\* at "proposed" it is the creation of the pull request.
TargetFails ==
  /\ \/ AtTarget("listing") /\ (May("commands") \/ pulls[turn] > 1)
     \/ AtTarget("checking") /\ May("commands")
     \/ AtTarget("cherry-pick") /\ (May("commands") \/ turn \in worktrees)
     \/ AtTarget("picking") /\ May("commands")
     \/ AtTarget("pushing") /\ (May("commands") \/ ~ Accepts(turn, target[turn].expected))
     \/ AtTarget("proposing") /\ (May("commands") \/ May("answers"))
     \/ AtTarget("proposed") /\ May("answers")
  /\ FailTarget(step \in {"pushing", "proposing", "proposed"}, FALSE)
  /\ worktrees' = IF step = "picking" THEN worktrees \ {turn} ELSE worktrees
  /\ UNCHANGED <<config, calm, run, row, outside, file>>

EndTargets ==
  /\ At({"githubPr"}, "target")
  /\ turn \notin Targets
  /\ LET result == IF failed = {} THEN "succeeded" ELSE "failed"
     IN Record(result, row[Doing].commit, FALSE) /\ Conclude(result)
  /\ UNCHANGED <<config, calm, run, target, outside, disk>>

---------------------------------------------------------------------------
(***************************************************************************)
(* The coordinator, the end of the run, its retry and recovery.            *)
(***************************************************************************)
\* "database is locked" leaves the action: _execute_required catches it.
Raises ==
  /\ May("locked")
  /\ run = "running" /\ Doing \in Actions
  /\ Conclude("failed")
  /\ worktrees' = CASE step = "building" -> worktrees \ {0}
                    [] step = "picking" -> worktrees \ {turn}
                    [] OTHER -> worktrees
  /\ UNCHANGED <<config, calm, run, rows, outside, file>>

Succeeded == \A i \in DOMAIN plan : results[plan[i]] = "succeeded"

Finish ==
  /\ At({"end"}, "begin")
  /\ run' = IF Succeeded THEN "completed" ELSE "failed"
  /\ UNCHANGED <<config, calm, place, rows, outside, disk>>

AtTheBeginning ==
  /\ at' = 1
  /\ step' = "begin"
  /\ turn' = 1
  /\ local' = 0
  /\ failed' = {}
  /\ results' = NoResults

Crash ==
  /\ May("crash")
  /\ run = "running"
  /\ run' = "interrupted"
  /\ AtTheBeginning
  /\ UNCHANGED <<config, calm, rows, outside, disk>>

\* RecoveryService or retry_delivery, then _resume_frozen_delivery, which may
\* fail before it has an action to execute.
Resume ==
  /\ run \in {"failed", "interrupted"}
  /\ run' = "running"
  /\ AtTheBeginning
  /\ UNCHANGED <<config, calm, rows, outside, disk>>

ResumeFails ==
  /\ May("commands")
  /\ run \in {"failed", "interrupted"}
  /\ run' = "failed"
  /\ AtTheBeginning
  /\ UNCHANGED <<config, calm, rows, outside, disk>>

DeliverPatch == AdoptPatch \/ CreatePatch \/ WritePatch \/ PatchFails
MakeCommit == ReuseCommit \/ AddWorktree \/ Build \/ CommitFails
DeliverPush == CheckTaskBranch \/ PushCommit \/ Confirm \/ PushFails
DeliverPulls ==
  \/ BeginTarget
  \/ AdoptPull
  \/ FindNoPull
  \/ CheckBranch
  \/ AddTargetWorktree
  \/ CherryPick
  \/ PushTarget
  \/ OpenPull
  \/ MarkPull
  \/ TargetFails
  \/ EndTargets

Execute ==
  Begin \/ DeliverPatch \/ MakeCommit \/ DeliverPush \/ DeliverPulls \/ Raises \/ Finish

CalmDown ==
  /\ ~ calm
  /\ calm' = TRUE
  /\ UNCHANGED <<config, run, place, rows, outside, disk>>

Next == Execute \/ Crash \/ Resume \/ ResumeFails \/ CalmDown

Spec == Init /\ [][Next]_vars

\* The executor goes on, and a failed or interrupted delivery is retried.
Fairness == WF_vars(Execute) /\ WF_vars(Resume)

FairSpec == Spec /\ Fairness

---------------------------------------------------------------------------
(***************************************************************************)
(* Properties.                                                             *)
(***************************************************************************)
Statuses == {"absent", "running", "succeeded", "failed"}
Steps == {"begin", "opening", "writing", "commit", "building", "checking", "pushing",
          "confirming", "target", "listing", "cherry-pick", "picking", "proposing",
          "proposed"}

TypeOK ==
  /\ plan \in Plans
  /\ overwrite \in BOOLEAN
  /\ run \in {"running", "interrupted", "failed", "completed"}
  /\ at \in 1 .. Len(plan) + 2
  /\ step \in Steps
  /\ turn \in 1 .. NumTargets + 1
  /\ local \in Commits \cup {0}
  /\ failed \subseteq Targets
  /\ results \in [Actions -> {"none", "succeeded", "failed"}]
  /\ row \in [Actions ->
       [status : Statuses, commit : Commits \cup {0}, differs : BOOLEAN]]
  /\ target \in [Targets ->
       [status : {"absent", "reconciling", "succeeded", "failed"},
        expected : Commits \cup {0}, linked : BOOLEAN, differs : BOOLEAN]]
  /\ remote \in [Branches -> Commits \cup {0}]
  /\ pulls \in [Targets -> 0 .. 1]
  /\ file \in [Patches -> {"absent", "partial", "whole", "other"}]
  /\ worktrees \subseteq Branches
  /\ calm \in BOOLEAN

Wanted ==
  (IF InPlan(plan, "gitlabPush") THEN {0} ELSE {})
    \cup (IF InPlan(plan, "githubPr") THEN Targets ELSE {})

\* The coordinator with its actions, stores and retries implements the promise
\* about the remote repository.
Promise == INSTANCE DeliveryPromise WITH
  wanted <- Wanted, branch <- remote, completed <- run = "completed"
PromiseKept == Promise!Spec

\* What the delivery tables call a success is there: the pull request and its
\* branch, the pushed commit, the whole patch.
SuccessIsReal ==
  /\ \A t \in Targets : target[t].status = "succeeded" => pulls[t] = 1 /\ remote[t] # 0
  /\ row["gitlabPush"].status = "succeeded" =>
       remote[0] # 0 /\ remote[0] = row["gitlabPush"].commit
  /\ row["patch"].status = "succeeded" => file["patch"] = "whole"

\* A run that failed with a fallback patch to offer has a whole patch on disk.
FallbackIsWhole ==
  run = "failed" /\ results["fallback"] = "succeeded" =>
    \E f \in Patches : file[f] = "whole"

\* The intent is on record before the outside world changes: a branch appears
\* with the expected commit of its target row, and a pull request is opened for
\* a branch that holds it.
IntentFirst ==
  [][\A t \in Targets :
       /\ remote'[t] # remote[t] => remote'[t] = target[t].expected
       /\ pulls'[t] # pulls[t] => remote[t] = target[t].expected]_vars

\* A target that succeeded is not delivered again, however often the run is
\* retried or the process crashes.
SucceededIsKept ==
  [][\A t \in Targets :
       target[t].status = "succeeded" => target'[t] = target[t]]_vars

\* A delivery no retry can save: the row does not know the commit of its branch,
\* a worktree was left behind, or a patch file has another content.
DeadEnd ==
  \/ \E t \in Targets : remote[t] # 0 /\ pulls[t] = 0 /\ target[t].expected = 0
  \/ remote[0] # 0 /\ remote[0] \notin {local, row["gitlabPush"].commit}
  \/ worktrees # {} /\ step \notin {"building", "picking"}
  \/ file["patch"] \in {"partial", "other"} /\ step # "writing" /\ ~ overwrite

\* Once faults have stopped, retrying brings the delivery to its end, unless
\* the earlier attempts left one of the dead ends.
RetriesDeliver == calm ~> (run = "completed" \/ DeadEnd)
=============================================================================
