---------------------------- MODULE FrozenChange ----------------------------
(***************************************************************************)
(* What a run delivers: the files the coding agent leaves in the git       *)
(* worktree, the candidate collected from them, the verification commands  *)
(* that may change the worktree again, the frozen change on disk, its      *)
(* delivery now or after a restart, and its copy to the localization       *)
(* directory on request.  ChangedPipeline from the coding stage on, with   *)
(* GitSourceAdapter, VerificationRunner, freeze_change, ArtifactStore and  *)
(* apply_frozen_change_to_localization.                                    *)
(*                                                                         *)
(* A worktree gives every file its bytes, a link, or a repository of its   *)
(* own; git's index gives it what git stores of them.  A patch carries the *)
(* hashes of what it changes, so against the fixed Base a patch and its    *)
(* hash stand for the index it was made from.                              *)
(***************************************************************************)
EXTENDS Integers

CONSTANTS
  Files, Contents,
  NoFile,       \* the content of a file that does not exist
  NoTree,       \* no patch
  Holds,        \* what each file may hold
  Links,        \* symbolic links
  Repositories, \* directories with a git repository of their own
  Clean,        \* of each worktree, what git stores of its files: line endings
                \* and other filters, as the attributes there say
  CheckOut,     \* of each index, what a checkout of its files writes
  Follow,       \* of each worktree, what opening its files reads
  Ignored,      \* of each worktree, the untracked files .gitignore names there
  Lossy,        \* the indexes whose patch is no UTF-8 text
  Base,         \* the index of the baseline revision
  Quoted,       \* files whose names git quotes (core.quotePath)
  Allowed,      \* files the source policy authorizes
  Renames,      \* of each index, the pairs git calls renames: old and new file
  Steps,        \* number of verification steps
  Required,     \* the required ones
  Appliers,     \* HTTP requests that apply the change to the localization
  Directories,  \* what the localization directory may hold
  MaxCrashes    \* bound

ASSUME Kinds ==
  /\ NoFile \notin Contents
  /\ Holds \in [Files -> SUBSET Contents]

Trees ==
  {t \in [Files -> Contents \cup {NoFile}] : \A f \in Files : t[f] \in Holds[f] \cup {NoFile}}

\* A worktree's file and what git stores of it.
Stores == {<<t[f], Clean[t][f]>> : t \in Trees, f \in Files}

Indexes == {i \in Trees : \A f \in Files : i[f] = NoFile \/ \E t \in Trees : i[f] = Clean[t][f]}

ASSUME NothingElse == NoTree \notin Trees
ASSUME BaseTree == Base \in Indexes /\ Directories \subseteq [Files -> Contents \cup {NoFile}]
ASSUME FileSets == Quoted \cup Allowed \subseteq Files
ASSUME Counts == Steps \in Nat /\ MaxCrashes \in Nat /\ Required \subseteq 1 .. Steps
ASSUME Rules == Ignored \in [Trees -> SUBSET Files]
ASSUME Filters ==
  /\ Clean \in [Trees -> Trees] /\ CheckOut \in [Trees -> Trees]
  /\ \A t \in Trees, f \in Files : /\ t[f] = NoFile <=> Clean[t][f] = NoFile
                                   /\ t[f] = NoFile <=> CheckOut[t][f] = NoFile
                                   /\ t[f] \in Links <=> Clean[t][f] \in Links

\* What was checked out is stored as it was.
ASSUME FiltersAgree ==
  \A i \in Indexes, t \in Trees :
    (\A f \in Files : i[f] # NoFile => t[f] = CheckOut[i][f]) =>
      \A f \in Files : i[f] # NoFile => Clean[t][f] = i[f]

ASSUME Opening ==
  /\ Follow \in [Trees -> [Files -> Contents \cup {NoFile}]]
  /\ \A t \in Trees, f \in Files :
       /\ t[f] \notin Links \cup Repositories => Follow[t][f] = t[f]
       /\ t[f] \in Repositories => Follow[t][f] = NoFile
ASSUME RenameDetection ==
  /\ Renames \in [Trees -> SUBSET (Files \X Files)]
  /\ \A t \in Trees : \A r \in Renames[t] :
       /\ Base[r[1]] # NoFile /\ t[r[1]] = NoFile
       /\ Base[r[2]] = NoFile /\ t[r[2]] # NoFile
       /\ \A s \in Renames[t] : r[1] = s[1] <=> r[2] = s[2]

VARIABLES
  step,       \* where the run is
  failure,    \* why it failed
  work,       \* the worktree
  candidate,  \* the index collected after the coding stage
  checks,     \* verification: the next step, and what the steps so far say
  frozen,     \* the directory freeze-change: metadata, patch, files, manifest
  listed,     \* the files freeze_change has been through
  delivered,  \* patches handed to the final actions
  crashes,
  local,      \* the localization directory
  apply,      \* requests that write into it
  accepted    \* history: candidates that passed the verification

memory == <<work, candidate, checks, listed>>
disk == <<frozen, delivered>>
localization == <<local, apply>>
vars == <<step, failure, memory, disk, crashes, localization, accepted>>

Empty == [f \in Files |-> NoFile]
NothingFrozen == [metadata |-> FALSE, patch |-> NoTree, files |-> Empty, manifest |-> FALSE]
NoChecks == [next |-> 1, passed |-> TRUE, canceled |-> FALSE]
NoApply == [on |-> FALSE, todo |-> {}, old |-> {}]

Init ==
  /\ step = "coding"
  /\ failure = "none"
  /\ work = CheckOut[Base]
  /\ candidate = Base
  /\ checks = NoChecks
  /\ frozen = NothingFrozen
  /\ listed = {}
  /\ delivered = {}
  /\ crashes = 0
  /\ local \in Directories
  /\ apply = [a \in Appliers |-> NoApply]
  /\ accepted = {}

---------------------------------------------------------------------------
(***************************************************************************)
(* GitSourceAdapter.                                                       *)
(***************************************************************************)
\* git add -A, and the diff of the index against the baseline.  A file that is in
\* the index already is added though it is ignored.
Staged(index, tree) ==
  [f \in Files |-> IF index[f] = NoFile /\ f \in Ignored[tree] THEN NoFile ELSE Clean[tree][f]]

Olds(change) == {r[1] : r \in Renames[change]}

\* --name-only shows a rename as its new file.
Changed(change) == {f \in Files : change[f] # Base[f]} \ Olds(change)

\* --name-status is read without -z, so a quoted name is not found there.
Operation(change, f) ==
  IF f \in Quoted THEN "modify"
  ELSE IF \E r \in Renames[change] : r[2] = f THEN "rename"
  ELSE IF Base[f] = NoFile THEN "add"
  ELSE IF change[f] = NoFile THEN "delete"
  ELSE "modify"

\* reset --hard: of the files the baseline does not have, those in the index go; a
\* nested repository stays.
Reset(index, tree) ==
  [f \in Files |-> IF Base[f] # NoFile THEN CheckOut[Base][f]
                   ELSE IF index[f] # NoFile /\ tree[f] \notin Repositories THEN NoFile
                   ELSE tree[f]]

\* clean -fd, by the rules that hold after the reset.
Scrubbed(tree) ==
  [f \in Files |-> IF Base[f] # NoFile \/ tree[f] \in Repositories \/ f \in Ignored[tree]
                   THEN tree[f] ELSE NoFile]

\* Mutant: files the candidate deletes come back with the baseline.
RestoredByReset(change, index, tree) ==
  [f \in Files |-> IF change[f] # NoFile THEN CheckOut[change][f]
                   ELSE Scrubbed(Reset(index, tree))[f]]

\* Both; apply --cached; unlink what --diff-filter=D lists, where a renamed file is
\* missing; checkout-index --all --force.
Restored(change, index, tree) ==
  [f \in Files |-> IF change[f] # NoFile THEN CheckOut[change][f]
                   ELSE IF Base[f] # NoFile /\ f \notin Olds(change) THEN NoFile
                   ELSE Scrubbed(Reset(index, tree))[f]]

---------------------------------------------------------------------------
(***************************************************************************)
(* ChangedPipeline.run from the coding stage to the freeze.                *)
(***************************************************************************)
\* finally: the worktree is removed, whatever the run ended with.
End(how, why) ==
  /\ step' = how
  /\ failure' = why
  /\ work' = Empty
  /\ candidate' = Base
  /\ checks' = NoChecks
  /\ listed' = {}

AgentFails ==
  /\ step = "coding"
  /\ End("failed", "agent")
  /\ UNCHANGED <<disk, crashes, localization, accepted>>

Repair(tree) ==
  /\ step = "coding"
  /\ work' = tree
  /\ step' = "collecting"
  /\ UNCHANGED <<failure, candidate, checks, listed, disk, crashes, localization, accepted>>

CollectNothing ==
  /\ step = "collecting"
  /\ Changed(Staged(Base, work)) = {}
  /\ \/ End("unchanged", "none")
     \/ End("failed", "no_diff")
  /\ UNCHANGED <<disk, crashes, localization, accepted>>

CollectUnauthorized ==
  /\ step = "collecting"
  /\ ~ Changed(Staged(Base, work)) \subseteq Allowed
  /\ End("failed", "unauthorized")
  /\ UNCHANGED <<disk, crashes, localization, accepted>>

\* Mutant: the paths are authorized as git names them, quotes included.
CollectUnquoted ==
  /\ step = "collecting"
  /\ Changed(Staged(Base, work)) # {}
  /\ Changed(Staged(Base, work)) \subseteq Allowed \cup Quoted
  /\ candidate' = Staged(Base, work)
  /\ step' = "verifying"
  /\ UNCHANGED <<failure, work, checks, listed, disk, crashes, localization, accepted>>

Collect ==
  /\ step = "collecting"
  /\ Changed(Staged(Base, work)) # {}
  /\ Changed(Staged(Base, work)) \subseteq Allowed
  /\ candidate' = Staged(Base, work)
  /\ step' = "verifying"
  /\ UNCHANGED <<failure, work, checks, listed, disk, crashes, localization, accepted>>

\* One command; it may leave anything behind in the worktree.
Verify(tree, outcome) ==
  /\ step = "verifying"
  /\ checks.next <= Steps
  /\ work' = tree
  /\ checks' = [next |-> checks.next + 1,
                passed |-> checks.passed /\ (checks.next \in Required => outcome = "passed"),
                canceled |-> checks.canceled \/ outcome = "canceled"]
  /\ UNCHANGED <<step, failure, candidate, listed, disk, crashes, localization, accepted>>

\* Mutant: what the commands left behind stays.
ViewOnly ==
  /\ step = "verifying"
  /\ checks.next > Steps
  /\ step' = "judging"
  /\ UNCHANGED <<failure, memory, disk, crashes, localization, accepted>>

\* A patch that was no UTF-8 text has lost bytes: it does not apply, or what it
\* makes has another hash.
View ==
  /\ step = "verifying"
  /\ checks.next > Steps
  /\ LET seen == Staged(candidate, work)
         tree == IF seen = candidate THEN work ELSE Restored(candidate, seen, work)
     IN IF seen = candidate \/ (candidate \notin Lossy /\ Staged(candidate, tree) = candidate)
        THEN /\ step' = "judging"
             /\ work' = tree
             /\ UNCHANGED <<failure, candidate, checks, listed>>
        ELSE End("failed", "mutated")
  /\ UNCHANGED <<disk, crashes, localization, accepted>>

\* A git command fails while the candidate is restored.
RestoreFails ==
  /\ step = "verifying"
  /\ checks.next > Steps
  /\ Staged(candidate, work) # candidate
  /\ End("failed", "mutated")
  /\ UNCHANGED <<disk, crashes, localization, accepted>>

\* Any other fails or times out, or the agent or a verification step has moved
\* HEAD or removed the directory that the next one runs in.
GitFails ==
  /\ step \in {"collecting", "verifying"}
  /\ End("failed", "git")
  /\ UNCHANGED <<disk, crashes, localization, accepted>>

Judge ==
  /\ step = "judging"
  /\ \/ /\ checks.canceled
        /\ End("canceled", "none")
        /\ UNCHANGED accepted
     \/ /\ ~ checks.canceled /\ ~ checks.passed
        /\ End("failed", "verification")
        /\ UNCHANGED accepted
     \/ /\ ~ checks.canceled /\ checks.passed
        /\ step' = "checking"
        /\ accepted' = accepted \cup {candidate}
        /\ UNCHANGED <<failure, memory>>
  /\ UNCHANGED <<disk, crashes, localization>>

\* The cancel check and PreDeliveryStabilityGuard.
Check ==
  /\ step = "checking"
  /\ \/ End("canceled", "none")
     \/ End("failed", "unstable")
     \/ step' = "freezing" /\ UNCHANGED <<failure, memory>>
  /\ UNCHANGED <<disk, crashes, localization, accepted>>

---------------------------------------------------------------------------
(***************************************************************************)
(* freeze_change.  Each artifact is replaced atomically, one after the     *)
(* other; the files are read from the worktree, through links.  The hashes *)
(* the manifest lists are those of the artifacts just written.             *)
(***************************************************************************)
WriteMetadata ==
  /\ step = "freezing"
  /\ ~ frozen.metadata
  /\ frozen' = [frozen EXCEPT !.metadata = TRUE]
  /\ UNCHANGED <<step, failure, memory, delivered, crashes, localization, accepted>>

WritePatch ==
  /\ step = "freezing"
  /\ frozen.metadata
  /\ frozen.patch = NoTree
  /\ frozen' = [frozen EXCEPT !.patch = candidate]
  /\ UNCHANGED <<step, failure, memory, delivered, crashes, localization, accepted>>

Missing(f) == Operation(candidate, f) # "delete" /\ Follow[work][f] = NoFile

\* Mutant: the loop goes over the whole diff.
WriteAnyFile(f) ==
  /\ step = "freezing"
  /\ frozen.patch # NoTree
  /\ candidate[f] # Base[f]
  /\ f \notin listed
  /\ ~ Missing(f)
  /\ frozen' = [frozen EXCEPT !.files[f] = Follow[work][f]]
  /\ listed' = listed \cup {f}
  /\ UNCHANGED <<step, failure, work, candidate, checks, delivered, crashes,
                 localization, accepted>>

\* The files in the order of the diff, whatever it is.
WriteFile(f) ==
  /\ step = "freezing"
  /\ frozen.patch # NoTree
  /\ f \in Changed(candidate) \ listed
  /\ ~ Missing(f)
  /\ frozen' = IF Operation(candidate, f) = "delete" THEN frozen
               ELSE [frozen EXCEPT !.files[f] = Follow[work][f]]
  /\ listed' = listed \cup {f}
  /\ UNCHANGED <<step, failure, work, candidate, checks, delivered, crashes,
                 localization, accepted>>

\* Mutant: the manifest does not wait for the files.
WriteManifestEarly ==
  /\ step = "freezing"
  /\ frozen.patch # NoTree
  /\ ~ frozen.manifest
  /\ frozen' = [frozen EXCEPT !.manifest = TRUE]
  /\ UNCHANGED <<step, failure, memory, delivered, crashes, localization, accepted>>

WriteManifest ==
  /\ step = "freezing"
  /\ frozen.patch # NoTree
  /\ Changed(candidate) \subseteq listed
  /\ ~ frozen.manifest
  /\ frozen' = [frozen EXCEPT !.manifest = TRUE]
  /\ UNCHANGED <<step, failure, memory, delivered, crashes, localization, accepted>>

\* A disk error, a locked database, or a file that is not there.
FreezeFails ==
  /\ step = "freezing"
  /\ End("failed", "freeze")
  /\ UNCHANGED <<disk, crashes, localization, accepted>>

\* From here on nobody reads the worktree any more.
EndFreeze ==
  /\ step = "freezing"
  /\ frozen.manifest
  /\ \/ End("delivering", "none")
     \/ End("canceled", "none")
  /\ UNCHANGED <<disk, crashes, localization, accepted>>

---------------------------------------------------------------------------
(***************************************************************************)
(* Delivery from the frozen directory, in the same execution or a later    *)
(* one: RecoveryService, retry_delivery, RunExecutor.                      *)
(***************************************************************************)
Deliver ==
  /\ step = "delivering"
  /\ delivered' = delivered \cup {frozen.patch}
  /\ \/ step' = "completed" /\ UNCHANGED failure
     \/ step' = "failed" /\ failure' = "delivery"
  /\ UNCHANGED <<memory, frozen, crashes, localization, accepted>>

\* Mutant: whatever has been frozen may be delivered.
RetryPatch ==
  /\ step = "failed"
  /\ frozen.patch # NoTree
  /\ step' = "delivering"
  /\ failure' = "none"
  /\ UNCHANGED <<memory, disk, crashes, localization, accepted>>

Retry ==
  /\ step = "failed"
  /\ frozen.manifest
  /\ step' = "delivering"
  /\ failure' = "none"
  /\ UNCHANGED <<memory, disk, crashes, localization, accepted>>

Ended == {"completed", "unchanged", "failed", "canceled"}

\* The process dies with its memory and its requests; the restart looks for
\* the manifest.  The worktree is left behind, and no one looks at it again.
Crash ==
  /\ crashes < MaxCrashes
  /\ crashes' = crashes + 1
  /\ IF step \in Ended THEN UNCHANGED <<step, failure, memory>>
     ELSE IF frozen.manifest THEN End("delivering", "none")
     ELSE End("failed", "interrupted")
  /\ apply' = [a \in Appliers |-> NoApply]
  /\ UNCHANGED <<disk, local, accepted>>

---------------------------------------------------------------------------
(***************************************************************************)
(* apply_frozen_change_to_localization: everything is read and planned,    *)
(* then written file by file.                                              *)
(***************************************************************************)
\* `rename from` and `rename to` are looked up by the names git quotes.
OldOf(change, f) ==
  {r[1] : r \in {s \in Renames[change] : s[2] = f /\ {s[1], f} \cap Quoted = {}}}

BeginApply(a) ==
  /\ step = "completed"
  /\ ~ apply[a].on
  /\ apply' = [apply EXCEPT ![a] = [on |-> TRUE, todo |-> Changed(frozen.patch), old |-> {}]]
  /\ UNCHANGED <<step, failure, memory, disk, crashes, local, accepted>>

\* Mutant: a renamed file keeps its old name too.
ApplyCopy(a, f) ==
  /\ apply[a].on
  /\ apply[a].old = {}
  /\ f \in apply[a].todo
  /\ local' = [local EXCEPT ![f] = IF Operation(frozen.patch, f) = "delete"
                                  THEN NoFile ELSE frozen.files[f]]
  /\ apply' = [apply EXCEPT ![a].todo = @ \ {f}]
  /\ UNCHANGED <<step, failure, memory, disk, crashes, accepted>>

ApplyFile(a, f) ==
  /\ apply[a].on
  /\ apply[a].old = {}
  /\ f \in apply[a].todo
  /\ local' = [local EXCEPT ![f] = IF Operation(frozen.patch, f) = "delete"
                                  THEN NoFile ELSE frozen.files[f]]
  /\ apply' = [apply EXCEPT ![a].todo = @ \ {f}, ![a].old = OldOf(frozen.patch, f)]
  /\ UNCHANGED <<step, failure, memory, disk, crashes, accepted>>

ApplyOld(a, f) ==
  /\ f \in apply[a].old
  /\ local' = [local EXCEPT ![f] = NoFile]
  /\ apply' = [apply EXCEPT ![a].old = @ \ {f}]
  /\ UNCHANGED <<step, failure, memory, disk, crashes, accepted>>

EndApply(a) ==
  /\ apply[a].on
  /\ apply[a].todo = {}
  /\ apply[a].old = {}
  /\ apply' = [apply EXCEPT ![a] = NoApply]
  /\ UNCHANGED <<step, failure, memory, disk, crashes, local, accepted>>

\* A disk error, a directory in the way, or a file the other request has
\* removed between the look and the unlink.
ApplyFails(a) ==
  /\ apply[a].on
  /\ apply' = [apply EXCEPT ![a] = NoApply]
  /\ UNCHANGED <<step, failure, memory, disk, crashes, local, accepted>>

\* Somebody works in the localization directory between the requests.
EditLocalization ==
  /\ \A a \in Appliers : ~ apply[a].on
  /\ local' \in Directories
  /\ UNCHANGED <<step, failure, memory, disk, crashes, apply, accepted>>

---------------------------------------------------------------------------
Coding ==
  \/ AgentFails \/ \E tree \in Trees : Repair(tree)
  \/ CollectNothing \/ CollectUnauthorized \/ Collect
  \/ \E tree \in Trees, outcome \in {"passed", "failed", "canceled"} : Verify(tree, outcome)
  \/ View \/ RestoreFails \/ GitFails \/ Judge \/ Check

Freezing ==
  \/ WriteMetadata \/ WritePatch \/ \E f \in Files : WriteFile(f)
  \/ WriteManifest \/ FreezeFails \/ EndFreeze

Applying ==
  \/ \E a \in Appliers : BeginApply(a) \/ EndApply(a) \/ ApplyFails(a)
  \/ \E a \in Appliers, f \in Files : ApplyFile(a, f) \/ ApplyOld(a, f)
  \/ EditLocalization

Next == Coding \/ Freezing \/ Deliver \/ Retry \/ Crash \/ Applying

Spec == Init /\ [][Next]_vars

---------------------------------------------------------------------------
(***************************************************************************)
(* Properties.                                                             *)
(***************************************************************************)
Working == {"coding", "collecting", "verifying", "judging", "checking", "freezing", "delivering"}
Failures == {"none", "agent", "no_diff", "unauthorized", "mutated", "git", "verification",
             "unstable", "freeze", "delivery", "interrupted"}

TypeOK ==
  /\ step \in Working \cup Ended
  /\ failure \in Failures
  /\ work \in Trees
  /\ candidate \in Trees
  /\ checks \in [next : 1 .. Steps + 1, passed : BOOLEAN, canceled : BOOLEAN]
  /\ frozen \in [metadata : BOOLEAN, patch : Trees \cup {NoTree},
                 files : [Files -> Contents \cup {NoFile}], manifest : BOOLEAN]
  /\ listed \subseteq Changed(candidate)
  /\ delivered \subseteq Trees
  /\ crashes \in 0 .. MaxCrashes
  /\ local \in [Files -> Contents \cup {NoFile}]
  /\ apply \in [Appliers -> [on : BOOLEAN, todo : SUBSET Files, old : SUBSET Files]]
  /\ accepted \subseteq Trees

\* A manifest on disk stands for a whole change: the metadata and a patch that
\* passed the verification are there, and every regular file of that patch is there as
\* git may store it in the patch's place, although it was read from the worktree the
\* verification commands had their hands on.
FrozenIsVerified ==
  frozen.manifest =>
    /\ frozen.metadata
    /\ frozen.patch \in accepted
    /\ \A f \in Changed(frozen.patch) :
         frozen.patch[f] \notin Links \cup {NoFile} =>
           <<frozen.files[f], frozen.patch[f]>> \in Stores

\* What the manifest stands for never changes, through crashes and retries.
FreezeIsFinal == [][frozen.manifest => UNCHANGED frozen]_frozen

\* Every delivery of the run hands over the same patch, one that was verified
\* and completely frozen.
DeliversTheFrozen ==
  delivered # {} => frozen.manifest /\ delivered = {frozen.patch} /\ delivered \subseteq accepted

\* Whatever a frozen patch touches is authorized; only the old names of renamed
\* files, which collect_change does not list, are not asked about.
ScopeKept ==
  frozen.patch # NoTree =>
    \A f \in Files : frozen.patch[f] # Base[f] => f \in Allowed \cup Olds(frozen.patch)

\* No leftover of a verification command costs the run its candidate when the
\* commands of git do their work, but for a rename, a patch that is no UTF-8 text,
\* a nested repository, and a file that is ignored only until the candidate is restored.
LeftoversAreScrubbed ==
  [][View /\ failure' = "mutated" =>
       \/ Olds(candidate) # {}
       \/ candidate \in Lossy
       \/ \E f \in Files : work[f] \in Repositories
       \/ \E f \in Ignored[work] :
            /\ work[f] # NoFile
            /\ f \notin Ignored[Restored(candidate, Staged(candidate, work), work)]]_vars

\* A request that reports success leaves every file of the change in the
\* localization directory and none of its old ones, although another request
\* is half-way through the same files.
AppliedIsWhole ==
  [][\A a \in Appliers :
       EndApply(a) =>
         \A f \in Changed(frozen.patch) :
           /\ local[f] = IF Operation(frozen.patch, f) = "delete" THEN NoFile
                         ELSE frozen.files[f]
           /\ \A old \in OldOf(frozen.patch, f) : local[old] = NoFile]_vars
=============================================================================
