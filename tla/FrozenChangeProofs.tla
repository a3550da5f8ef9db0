------------------------ MODULE FrozenChangeProofs ------------------------
(***************************************************************************)
(* Proofs about FrozenChange, for every set of files, every policy, every  *)
(* way git detects renames and any number of requests.                     *)
(***************************************************************************)
EXTENDS FrozenChange, TLAPS

---------------------------------------------------------------------------
(***************************************************************************)
(* The inductive invariant.                                                *)
(***************************************************************************)
Unfrozen == {"coding", "collecting", "verifying", "judging", "checking"}
Collected == {"verifying", "judging", "checking", "freezing"}

\* The candidate from its collection to the freeze, and the worktree that
\* holds it again once the verification has been looked at.
Candidate ==
  /\ step \in Unfrozen => /\ frozen = NothingFrozen /\ listed = {} /\ delivered = {}
                           /\ failure = "none"
  /\ step \in Collected => candidate \in Indexes /\ Changed(candidate) \subseteq Allowed
  /\ step \in {"judging", "checking", "freezing"} => Staged(candidate, work) = candidate
  /\ step \in {"checking", "freezing"} => candidate \in accepted

\* A regular file that was read from the worktree, and what the patch has of it.
Read(bytes, stored) == stored \notin Links \cup {NoFile} => <<bytes, stored>> \in Stores

\* What freeze_change has written so far; a part of it may stay for ever.
Freeze ==
  /\ frozen.patch # NoTree => frozen.metadata
  /\ frozen.patch = NoTree => listed = {} /\ ~ frozen.manifest
  /\ step = "freezing" =>
       /\ delivered = {}
       /\ frozen.patch \in {NoTree, candidate}
       /\ frozen.manifest => Changed(candidate) \subseteq listed
       /\ \A f \in listed : Read(frozen.files[f], candidate[f])
  /\ step \in {"delivering", "completed"} => frozen.manifest

\* What a request writes of a file.
Frozen(f) == IF Operation(frozen.patch, f) = "delete" THEN NoFile ELSE frozen.files[f]

\* A request has written what it has put behind it, whatever the others do.
Apply ==
  \A a \in Appliers :
    IF apply[a].on
    THEN /\ step = "completed"
         /\ apply[a].todo \subseteq Changed(frozen.patch)
         /\ apply[a].old \subseteq Olds(frozen.patch)
         /\ \A f \in Changed(frozen.patch) \ apply[a].todo :
              /\ local[f] = Frozen(f)
              /\ \A old \in OldOf(frozen.patch, f) : old \in apply[a].old \/ local[old] = NoFile
    ELSE apply[a] = NoApply

Inv ==
  /\ TypeOK /\ Candidate /\ Freeze /\ Apply
  /\ FrozenIsVerified /\ DeliversTheFrozen /\ ScopeKept

---------------------------------------------------------------------------
(***************************************************************************)
(* Trees and changes.                                                      *)
(***************************************************************************)
LEMMA TreeTypes ==
  /\ Base \in Trees /\ Empty \in Trees /\ NoTree \notin Trees
  /\ \A index, tree \in Trees : Staged(index, tree) \in Indexes
  /\ \A change, index, tree \in Trees : Restored(change, index, tree) \in Trees
  /\ Indexes \subseteq Trees /\ CheckOut[Base] \in Trees
<1>1. Indexes \subseteq Trees /\ Base \in Trees /\ CheckOut[Base] \in Trees
  BY BaseTree, Filters DEF Indexes
<1>2. Empty \in Trees
  BY DEF Trees, Empty
<1>3. ASSUME NEW index \in Trees, NEW tree \in Trees PROVE Staged(index, tree) \in Indexes
  <2>1. Clean[tree] \in Trees
    BY Filters
  <2>2. Staged(index, tree) \in Trees
    BY <2>1 DEF Trees, Staged
  <2>3. \A f \in Files : Staged(index, tree)[f] \in {NoFile, Clean[tree][f]}
    BY DEF Staged
  <2>4. QED
    BY <2>2, <2>3 DEF Indexes
<1>4. ASSUME NEW change \in Trees, NEW index \in Trees, NEW tree \in Trees
      PROVE  Restored(change, index, tree) \in Trees
  <2>1. CheckOut[change] \in Trees
    BY Filters
  <2>2. Reset(index, tree) \in Trees
    BY <1>1 DEF Trees, Reset
  <2>3. Scrubbed(Reset(index, tree)) \in Trees
    BY <2>2 DEF Trees, Scrubbed
  <2>4. QED
    BY <2>1, <2>3 DEF Trees, Restored
<1>5. QED
  BY <1>1, <1>2, <1>3, <1>4, NothingElse

\* The baseline differs from itself in no file.
LEMMA BaseChangesNothing == Changed(Base) = {}
BY DEF Changed

\* The old names of renamed files are gone, and not among the listed paths.
LEMMA OldFacts ==
  ASSUME NEW change \in Trees
  PROVE  /\ Changed(change) \subseteq Files /\ Olds(change) \subseteq Files
         /\ \A f \in Changed(change) : f \notin Olds(change)
         /\ \A old \in Olds(change) : change[old] = NoFile
         /\ \A f : OldOf(change, f) \subseteq Olds(change)
<1>1. /\ Renames[change] \subseteq Files \X Files
      /\ \A r \in Renames[change] : change[r[1]] = NoFile
  BY RenameDetection
<1>2. QED
  BY <1>1 DEF Changed, Olds, OldOf

\* A file the diff calls deleted is in no patched tree.
LEMMA DeletedIsGone ==
  ASSUME NEW change, NEW f, Operation(change, f) = "delete"
  PROVE  change[f] = NoFile
BY DEF Operation

\* A regular file that is in the index as the worktree has it is frozen with the
\* bytes that git stores there.
LEMMA ReadFromWork ==
  ASSUME NEW index \in Trees, NEW tree \in Trees, Staged(index, tree) = index,
         NEW f \in Files, Follow[tree][f] # NoFile
  PROVE  Read(Follow[tree][f], index[f])
<1> SUFFICES ASSUME index[f] \notin Links \cup {NoFile}
             PROVE  <<Follow[tree][f], index[f]>> \in Stores
  BY DEF Read
<1>1. Clean[tree][f] = index[f]
  BY DEF Staged
<1>2. tree[f] \notin Links \cup Repositories
  BY <1>1, Filters, Opening
<1>3. Follow[tree][f] = tree[f]
  BY <1>2, Opening
<1>4. QED
  BY <1>1, <1>3 DEF Stores

\* Of the files the candidate does not have, the commands of git leave in the
\* worktree only repositories and what was ignored there.
LEMMA WhatIsLeft ==
  ASSUME NEW change \in Trees, NEW tree \in Trees, NEW f \in Files, Olds(change) = {},
         change[f] = NoFile, Restored(change, Staged(change, tree), tree)[f] # NoFile
  PROVE  tree[f] \in Repositories \/ (f \in Ignored[tree] /\ tree[f] # NoFile)
<1> DEFINE seen == Staged(change, tree)
<1>1. Base[f] = NoFile /\ Scrubbed(Reset(seen, tree))[f] # NoFile
  BY DEF Restored
<1>2. Reset(seen, tree)[f] # NoFile
  BY <1>1 DEF Scrubbed
<1>3. Reset(seen, tree)[f] = tree[f] /\ (seen[f] = NoFile \/ tree[f] \in Repositories)
  BY <1>1, <1>2 DEF Reset
<1>4. CASE seen[f] = NoFile
  <2>1. f \in Ignored[tree] \/ Clean[tree][f] = NoFile
    BY <1>4 DEF Staged
  <2>2. QED
    BY <1>2, <1>3, <2>1, Filters
<1>5. QED
  BY <1>3, <1>4

\* But for them, what is restored is the candidate, whatever a command left behind.
LEMMA RestoredIsCandidate ==
  ASSUME NEW change \in Indexes, NEW tree \in Trees, Olds(change) = {},
         \A f \in Files : tree[f] \notin Repositories,
         \A f \in Ignored[tree] :
           tree[f] # NoFile => f \in Ignored[Restored(change, Staged(change, tree), tree)]
  PROVE  Staged(change, Restored(change, Staged(change, tree), tree)) = change
<1> DEFINE now == Restored(change, Staged(change, tree), tree)
<1>1. change \in Trees /\ now \in Trees
  BY TreeTypes
<1>2. \A f \in Files : change[f] # NoFile => now[f] = CheckOut[change][f]
  BY DEF Restored
<1>3. \A f \in Files : change[f] # NoFile => Clean[now][f] = change[f]
  BY <1>1, <1>2, FiltersAgree
<1>4. ASSUME NEW f \in Files, change[f] = NoFile PROVE Staged(change, now)[f] = NoFile
  <2>1. CASE now[f] = NoFile
    BY <1>1, <2>1, Filters DEF Staged
  <2>2. CASE now[f] # NoFile
    <3>1. f \in Ignored[tree] /\ tree[f] # NoFile
      BY <1>1, <1>4, <2>2, WhatIsLeft
    <3>2. f \in Ignored[now]
      BY <3>1
    <3>3. QED
      BY <1>4, <3>2 DEF Staged
  <2>3. QED
    BY <2>1, <2>2
<1>5. \A f \in Files : Staged(change, now)[f] = change[f]
  <2>1. \A f \in Files : change[f] # NoFile => Staged(change, now)[f] = Clean[now][f]
    BY DEF Staged
  <2>2. QED
    BY <1>3, <1>4, <2>1
<1>6. QED
  BY <1>1, <1>5 DEF Trees, Staged

---------------------------------------------------------------------------
LEMMA InitInv == Init => Inv
<1> SUFFICES ASSUME Init PROVE Inv
  OBVIOUS
<1>1. TypeOK
  <2>1. checks \in [next : 1 .. Steps + 1, passed : BOOLEAN, canceled : BOOLEAN]
    BY Counts DEF Init, NoChecks
  <2>2. frozen \in [metadata : BOOLEAN, patch : Trees \cup {NoTree},
                    files : [Files -> Contents \cup {NoFile}], manifest : BOOLEAN]
    BY DEF Init, NothingFrozen, Empty
  <2>3. apply \in [Appliers -> [on : BOOLEAN, todo : SUBSET Files, old : SUBSET Files]]
    BY DEF Init, NoApply
  <2>4. crashes \in 0 .. MaxCrashes
    BY Counts DEF Init
  <2>5. QED
    BY <2>1, <2>2, <2>3, <2>4, TreeTypes, BaseTree DEF Init, TypeOK, Working, Failures
<1>2. Candidate
  BY DEF Init, Candidate, Collected
<1>3. Freeze
  BY DEF Init, Freeze, NothingFrozen
<1>4. Apply
  BY DEF Init, Apply, NoApply
<1>5. QED
  BY <1>1, <1>2, <1>3, <1>4
     DEF Inv, Init, FrozenIsVerified, DeliversTheFrozen, ScopeKept, NothingFrozen

\* Nobody applies a change before the run is completed.
LEMMA NoApplyYet ==
  ASSUME Inv, step # "completed"
  PROVE  \A a \in Appliers : ~ apply[a].on /\ apply[a] = NoApply
BY DEF Inv, Apply

\* However the run ends or goes on to the delivery.
LEMMA Ending ==
  ASSUME Inv, NEW how \in Ended \cup {"delivering"}, NEW why \in Failures, End(how, why),
         how \in {"delivering", "completed"} => frozen.manifest,
         step # "completed",
         UNCHANGED <<frozen, delivered, local, accepted>>,
         \A a \in Appliers : apply'[a] = NoApply,
         apply' \in [Appliers -> [on : BOOLEAN, todo : SUBSET Files, old : SUBSET Files]],
         crashes' \in 0 .. MaxCrashes
  PROVE  Inv'
<1>1. /\ step' = how /\ failure' = why /\ work' = Empty /\ candidate' = Base
      /\ checks' = NoChecks /\ listed' = {}
  BY DEF End
<1>2. how \notin Unfrozen /\ how \notin Collected /\ how # "freezing"
  BY DEF Ended, Unfrozen, Collected
<1>3. TypeOK'
  <2>1. checks' \in [next : 1 .. Steps + 1, passed : BOOLEAN, canceled : BOOLEAN]
    BY <1>1, Counts DEF NoChecks
  <2>2. step' \in Working \cup Ended
    BY <1>1 DEF Working
  <2>3. QED
    BY <1>1, <2>1, <2>2, TreeTypes DEF Inv, TypeOK
<1>4. Candidate'
  BY <1>1, <1>2 DEF Candidate, Collected
<1>5. Freeze'
  BY <1>1, <1>2 DEF Inv, Freeze
<1>6. Apply'
  BY DEF Apply, NoApply
<1>7. FrozenIsVerified' /\ DeliversTheFrozen' /\ ScopeKept'
  BY DEF Inv, FrozenIsVerified, DeliversTheFrozen, ScopeKept
<1>8. QED
  BY <1>3, <1>4, <1>5, <1>6, <1>7 DEF Inv

\* An end that comes from the run itself, not from a crash.
LEMMA EndingByItself ==
  ASSUME Inv, NEW how \in Ended \cup {"delivering"}, NEW why \in Failures, End(how, why),
         how \in {"delivering", "completed"} => frozen.manifest,
         step # "completed",
         UNCHANGED <<disk, crashes, localization, accepted>>
  PROVE  Inv'
<1>1. \A a \in Appliers : apply'[a] = NoApply
  BY NoApplyYet DEF localization
<1>2. QED
  BY <1>1, Ending DEF disk, localization, Inv, TypeOK

\* What is on disk is not touched while the run works.
LEMMA DiskKept ==
  ASSUME Inv, step # "completed", UNCHANGED <<disk, localization>>, accepted \subseteq accepted'
  PROVE  Apply' /\ FrozenIsVerified' /\ DeliversTheFrozen' /\ ScopeKept'
<1>1. \A a \in Appliers : ~ apply'[a].on /\ apply'[a] = NoApply
  BY NoApplyYet DEF localization
<1>2. QED
  BY <1>1 DEF Inv, Apply, FrozenIsVerified, DeliversTheFrozen, ScopeKept, disk

---------------------------------------------------------------------------
(***************************************************************************)
(* From the coding stage to the freeze.                                    *)
(***************************************************************************)
LEMMA CodingInv == Inv /\ Coding => Inv'
<1> SUFFICES ASSUME Inv, Coding PROVE Inv'
  OBVIOUS
<1>1. CASE AgentFails
  BY <1>1, EndingByItself DEF AgentFails, Ended, Failures
<1>2. CASE CollectNothing
  BY <1>2, EndingByItself DEF CollectNothing, Ended, Failures
<1>3. CASE CollectUnauthorized
  BY <1>3, EndingByItself DEF CollectUnauthorized, Ended, Failures
<1>4. CASE GitFails \/ RestoreFails
  BY <1>4, EndingByItself DEF GitFails, RestoreFails, Ended, Failures
<1>5. ASSUME NEW tree \in Trees, Repair(tree) PROVE Inv'
  <2>1. TypeOK'
    BY <1>5 DEF Inv, TypeOK, Repair, disk, localization, Working
  <2>2. Candidate'
    BY <1>5 DEF Inv, Candidate, Repair, disk, Unfrozen, Collected
  <2>3. Freeze'
    BY <1>5 DEF Inv, Freeze, Repair, disk
  <2>4. QED
    BY <1>5, <2>1, <2>2, <2>3, DiskKept DEF Inv, Repair
<1>6. CASE Collect
  <2>1. /\ step = "collecting" /\ step' = "verifying" /\ candidate' = Staged(Base, work)
        /\ Changed(Staged(Base, work)) \subseteq Allowed
        /\ UNCHANGED <<failure, work, checks, listed, disk, crashes, localization, accepted>>
    BY <1>6 DEF Collect
  <2>2. Staged(Base, work) \in Indexes /\ Staged(Base, work) \in Trees
    BY TreeTypes DEF Inv, TypeOK
  <2>3. listed = {} /\ frozen = NothingFrozen /\ delivered = {} /\ failure = "none"
    BY <2>1 DEF Inv, Candidate, Unfrozen
  <2>4. TypeOK'
    BY <2>1, <2>2, <2>3 DEF Inv, TypeOK, disk, localization, Working
  <2>5. Candidate'
    BY <2>1, <2>2, <2>3 DEF Candidate, disk, Collected
  <2>6. Freeze'
    BY <2>1 DEF Inv, Freeze, disk
  <2>7. QED
    BY <2>1, <2>4, <2>5, <2>6, DiskKept DEF Inv
<1>7. ASSUME NEW tree \in Trees, NEW outcome \in {"passed", "failed", "canceled"},
             Verify(tree, outcome)
      PROVE  Inv'
  <2>1. /\ step = "verifying" /\ checks.next <= Steps /\ work' = tree
        /\ checks' = [next |-> checks.next + 1,
                      passed |-> checks.passed /\ (checks.next \in Required => outcome = "passed"),
                      canceled |-> checks.canceled \/ outcome = "canceled"]
        /\ UNCHANGED <<step, failure, candidate, listed, disk, crashes, localization, accepted>>
    BY <1>7 DEF Verify
  <2>2. checks' \in [next : 1 .. Steps + 1, passed : BOOLEAN, canceled : BOOLEAN]
    <3>1. checks.next + 1 \in 1 .. Steps + 1
      BY <2>1, Counts DEF Inv, TypeOK
    <3>2. (checks.passed /\ (checks.next \in Required => outcome = "passed")) \in BOOLEAN
      OBVIOUS
    <3>3. (checks.canceled \/ outcome = "canceled") \in BOOLEAN
      OBVIOUS
    <3>4. QED
      BY <2>1, <3>1, <3>2, <3>3
  <2>3. TypeOK'
    BY <2>1, <2>2 DEF Inv, TypeOK, disk, localization
  <2>4. Candidate'
    BY <2>1 DEF Inv, Candidate, disk
  <2>5. Freeze'
    BY <2>1 DEF Inv, Freeze, disk
  <2>6. QED
    BY <2>1, <2>3, <2>4, <2>5, DiskKept DEF Inv
<1>8. CASE View
  <2> DEFINE seen == Staged(candidate, work)
             tree == IF seen = candidate THEN work ELSE Restored(candidate, seen, work)
  <2>0. /\ step = "verifying" /\ UNCHANGED <<disk, crashes, localization, accepted>>
        /\ \/ End("failed", "mutated")
           \/ /\ seen = candidate \/ Staged(candidate, tree) = candidate
              /\ step' = "judging" /\ work' = tree
              /\ UNCHANGED <<failure, candidate, checks, listed>>
    BY <1>8 DEF View
  <2>1. CASE End("failed", "mutated")
    BY <2>0, <2>1, EndingByItself DEF Ended, Failures
  <2>2. CASE /\ seen = candidate \/ Staged(candidate, tree) = candidate
             /\ step' = "judging" /\ work' = tree
             /\ UNCHANGED <<failure, candidate, checks, listed>>
    <3>1. tree \in Trees
      BY TreeTypes DEF Inv, TypeOK
    <3>2. Staged(candidate, tree) = candidate
      BY <2>2
    <3> HIDE DEF seen, tree
    <3>3. TypeOK'
      BY <2>0, <2>2, <3>1 DEF Inv, TypeOK, disk, localization, Working
    <3>4. Staged(candidate', work') = candidate'
      BY <2>2, <3>2
    <3>5. Candidate'
      BY <2>0, <2>2, <3>4 DEF Inv, Candidate, disk, Unfrozen, Collected
    <3>6. Freeze'
      BY <2>0, <2>2 DEF Inv, Freeze, disk
    <3>7. QED
      BY <2>0, <2>2, <3>3, <3>5, <3>6, DiskKept DEF Inv
  <2>3. QED
    BY <2>0, <2>1, <2>2
<1>9. CASE Judge
  <2>1. CASE step' = "checking" /\ accepted' = accepted \cup {candidate} /\ UNCHANGED <<failure,
                                                                                        memory>>
    <3>1. step = "judging" /\ UNCHANGED <<disk, crashes, localization>>
      BY <1>9 DEF Judge
    <3>2. TypeOK'
      BY <2>1, <3>1 DEF Inv, TypeOK, memory, disk, localization, Working
    <3>3. Candidate'
      BY <2>1, <3>1 DEF Inv, Candidate, memory, disk, Unfrozen, Collected, Staged
    <3>4. Freeze'
      BY <2>1, <3>1 DEF Inv, Freeze, memory, disk
    <3>5. QED
      BY <2>1, <3>1, <3>2, <3>3, <3>4, DiskKept DEF Inv
  <2>2. CASE UNCHANGED accepted /\ (End("canceled", "none") \/ End("failed", "verification"))
    BY <1>9, <2>2, EndingByItself DEF Judge, Ended, Failures
  <2>3. QED
    BY <1>9, <2>1, <2>2 DEF Judge
<1>10. CASE Check
  <2>1. CASE step' = "freezing" /\ UNCHANGED <<failure, memory>>
    <3>1. step = "checking" /\ UNCHANGED <<disk, crashes, localization, accepted>>
      BY <1>10 DEF Check
    <3>2. frozen = NothingFrozen /\ listed = {} /\ delivered = {}
      BY <3>1 DEF Inv, Candidate, Unfrozen
    <3>3. TypeOK'
      BY <2>1, <3>1 DEF Inv, TypeOK, memory, disk, localization, Working
    <3>4. Candidate'
      BY <2>1, <3>1 DEF Inv, Candidate, memory, disk, Unfrozen, Collected, Staged
    <3>5. Freeze'
      BY <2>1, <3>1, <3>2 DEF Freeze, memory, disk, NothingFrozen
    <3>6. QED
      BY <2>1, <3>1, <3>3, <3>4, <3>5, DiskKept DEF Inv
  <2>2. CASE End("canceled", "none") \/ End("failed", "unstable")
    BY <1>10, <2>2, EndingByItself DEF Check, Ended, Failures
  <2>3. QED
    BY <1>10, <2>1, <2>2 DEF Check
<1>11. QED
  BY <1>1, <1>2, <1>3, <1>4, <1>5, <1>6, <1>7, <1>8, <1>9, <1>10 DEF Coding

---------------------------------------------------------------------------
(***************************************************************************)
(* The freeze.                                                             *)
(***************************************************************************)
\* As long as there is no manifest, what is written promises nothing.
LEMMA Unpromised ==
  ASSUME Inv, step = "freezing", ~ frozen'.manifest, UNCHANGED <<step, delivered, localization,
                                                                 accepted>>
  PROVE  Apply' /\ FrozenIsVerified' /\ DeliversTheFrozen'
<1>1. delivered = {}
  BY DEF Inv, Freeze
<1>2. \A a \in Appliers : ~ apply'[a].on /\ apply'[a] = NoApply
  BY NoApplyYet DEF localization
<1>3. QED
  BY <1>1, <1>2 DEF Apply, FrozenIsVerified, DeliversTheFrozen

\* The steps of the freeze keep the invariant.
LEMMA FreezingInv == Inv /\ Freezing => Inv'
<1> SUFFICES ASSUME Inv, Freezing PROVE Inv'
  OBVIOUS
<1> USE DEF memory
<1>0. ~ frozen.manifest \/ Changed(candidate) \subseteq listed \/ step # "freezing"
  BY DEF Inv, Freeze
<1>1. CASE WriteMetadata
  <2>1. /\ step = "freezing" /\ frozen' = [frozen EXCEPT !.metadata = TRUE] /\ ~ frozen.metadata
        /\ UNCHANGED <<step, failure, memory, delivered, crashes, localization, accepted>>
    BY <1>1 DEF WriteMetadata
  <2>2. /\ frozen' \in [metadata : BOOLEAN, patch : Trees \cup {NoTree},
                        files : [Files -> Contents \cup {NoFile}], manifest : BOOLEAN]
        /\ frozen'.metadata /\ frozen'.patch = frozen.patch
        /\ frozen'.files = frozen.files /\ frozen'.manifest = frozen.manifest
    BY <2>1 DEF Inv, TypeOK
  <2>3. frozen.patch = NoTree /\ ~ frozen.manifest /\ listed = {}
    BY <2>1 DEF Inv, Freeze
  <2>4. TypeOK' /\ ScopeKept'
    BY <2>1, <2>2, <2>3 DEF Inv, TypeOK, localization, ScopeKept
  <2>5. Candidate'
    BY <2>1 DEF Inv, Candidate, Unfrozen, Staged
  <2>6. Freeze'
    BY <2>1, <2>2, <2>3 DEF Inv, Freeze
  <2>7. QED
    BY <2>1, <2>2, <2>3, <2>4, <2>5, <2>6, Unpromised DEF Inv
<1>2. CASE WritePatch
  <2>1. /\ step = "freezing" /\ frozen' = [frozen EXCEPT !.patch = candidate]
        /\ frozen.metadata /\ frozen.patch = NoTree
        /\ UNCHANGED <<step, failure, memory, delivered, crashes, localization, accepted>>
    BY <1>2 DEF WritePatch
  <2>2. /\ frozen' \in [metadata : BOOLEAN, patch : Trees \cup {NoTree},
                        files : [Files -> Contents \cup {NoFile}], manifest : BOOLEAN]
        /\ frozen'.metadata = frozen.metadata /\ frozen'.patch = candidate
        /\ frozen'.files = frozen.files /\ frozen'.manifest = frozen.manifest
    BY <2>1 DEF Inv, TypeOK
  <2>3. candidate # NoTree /\ ~ frozen.manifest /\ listed = {}
    BY <2>1, TreeTypes DEF Inv, TypeOK, Freeze
  <2>4. TypeOK'
    BY <2>1, <2>2 DEF Inv, TypeOK, localization
  <2>5. Changed(candidate) \subseteq Allowed
    BY <2>1 DEF Inv, Candidate, Collected
  <2>6. ScopeKept'
    BY <2>2, <2>5 DEF ScopeKept, Changed
  <2>7. Candidate'
    BY <2>1 DEF Inv, Candidate, Unfrozen, Staged
  <2>8. Freeze'
    BY <2>1, <2>2, <2>3 DEF Inv, Freeze
  <2>9. QED
    BY <2>1, <2>2, <2>3, <2>4, <2>6, <2>7, <2>8, Unpromised DEF Inv
<1>3. ASSUME NEW f \in Files, WriteFile(f) PROVE Inv'
  <2>1. /\ step = "freezing" /\ frozen.patch # NoTree /\ f \in Changed(candidate) \ listed
        /\ listed' = listed \cup {f}
        /\ UNCHANGED <<step, failure, work, candidate, checks, delivered, crashes, localization,
                       accepted>>
    BY <1>3 DEF WriteFile
  <2>2. \/ Operation(candidate, f) = "delete" /\ frozen' = frozen
        \/ /\ Operation(candidate, f) # "delete" /\ Follow[work][f] # NoFile
           /\ frozen' = [frozen EXCEPT !.files[f] = Follow[work][f]]
    BY <1>3 DEF WriteFile, Missing
  <2>3. ~ frozen.manifest /\ frozen.patch = candidate /\ frozen.metadata
    BY <2>1 DEF Inv, Freeze
  <2>4. candidate \in Trees /\ work \in Trees /\ Staged(candidate, work) = candidate
    BY <2>1 DEF Inv, TypeOK, Candidate
  <2>5. /\ frozen' \in [metadata : BOOLEAN, patch : Trees \cup {NoTree},
                        files : [Files -> Contents \cup {NoFile}], manifest : BOOLEAN]
        /\ frozen'.metadata = frozen.metadata /\ frozen'.patch = frozen.patch
        /\ frozen'.manifest = frozen.manifest
        /\ \A g \in Files : g # f => frozen'.files[g] = frozen.files[g]
        /\ Read(frozen'.files[f], candidate[f])
    <3>1. CASE Operation(candidate, f) = "delete" /\ frozen' = frozen
      BY <3>1, DeletedIsGone DEF Inv, TypeOK, Read
    <3>2. CASE /\ Operation(candidate, f) # "delete" /\ Follow[work][f] # NoFile
               /\ frozen' = [frozen EXCEPT !.files[f] = Follow[work][f]]
      <4>1. /\ frozen'.files = [frozen.files EXCEPT ![f] = Follow[work][f]]
            /\ frozen.files \in [Files -> Contents \cup {NoFile}]
        BY <3>2 DEF Inv, TypeOK
      <4>2. Follow[work][f] \in Contents \cup {NoFile}
        BY <2>4, Opening
      <4>3. frozen'.files[f] = Follow[work][f]
        BY <4>1
      <4>4. Read(frozen'.files[f], candidate[f])
        BY <2>4, <3>2, <4>3, ReadFromWork
      <4>5. QED
        BY <3>2, <4>1, <4>2, <4>4 DEF Inv, TypeOK
    <3>3. QED
      BY <2>2, <3>1, <3>2
  <2>6. TypeOK'
    BY <2>1, <2>5 DEF Inv, TypeOK, localization
  <2>7. ScopeKept'
    BY <2>5 DEF Inv, ScopeKept
  <2>8. Candidate'
    BY <2>1 DEF Inv, Candidate, Unfrozen, Staged
  <2>9. Freeze'
    <3>1. \A g \in listed' : Read(frozen'.files[g], candidate[g])
      <4>1. listed \subseteq Files
        BY OldFacts DEF Inv, TypeOK
      <4>2. \A g \in listed : Read(frozen.files[g], candidate[g])
        BY <2>1 DEF Inv, Freeze
      <4>3. QED
        BY <2>1, <2>5, <4>1, <4>2
    <3>2. QED
      BY <2>1, <2>3, <2>5, <3>1 DEF Inv, Freeze
  <2>10. QED
    BY <2>1, <2>3, <2>5, <2>6, <2>7, <2>8, <2>9, Unpromised DEF Inv
<1>4. CASE WriteManifest
  <2>1. /\ step = "freezing" /\ frozen' = [frozen EXCEPT !.manifest = TRUE]
        /\ frozen.patch # NoTree /\ Changed(candidate) \subseteq listed
        /\ UNCHANGED <<step, failure, memory, delivered, crashes, localization, accepted>>
    BY <1>4 DEF WriteManifest
  <2>2. /\ frozen' \in [metadata : BOOLEAN, patch : Trees \cup {NoTree},
                        files : [Files -> Contents \cup {NoFile}], manifest : BOOLEAN]
        /\ frozen'.metadata = frozen.metadata /\ frozen'.patch = frozen.patch
        /\ frozen'.files = frozen.files /\ frozen'.manifest
    BY <2>1 DEF Inv, TypeOK
  <2>3. /\ frozen.patch = candidate /\ frozen.metadata /\ candidate \in accepted /\ delivered = {}
        /\ \A f \in listed : Read(frozen.files[f], candidate[f])
    BY <2>1 DEF Inv, Freeze, Candidate
  <2>4. TypeOK' /\ ScopeKept'
    BY <2>1, <2>2 DEF Inv, TypeOK, localization, ScopeKept
  <2>5. Candidate'
    BY <2>1 DEF Inv, Candidate, Unfrozen, Staged
  <2>6. Freeze'
    BY <2>1, <2>2, <2>3 DEF Inv, Freeze
  <2>7. FrozenIsVerified'
    BY <2>1, <2>2, <2>3 DEF FrozenIsVerified, Read
  <2>8. DeliversTheFrozen'
    BY <2>1, <2>3 DEF DeliversTheFrozen
  <2>9. Apply'
    <3>1. \A a \in Appliers : ~ apply'[a].on /\ apply'[a] = NoApply
      BY <2>1, NoApplyYet DEF localization
    <3>2. QED
      BY <3>1 DEF Apply
  <2>10. QED
    BY <2>4, <2>5, <2>6, <2>7, <2>8, <2>9 DEF Inv
<1>5. CASE FreezeFails
  BY <1>5, EndingByItself DEF FreezeFails, Ended, Failures
<1>6. CASE EndFreeze
  BY <1>6, EndingByItself DEF EndFreeze, Ended, Failures
<1>7. QED
  BY <1>1, <1>2, <1>3, <1>4, <1>5, <1>6 DEF Freezing

---------------------------------------------------------------------------
(***************************************************************************)
(* Delivery, retries and crashes.                                          *)
(***************************************************************************)
LEMMA DeliverInv == Inv /\ Deliver => Inv'
<1> SUFFICES ASSUME Inv, Deliver PROVE Inv'
  OBVIOUS
<1>1. /\ step = "delivering" /\ step' \in {"completed", "failed"}
      /\ failure' \in Failures
      /\ delivered' = delivered \cup {frozen.patch}
      /\ UNCHANGED <<memory, frozen, crashes, localization, accepted>>
  BY DEF Deliver, Inv, TypeOK, Failures
<1>2. frozen.manifest /\ frozen.patch \in accepted /\ frozen.patch # NoTree
  BY <1>1 DEF Inv, Freeze, FrozenIsVerified
<1>3. TypeOK'
  BY <1>1, <1>2 DEF Inv, TypeOK, memory, localization, Ended
<1>4. Candidate'
  BY <1>1 DEF Inv, Candidate, memory, Unfrozen, Collected
<1>5. Freeze'
  BY <1>1, <1>2 DEF Inv, Freeze, memory
<1>6. Apply'
  <2>1. \A a \in Appliers : ~ apply'[a].on /\ apply'[a] = NoApply
    BY <1>1, NoApplyYet DEF localization
  <2>2. QED
    BY <2>1 DEF Apply
<1>7. FrozenIsVerified' /\ DeliversTheFrozen' /\ ScopeKept'
  BY <1>1, <1>2 DEF Inv, FrozenIsVerified, DeliversTheFrozen, ScopeKept
<1>8. QED
  BY <1>3, <1>4, <1>5, <1>6, <1>7 DEF Inv

\* A retry finds the manifest, and with it everything it stands for.
LEMMA RetryInv == Inv /\ Retry => Inv'
<1> SUFFICES ASSUME Inv, Retry PROVE Inv'
  OBVIOUS
<1>1. /\ step = "failed" /\ frozen.manifest /\ step' = "delivering" /\ failure' = "none"
      /\ UNCHANGED <<memory, disk, crashes, localization, accepted>>
  BY DEF Retry
<1>2. TypeOK'
  BY <1>1 DEF Inv, TypeOK, memory, disk, localization, Working, Failures
<1>3. Candidate'
  BY <1>1 DEF Inv, Candidate, memory, disk, Unfrozen, Collected
<1>4. Freeze'
  BY <1>1 DEF Inv, Freeze, memory, disk
<1>5. QED
  BY <1>1, <1>2, <1>3, <1>4, DiskKept DEF Inv

\* A crash leaves the disk as it is.
LEMMA CrashInv == Inv /\ Crash => Inv'
<1> SUFFICES ASSUME Inv, Crash PROVE Inv'
  OBVIOUS
<1>1. /\ apply' = [a \in Appliers |-> NoApply]
      /\ crashes < MaxCrashes /\ crashes' = crashes + 1
      /\ UNCHANGED <<disk, local, accepted>>
  BY DEF Crash
<1>2. crashes' \in 0 .. MaxCrashes
  BY <1>1, Counts DEF Inv, TypeOK
<1>3. apply' \in [Appliers -> [on : BOOLEAN, todo : SUBSET Files, old : SUBSET Files]]
  BY <1>1 DEF NoApply
<1>4. CASE step \in Ended
  <2>1. UNCHANGED <<step, failure, memory>>
    BY <1>4 DEF Crash
  <2>2. TypeOK'
    BY <1>1, <1>2, <1>3, <2>1 DEF Inv, TypeOK, memory, disk
  <2>3. Candidate'
    BY <1>1, <2>1 DEF Inv, Candidate, memory, disk, Staged
  <2>4. Freeze'
    BY <1>1, <2>1 DEF Inv, Freeze, memory, disk
  <2>5. Apply'
    BY <1>1 DEF Apply, NoApply
  <2>6. FrozenIsVerified' /\ DeliversTheFrozen' /\ ScopeKept'
    BY <1>1 DEF Inv, FrozenIsVerified, DeliversTheFrozen, ScopeKept, disk
  <2>7. QED
    BY <2>2, <2>3, <2>4, <2>5, <2>6 DEF Inv
<1>5. CASE step \notin Ended /\ frozen.manifest
  <2>1. End("delivering", "none")
    BY <1>5 DEF Crash
  <2>2. QED
    BY <1>1, <1>2, <1>3, <1>5, <2>1, Ending DEF Ended, Failures, disk
<1>6. CASE step \notin Ended /\ ~ frozen.manifest
  <2>1. End("failed", "interrupted")
    BY <1>6 DEF Crash
  <2>2. QED
    BY <1>1, <1>2, <1>3, <1>6, <2>1, Ending DEF Ended, Failures, disk
<1>7. QED
  BY <1>4, <1>5, <1>6

---------------------------------------------------------------------------
(***************************************************************************)
(* Requests that apply the change.                                         *)
(***************************************************************************)
\* What a request changes: itself and the directory.
LEMMA ApplyingKeeps ==
  ASSUME Inv, UNCHANGED <<step, failure, memory, disk, crashes, accepted>>,
         local' \in [Files -> Contents \cup {NoFile}], Apply',
         apply' \in [Appliers -> [on : BOOLEAN, todo : SUBSET Files, old : SUBSET Files]]
  PROVE  Inv'
<1>1. TypeOK'
  BY DEF Inv, TypeOK, memory, disk
<1>2. Candidate'
  BY DEF Inv, Candidate, memory, disk, Staged
<1>3. Freeze'
  BY DEF Inv, Freeze, memory, disk
<1>4. FrozenIsVerified' /\ DeliversTheFrozen' /\ ScopeKept'
  BY DEF Inv, FrozenIsVerified, DeliversTheFrozen, ScopeKept, disk
<1>5. QED
  BY <1>1, <1>2, <1>3, <1>4 DEF Inv

\* Requests that apply the change touch only the localization directory.
LEMMA ApplyingInv == Inv /\ Applying => Inv'
<1> SUFFICES ASSUME Inv, Applying PROVE Inv'
  OBVIOUS
<1>1. /\ apply \in [Appliers -> [on : BOOLEAN, todo : SUBSET Files, old : SUBSET Files]]
      /\ local \in [Files -> Contents \cup {NoFile}]
      /\ NoApply \in [on : BOOLEAN, todo : SUBSET Files, old : SUBSET Files]
  BY DEF Inv, TypeOK, NoApply
<1>2. Apply
  BY DEF Inv
<1>3. (\E a \in Appliers : apply[a].on) \/ step = "completed" =>
        frozen.manifest /\ frozen.patch \in Trees
  BY DEF Inv, Apply, Freeze, TypeOK
<1>0. \A f \in Files : Frozen(f) \in Contents \cup {NoFile}
  BY DEF Inv, TypeOK, Frozen
<1>10. UNCHANGED disk => \A f : Frozen(f)' = Frozen(f)
  BY DEF disk, Frozen
<1>4. ASSUME NEW a \in Appliers, BeginApply(a) PROVE Inv'
  <2>1. /\ step = "completed"
        /\ apply' = [apply EXCEPT ![a] = [on |-> TRUE, todo |-> Changed(frozen.patch), old |-> {}]]
        /\ UNCHANGED <<step, failure, memory, disk, crashes, local, accepted>>
    BY <1>4 DEF BeginApply
  <2>2. Changed(frozen.patch) \in SUBSET Files
    BY <1>3, <2>1, OldFacts
  <2>3. apply' \in [Appliers -> [on : BOOLEAN, todo : SUBSET Files, old : SUBSET Files]]
    BY <1>1, <2>1, <2>2
  <2>4. Apply'
    <3>1. \A f \in Changed(frozen.patch) \ apply'[a].todo : FALSE
      BY <1>1, <2>1
    <3>2. QED
      BY <1>1, <1>2, <1>10, <2>1, <3>1 DEF Apply, disk
  <2>5. QED
    BY <1>1, <2>1, <2>3, <2>4, ApplyingKeeps
<1>5. ASSUME NEW a \in Appliers, EndApply(a) \/ ApplyFails(a) PROVE Inv'
  <2>1. /\ apply' = [apply EXCEPT ![a] = NoApply]
        /\ UNCHANGED <<step, failure, memory, disk, crashes, local, accepted>>
    BY <1>5 DEF EndApply, ApplyFails
  <2>2. apply' \in [Appliers -> [on : BOOLEAN, todo : SUBSET Files, old : SUBSET Files]]
    BY <1>1, <2>1
  <2>3. ~ NoApply.on
    BY DEF NoApply
  <2>4. Apply'
    BY <1>1, <1>2, <1>10, <2>1, <2>3 DEF Apply, disk
  <2>5. QED
    BY <1>1, <2>1, <2>2, <2>4, ApplyingKeeps
<1>6. ASSUME NEW a \in Appliers, NEW f \in Files, ApplyFile(a, f) PROVE Inv'
  <2>1. /\ apply[a].on /\ apply[a].old = {} /\ f \in apply[a].todo
        /\ apply' = [apply EXCEPT ![a].todo = @ \ {f}, ![a].old = OldOf(frozen.patch, f)]
        /\ UNCHANGED <<step, failure, memory, disk, crashes, accepted>>
        /\ local' = [local EXCEPT ![f] = IF Operation(frozen.patch, f) = "delete"
                                        THEN NoFile ELSE frozen.files[f]]
    BY <1>6 DEF ApplyFile
  <2>2. frozen.manifest /\ frozen.patch \in Trees /\ f \in Changed(frozen.patch)
    BY <1>2, <1>3, <2>1 DEF Apply
  <2>3. local' = [local EXCEPT ![f] = Frozen(f)]
    BY <2>1 DEF Frozen
  <2>4. local' \in [Files -> Contents \cup {NoFile}]
    BY <1>0, <1>1, <2>3
  <2>5. local'[f] = Frozen(f) /\ \A g \in Files : g # f => local'[g] = local[g]
    BY <1>1, <2>3
  <2>6. OldOf(frozen.patch, f) \subseteq Olds(frozen.patch) /\ Olds(frozen.patch) \subseteq Files
    BY <2>2, OldFacts
  <2>7. /\ apply'[a] = [on |-> TRUE, todo |-> apply[a].todo \ {f}, old |-> OldOf(frozen.patch, f)]
        /\ \A b \in Appliers : b # a => apply'[b] = apply[b]
        /\ apply' \in [Appliers -> [on : BOOLEAN, todo : SUBSET Files, old : SUBSET Files]]
    BY <1>1, <2>1, <2>6
  <2>8. \A old \in Olds(frozen.patch) : local'[old] = local[old]
    BY <2>2, <2>5, OldFacts
  <2>9. \A b \in Appliers : apply[b].on =>
          \A g \in Changed(frozen.patch) \ (apply[b].todo \ {f}) :
            /\ local'[g] = Frozen(g)
            /\ g # f \/ g \notin apply[b].todo =>
                 \A old \in OldOf(frozen.patch, g) : old \in apply[b].old \/ local'[old] = NoFile
    <3> SUFFICES ASSUME NEW b \in Appliers, apply[b].on,
                        NEW g \in Changed(frozen.patch) \ (apply[b].todo \ {f})
                 PROVE  /\ local'[g] = Frozen(g)
                        /\ g # f \/ g \notin apply[b].todo =>
                             \A old \in OldOf(frozen.patch, g) : old \in apply[b].old \/ local'[old] = NoFile
      OBVIOUS
    <3>1. g \in Files /\ OldOf(frozen.patch, g) \subseteq Olds(frozen.patch)
      BY <2>2, OldFacts
    <3>2. CASE g \notin apply[b].todo
      BY <1>2, <2>5, <2>8, <3>1, <3>2 DEF Apply
    <3>3. CASE g \in apply[b].todo
      BY <2>5, <3>3
    <3>4. QED
      BY <3>2, <3>3
  <2>10. \A b \in Appliers : apply'[b].on =>
           /\ step = "completed"
           /\ apply'[b].todo \subseteq Changed(frozen.patch)
           /\ apply'[b].old \subseteq Olds(frozen.patch)
           /\ \A g \in Changed(frozen.patch) \ apply'[b].todo :
                /\ local'[g] = Frozen(g)
                /\ \A old \in OldOf(frozen.patch, g) : old \in apply'[b].old \/ local'[old] = NoFile
    <3>1. \A b \in Appliers : apply[b].on =>
            /\ step = "completed"
            /\ apply[b].todo \subseteq Changed(frozen.patch)
            /\ apply[b].old \subseteq Olds(frozen.patch)
      BY <1>2 DEF Apply
    <3>2. ASSUME NEW b \in Appliers, b # a, apply'[b].on
          PROVE  \A g \in Changed(frozen.patch) \ apply[b].todo :
                   /\ local'[g] = Frozen(g)
                   /\ \A old \in OldOf(frozen.patch, g) : old \in apply[b].old \/ local'[old] = NoFile
      <4>1. apply[b].on
        BY <2>7, <3>2
      <4>2. QED
        BY <2>9, <4>1
    <3>3. ASSUME NEW g \in Changed(frozen.patch) \ (apply[a].todo \ {f})
          PROVE  /\ local'[g] = Frozen(g)
                 /\ \A old \in OldOf(frozen.patch, g) :
                      old \in OldOf(frozen.patch, f) \/ local'[old] = NoFile
      <4>1. local'[g] = Frozen(g)
        BY <2>1, <2>9, <3>3
      <4>2. CASE g = f
        BY <4>1, <4>2
      <4>3. CASE g # f
        BY <2>1, <2>9, <3>3, <4>3
      <4>4. QED
        BY <4>2, <4>3, <4>1
    <3>4. QED
      BY <2>1, <2>6, <2>7, <3>1, <3>2, <3>3
  <2>11. Apply'
    <3>1. \A b \in Appliers : ~ apply'[b].on => apply'[b] = NoApply
      BY <1>2, <2>7 DEF Apply
    <3>2. frozen' = frozen /\ step' = step /\ \A g : Frozen(g)' = Frozen(g)
      BY <1>10, <2>1 DEF disk
    <3>3. QED
      BY <2>10, <3>1, <3>2 DEF Apply
  <2>12. QED
    BY <2>1, <2>4, <2>7, <2>11, ApplyingKeeps
<1>7. ASSUME NEW a \in Appliers, NEW f \in Files, ApplyOld(a, f) PROVE Inv'
  <2>1. /\ f \in apply[a].old
        /\ apply' = [apply EXCEPT ![a].old = @ \ {f}]
        /\ local' = [local EXCEPT ![f] = NoFile]
        /\ UNCHANGED <<step, failure, memory, disk, crashes, accepted>>
    BY <1>7 DEF ApplyOld
  <2>2. apply[a].on
    BY <1>2, <2>1 DEF Apply, NoApply
  <2>3. frozen.manifest /\ frozen.patch \in Trees /\ f \in Olds(frozen.patch)
    BY <1>2, <1>3, <2>1, <2>2 DEF Apply
  <2>4. /\ local' \in [Files -> Contents \cup {NoFile}]
        /\ local'[f] = NoFile /\ \A g \in Files : g # f => local'[g] = local[g]
    BY <1>1, <2>1
  <2>5. /\ apply'[a] = [on |-> TRUE, todo |-> apply[a].todo, old |-> apply[a].old \ {f}]
        /\ \A b \in Appliers : b # a => apply'[b] = apply[b]
        /\ apply' \in [Appliers -> [on : BOOLEAN, todo : SUBSET Files, old : SUBSET Files]]
    BY <1>1, <2>1, <2>2
  <2>6. \A g \in Changed(frozen.patch) : local'[g] = local[g]
    BY <2>3, <2>4, OldFacts
  <2>7. \A g : \A old \in OldOf(frozen.patch, g) : local[old] = NoFile \/ old = f
           => local'[old] = NoFile
    BY <2>3, <2>4, OldFacts
  <2>8. Apply'
    <3>1. frozen' = frozen /\ step' = step /\ \A g : Frozen(g)' = Frozen(g)
      BY <1>10, <2>1 DEF disk
    <3>2. QED
      BY <1>2, <2>2, <2>5, <2>6, <2>7, <3>1 DEF Apply
  <2>9. QED
    BY <2>1, <2>4, <2>5, <2>8, ApplyingKeeps
<1>8. CASE EditLocalization
  <2>1. /\ \A a \in Appliers : ~ apply[a].on
        /\ local' \in Directories
        /\ UNCHANGED <<step, failure, memory, disk, crashes, apply, accepted>>
    BY <1>8 DEF EditLocalization
  <2>2. local' \in [Files -> Contents \cup {NoFile}]
    BY <2>1, BaseTree
  <2>3. Apply'
    BY <1>2, <2>1 DEF Apply
  <2>4. QED
    BY <1>1, <2>1, <2>2, <2>3, ApplyingKeeps
<1>9. QED
  BY <1>4, <1>5, <1>6, <1>7, <1>8 DEF Applying

---------------------------------------------------------------------------
LEMMA StutterInv == Inv /\ UNCHANGED vars => Inv'
<1> SUFFICES ASSUME Inv, UNCHANGED vars PROVE Inv'
  OBVIOUS
<1>1. UNCHANGED <<step, failure, memory, disk, crashes, localization, accepted>>
  BY DEF vars
<1>2. Apply'
  BY <1>1 DEF Inv, Apply, Frozen, disk, localization
<1>3. QED
  BY <1>1, <1>2, ApplyingKeeps DEF Inv, TypeOK, localization

\* The invariant is inductive.
LEMMA NextInv == Inv /\ [Next]_vars => Inv'
BY CodingInv, FreezingInv, DeliverInv, RetryInv, CrashInv, ApplyingInv, StutterInv DEF Next

\* The inductive invariant of the frozen change holds in every reachable state:
\* the candidate stays within the authorized files, the patch on disk is the
\* accepted candidate, and the regular files listed so far are stored as that
\* patch has them.
THEOREM FrozenInvariant == Spec => []Inv
BY InitInv, NextInv, PTL DEF Spec

---------------------------------------------------------------------------
(***************************************************************************)
(* The theorems.                                                           *)
(***************************************************************************)
\* The variables keep their types; freeze_change lists changed paths only.
THEOREM FrozenTypes == Spec => []TypeOK
<1>1. Inv => TypeOK
  BY DEF Inv
<1>2. QED
  BY <1>1, FrozenInvariant, PTL

\* A manifest on disk stands for a complete change that passed the
\* verification, although freeze_change reads the files from the worktree
\* after the verification commands had it.
THEOREM FrozenVerified == Spec => []FrozenIsVerified
<1>1. Inv => FrozenIsVerified
  BY DEF Inv
<1>2. QED
  BY <1>1, FrozenInvariant, PTL

\* Executions, recoveries and retries all deliver the one frozen patch.
THEOREM FrozenDelivered == Spec => []DeliversTheFrozen
<1>1. Inv => DeliversTheFrozen
  BY DEF Inv
<1>2. QED
  BY <1>1, FrozenInvariant, PTL

\* A frozen patch touches authorized files and old names of renamed files only.
THEOREM FrozenInScope == Spec => []ScopeKept
<1>1. Inv => ScopeKept
  BY DEF Inv
<1>2. QED
  BY <1>1, FrozenInvariant, PTL

\* Once the manifest is written, nothing changes in the frozen directory.
THEOREM FrozenForGood == Spec => FreezeIsFinal
<1>1. Inv /\ [Next]_vars => [frozen.manifest => UNCHANGED frozen]_frozen
  <2> SUFFICES ASSUME Inv, [Next]_vars, frozen.manifest PROVE UNCHANGED frozen
    OBVIOUS
  <2>1. /\ frozen.metadata /\ frozen.patch # NoTree
        /\ step = "freezing" => Changed(candidate) \subseteq listed
    BY DEF Inv, Freeze
  <2>2. CASE Coding
    BY <2>2 DEF Coding, disk, AgentFails, Repair, CollectNothing, CollectUnauthorized, Collect,
       Verify, View, RestoreFails, GitFails, Judge, Check
  <2>3. CASE Freezing
    BY <2>1, <2>3 DEF Freezing, disk, WriteMetadata, WritePatch, WriteFile, WriteManifest,
       FreezeFails, EndFreeze
  <2>4. CASE Deliver \/ Retry \/ Crash
    BY <2>4 DEF Deliver, Retry, Crash, disk
  <2>5. CASE Applying
    BY <2>5 DEF Applying, disk, BeginApply, EndApply, ApplyFails, ApplyFile, ApplyOld, EditLocalization
  <2>6. CASE UNCHANGED vars
    BY <2>6 DEF vars, disk
  <2>7. QED
    BY <2>2, <2>3, <2>4, <2>5, <2>6 DEF Next
<1>2. QED
  BY <1>1, FrozenInvariant, PTL DEF Spec, FreezeIsFinal

\* Whatever the verification commands leave behind, reset, clean, apply and
\* checkout-index give the candidate back unless it renames a file or is no UTF-8
\* text, or something is left that git clean spares.
THEOREM LeftoversScrubbed == Spec => LeftoversAreScrubbed
<1> DEFINE again == Restored(candidate, Staged(candidate, work), work)
           Excuse == \/ Olds(candidate) # {}
                     \/ candidate \in Lossy
                     \/ \E f \in Files : work[f] \in Repositories
                     \/ \E f \in Ignored[work] : work[f] # NoFile /\ f \notin Ignored[again]
<1>1. Inv => (View /\ failure' = "mutated" => Excuse)
  <2> SUFFICES ASSUME Inv, View, failure' = "mutated", ~ Excuse PROVE FALSE
    OBVIOUS
  <2>1. /\ step = "verifying" /\ failure = "none"
        /\ candidate \in Indexes /\ work \in Trees
    BY DEF View, Inv, TypeOK, Candidate, Unfrozen, Collected
  <2>2. /\ Staged(candidate, work) # candidate
        /\ candidate \in Lossy \/ Staged(candidate, again) # candidate
    BY <2>1 DEF View
  <2>3. Staged(candidate, again) = candidate
    BY <2>1, RestoredIsCandidate
  <2>4. QED
    BY <2>2, <2>3
<1>2. Inv => [View /\ failure' = "mutated" =>
                \/ Olds(candidate) # {}
                \/ candidate \in Lossy
                \/ \E f \in Files : work[f] \in Repositories
                \/ \E f \in Ignored[work] :
                     /\ work[f] # NoFile
                     /\ f \notin Ignored[Restored(candidate, Staged(candidate, work), work)]]_vars
  BY <1>1
<1>3. QED
  BY <1>2, FrozenInvariant, PTL DEF LeftoversAreScrubbed

\* A request that reports success has the whole change in the localization
\* directory, whatever other requests and crashes come in between.
THEOREM AppliedWhole == Spec => AppliedIsWhole
<1>1. Inv => \A a \in Appliers :
        EndApply(a) =>
          \A f \in Changed(frozen.patch) :
            /\ local[f] = IF Operation(frozen.patch, f) = "delete" THEN NoFile
                          ELSE frozen.files[f]
            /\ \A old \in OldOf(frozen.patch, f) : local[old] = NoFile
  BY DEF Inv, Apply, EndApply, Frozen
<1>2. QED
  BY <1>1, FrozenInvariant, PTL DEF AppliedIsWhole

=============================================================================
