----------------------------- MODULE ToolsProofs -----------------------------
(***************************************************************************)
(* The programs around the game: what a landing keeps, for every number of *)
(* mains, checks, repairs and reruns, however often it is interrupted and  *)
(* resumed; and what a matchup counts, for every number of seats, games    *)
(* and workers.  The names of Matchup start with MU.                       *)
(***************************************************************************)
EXTENDS Landing, Matchup, FiniteSetTheorems, TLAPS

-----------------------------------------------------------------------------
(* Landings.                                                                 *)

Steps == {"stopped", "committed", "finish", "save", "resumed", "loop", "review", "validate", "push",
          "create", "assess", "watch", "watched", "settle", "decide", "rerun", "registering", "fix",
          "fixing", "fixed", "journal", "ready", "merge", "confirm", "published", "ci_failed", "refused"}
Commits == [repairs : Nat, main : Nat \ {0}]
Trees == Nat \X Content
Pendings ==
  {NoPending}
    \union [kind : {"merge"}, parent : Nat, main : Nat, beforeTree : Trees]
    \union [kind : {"ci_commit"}, parent : Nat, tree : Trees]
Checkpoints ==
  [head : Nat, reviewedHead : Nat, validatedHead : Nat, pending : Pendings, ciFixes : Nat,
   ciReruns : [head : Nat, count : Nat], ciBlocked : Nat]

GitTyped ==
  /\ main \in Seq(Content) /\ commits \in Seq(Commits)
  /\ worktree \in {"prepared", "clean", "edits", "staged", "conflict"}
SavedTyped == saved \in Checkpoints
HubTyped ==
  /\ remote \in Nat /\ pr \in {"none", "open", "merged"}
  /\ ci \in [Check -> Unfinished \union Failures \union {"success"}] /\ asked \subseteq Check
PlaceTyped ==
  /\ pc \in Steps /\ after \in {"resumed", "review", "loop"} /\ known \in Nat
  /\ evidence \in [failed : SUBSET Check, billing : BOOLEAN]
HistoryTyped ==
  /\ reviewed \subseteq Trees /\ validated \subseteq Nat
  /\ attempts \in [fixes : Nat, reruns : Nat]

TypeOK == GitTyped /\ SavedTyped /\ HubTyped /\ PlaceTyped /\ HistoryTyped

\* The branch grows by repairs and integrations only, of mains there are.
BranchGrows ==
  /\ main # <<>>
  /\ \A i \in 1..HEAD : commits[i].main <= Len(main)
  /\ \A i, j \in 1..HEAD : i < j =>
       /\ commits[i].repairs <= commits[j].repairs /\ commits[i].main <= commits[j].main
       /\ commits[i] # commits[j]

\* Without a checkpoint nothing but the unit's commit can have happened.
Unsaved ==
  saved.head = 0 =>
    /\ saved = NoCheckpoint /\ remote = 0 /\ pr = "none" /\ attempts = [fixes |-> 0, reruns |-> 0]
    /\ \/ commits = <<>> /\ worktree = "prepared"
       \/ commits = <<[repairs |-> 0, main |-> 1]>> /\ worktree = "clean"
    /\ pc \in {"stopped", "committed"}

\* The branch is where the checkpoint says, or one journaled commit ahead of it.
JournalMatches ==
  saved.head # 0 =>
    /\ worktree # "prepared"
    /\ saved.pending = NoPending => HEAD = saved.head
    /\ saved.pending # NoPending =>
         /\ saved.pending.parent = saved.head
         /\ HEAD = saved.head \/ (HEAD = saved.head + 1 /\ IsPending /\ worktree = "clean")
    /\ saved.pending.kind = "merge" /\ HEAD = saved.head =>
         /\ commits[HEAD].main < saved.pending.main /\ saved.pending.main <= Len(main)
         /\ worktree \in {"clean", "conflict"}
    /\ saved.pending.kind = "ci_commit" /\ HEAD = saved.head =>
         worktree = "staged" /\ saved.pending.tree = RepairedTree

BeforePush == {"loop", "review", "validate", "push"}
AfterPush == {"create", "assess", "watch", "watched", "settle", "decide", "rerun", "registering", "fix",
              "fixing", "fixed", "journal", "ready", "merge"}

\* What each step of a pass can rely on.
Placed ==
  /\ pc = "committed" => saved.head = 0 /\ commits # <<>>
  /\ pc \in {"finish", "save", "resumed"} => saved.head # 0
  /\ pc = "finish" /\ after = "review" =>
       saved.pending.kind = "merge" /\ HEAD = saved.head /\ worktree = "clean"
  /\ pc = "finish" /\ after = "loop" => saved.pending.kind = "ci_commit" /\ HEAD = saved.head
  /\ pc = "save" => saved.pending # NoPending /\ HEAD = saved.head + 1
  /\ pc \in BeforePush \union AfterPush \union {"resumed", "confirm"} =>
       saved.head # 0 /\ saved.pending = NoPending
  /\ pc \in (BeforePush \union AfterPush) \ {"fixed", "journal"} => worktree = "clean"
  /\ pc = "journal" => worktree = "staged"
  /\ pc \in AfterPush \union {"push"} => saved.validatedHead = saved.head
  /\ pc \in AfterPush => remote = saved.head
  /\ saved.validatedHead # 0 => saved.validatedHead \in validated

\* What is merged stays as it was merged.
MergedForGood ==
  /\ pc = "confirm" => pr = "merged"
  /\ pr = "merged" =>
       /\ saved.head # 0 /\ saved.pending = NoPending /\ worktree = "clean" /\ remote = saved.head
       /\ pc \in {"stopped", "finish", "resumed", "confirm", "published"}

\* Attempts are counted in the checkpoint before they are made.
CountedFirst ==
  /\ attempts.fixes <= saved.ciFixes /\ saved.ciFixes <= CiFixRounds
  /\ pc = "fixing" => attempts.fixes < saved.ciFixes
  /\ \/ attempts.reruns = 0
     \/ saved.ciReruns.head = remote /\ attempts.reruns <= saved.ciReruns.count
  /\ saved.ciReruns.count <= InfrastructureReruns
  /\ pc = "rerun" /\ ~evidence.billing =>
       saved.ciReruns.head = remote /\ attempts.reruns < saved.ciReruns.count

Inv ==
  /\ TypeOK /\ BranchGrows /\ Unsaved /\ JournalMatches /\ Placed /\ MergedForGood /\ CountedFirst
  /\ RefusesOnlyUnfinishedWork

\* A commit made on a branch that has one.
LEMMA Extend ==
  ASSUME GitTyped, NEW c \in Commits
  PROVE  /\ HEAD \in Nat
         /\ Append(commits, c) \in Seq(Commits)
         /\ Len(Append(commits, c)) = HEAD + 1
         /\ Append(commits, c)[HEAD + 1] = c
         /\ \A i \in 1..HEAD : Append(commits, c)[i] = commits[i] /\ commits[i] \in Commits
BY DEF GitTyped, HEAD

\* There is a commit to work on wherever there is a checkpoint.
LEMMA AtHead ==
  ASSUME Inv, saved.head # 0
  PROVE  /\ HEAD \in Nat \ {0} /\ commits[HEAD] \in Commits
         /\ commits[HEAD].main \in 1..Len(main)
         /\ Tree(HEAD) \in Trees /\ RepairedTree \in Trees
         /\ saved.head \in Nat \ {0} /\ saved.pending \in Pendings
<1>1. GitTyped /\ saved \in Checkpoints /\ BranchGrows /\ JournalMatches
  BY DEF Inv, TypeOK, SavedTyped
<1>2. saved.head \in Nat \ {0} /\ saved.pending \in Pendings
  BY <1>1 DEF Checkpoints
<1>3. HEAD \in Nat /\ \A i \in 1..HEAD : commits[i] \in Commits
  BY <1>1 DEF GitTyped, HEAD
<1>4. HEAD \in Nat \ {0}
  BY <1>1, <1>2, <1>3 DEF JournalMatches
<1>5. commits[HEAD] \in Commits
  BY <1>3, <1>4
<1>6. commits[HEAD].main \in 1..Len(main)
  BY <1>1, <1>4, <1>5 DEF BranchGrows, GitTyped, Commits
<1>7. main[commits[HEAD].main] \in Content
  BY <1>1, <1>6 DEF GitTyped
<1>8. commits[HEAD].repairs \in Nat
  BY <1>5 DEF Commits
<1> QED BY <1>2, <1>4, <1>5, <1>6, <1>7, <1>8 DEF Tree, RepairedTree, Trees

\* The types of the repositories are kept.
LEMMA GitTypedStep ==
  ASSUME Inv, Next
  PROVE  GitTyped'
<1>1. CASE CommitUnit
  BY <1>1 DEF CommitUnit, Inv, TypeOK, GitTyped, Goto, Stop, Save, durable, volatile, history,
     Commits
<1>2. CASE FinishMerge
  <2>1. GitTyped /\ saved.head # 0 /\ UNCHANGED main
    BY <1>2 DEF FinishMerge, Inv, TypeOK, Placed
  <2>2. saved.pending.main \in Nat \ {0}
    BY <1>2, <2>1, AtHead DEF FinishMerge, Inv, JournalMatches, Pendings, NoPending
  <2>3. [commits[HEAD] EXCEPT !.main = saved.pending.main] \in Commits
    BY <2>1, <2>2, AtHead DEF Commits
  <2>4. commits' = commits \/ commits' = Append(commits, [commits[HEAD] EXCEPT !.main = saved.pending.main])
    BY <1>2 DEF FinishMerge
  <2>5. worktree' \in {worktree, "conflict"}
    BY <1>2 DEF FinishMerge
  <2> QED BY <2>1, <2>3, <2>4, <2>5, Extend DEF GitTyped
<1>3. CASE FinishRepair
  <2>1. GitTyped /\ saved.head # 0 /\ UNCHANGED main
    BY <1>3 DEF FinishRepair, Inv, TypeOK, Placed
  <2>2. [commits[HEAD] EXCEPT !.repairs = @ + 1] \in Commits
    BY <2>1, AtHead DEF Commits
  <2>3. commits' = commits \/ commits' = Append(commits, [commits[HEAD] EXCEPT !.repairs = @ + 1])
    BY <1>3 DEF FinishRepair
  <2>4. worktree' \in {worktree, "clean"}
    BY <1>3 DEF FinishRepair
  <2> QED BY <2>1, <2>2, <2>3, <2>4, Extend DEF GitTyped
<1>4. CASE FixCI
  BY <1>4 DEF FixCI, Inv, TypeOK, GitTyped, Goto, Stop, Save, durable, volatile, history
<1>5. CASE ReviewRepair
  BY <1>5 DEF ReviewRepair, Inv, TypeOK, GitTyped, Goto, Stop, Save, durable, volatile, history
<1>6. CASE MainMoves
  <2>1. GitTyped /\ UNCHANGED <<commits, worktree>>
    BY <1>6 DEF MainMoves, Inv, TypeOK
  <2> QED BY <1>6, <2>1 DEF MainMoves, GitTyped
<1>7. CASE AdoptUnit \/ SaveUnit \/ LoadCheckpoint \/ NothingToFinish \/ FindFinished \/
            SavePending \/ ResumeChecks \/ Integrate \/ ReviewIntegration \/ Validate \/ AlreadyDone
            \/ Push \/ Create \/ AssessPending \/ Watch \/ ReadFailures \/ AssessPassed \/ Settle \/
            DecideRerun \/ RerunFailed \/ AwaitRegistration \/ BeginRepair \/ JournalRepair \/ Ready
            \/ Merge \/ ConfirmMerged \/ Crash \/ CheckRuns \/ RerunRegisters
  BY <1>7 DEF AdoptUnit, SaveUnit, LoadCheckpoint, NothingToFinish, FindFinished, SavePending,
     ResumeChecks, Integrate, ReviewIntegration, Validate, AlreadyDone, Push, Create, AssessPending,
     Watch, ReadFailures, AssessPassed, Settle, DecideRerun, RerunFailed, AwaitRegistration,
     BeginRepair, JournalRepair, Ready, Merge, ConfirmMerged, Crash, CheckRuns, RerunRegisters, Inv,
     TypeOK, GitTyped, Goto, Stop, Save, durable, volatile, history
<1> QED BY <1>1, <1>2, <1>3, <1>4, <1>5, <1>6, <1>7 DEF Next, Resume, Land, Environment, FinishPending,
     Prepare, Assess, Retry, Repair, Publish

\* A run that stops forgets what it knew.
LEMMA StopTyped ==
  ASSUME Stop
  PROVE  PlaceTyped'
<1>1. NoEvidence \in [failed : SUBSET Check, billing : BOOLEAN]
  BY DEF NoEvidence
<1> QED BY <1>1 DEF Stop, PlaceTyped, Steps

\* The types of what a pass remembers are kept.
LEMMA PlaceTypedStep ==
  ASSUME Inv, Next
  PROVE  PlaceTyped'
<1>1. CASE Integrate
  BY <1>1, StopTyped DEF Integrate, PlaceTyped, Inv, TypeOK, Steps, Goto, Save, durable,
     volatile, history, Failing, GitTyped
<1>2. CASE ReadFailures
  BY <1>2, StopTyped DEF ReadFailures, PlaceTyped, Inv, TypeOK, Steps, Goto, Save, durable,
     volatile, history, Failing, GitTyped
<1>3. CASE RerunRegisters
  BY <1>3, StopTyped DEF RerunRegisters, PlaceTyped, Inv, TypeOK, Steps, Goto, Save, durable,
     volatile, history, Failing, GitTyped
<1>4. CASE SavePending
  BY <1>4, StopTyped DEF SavePending, PlaceTyped, Inv, TypeOK, Steps, Goto, Save, durable,
     volatile, history, Failing, GitTyped
<1>5. CASE NothingToFinish
  BY <1>5, StopTyped DEF NothingToFinish, PlaceTyped, Inv, TypeOK, Steps, Goto, Save, durable,
     volatile, history, Failing, GitTyped
<1>6. CASE FinishMerge
  BY <1>6, StopTyped DEF FinishMerge, PlaceTyped, Inv, TypeOK, Steps, Goto, Save, durable,
     volatile, history, Failing, GitTyped
<1>7. CASE ReviewIntegration
  BY <1>7, StopTyped DEF ReviewIntegration, PlaceTyped, Inv, TypeOK, Steps, Goto, Save, durable,
     volatile, history, Failing, GitTyped
<1>8. CASE Validate
  BY <1>8, StopTyped DEF Validate, PlaceTyped, Inv, TypeOK, Steps, Goto, Save, durable, volatile,
     history, Failing, GitTyped
<1>9. CASE AssessPending
  BY <1>9, StopTyped DEF AssessPending, PlaceTyped, Inv, TypeOK, Steps, Goto, Save, durable,
     volatile, history, Failing, GitTyped
<1>10. CASE AssessPassed
  BY <1>10, StopTyped DEF AssessPassed, PlaceTyped, Inv, TypeOK, Steps, Goto, Save, durable,
     volatile, history, Failing, GitTyped
<1>11. CASE Settle
  BY <1>11, StopTyped DEF Settle, PlaceTyped, Inv, TypeOK, Steps, Goto, Save, durable, volatile,
     history, Failing, GitTyped
<1>12. CASE DecideRerun
  BY <1>12, StopTyped DEF DecideRerun, PlaceTyped, Inv, TypeOK, Steps, Goto, Save, durable,
     volatile, history, Failing, GitTyped
<1>13. CASE RerunFailed
  BY <1>13, StopTyped DEF RerunFailed, PlaceTyped, Inv, TypeOK, Steps, Goto, Save, durable,
     volatile, history, Failing, GitTyped
<1>14. CASE AwaitRegistration
  BY <1>14, StopTyped DEF AwaitRegistration, PlaceTyped, Inv, TypeOK, Steps, Goto, Save, durable,
     volatile, history, Failing, GitTyped
<1>15. CASE FixCI
  BY <1>15, StopTyped DEF FixCI, PlaceTyped, Inv, TypeOK, Steps, Goto, Save, durable, volatile,
     history, Failing, GitTyped
<1>16. CASE ReviewRepair
  BY <1>16, StopTyped DEF ReviewRepair, PlaceTyped, Inv, TypeOK, Steps, Goto, Save, durable,
     volatile, history, Failing, GitTyped
<1>17. CASE Merge
  BY <1>17, StopTyped DEF Merge, PlaceTyped, Inv, TypeOK, Steps, Goto, Save, durable, volatile,
     history, Failing, GitTyped
<1>18. CASE Crash
  BY <1>18, StopTyped DEF Crash, PlaceTyped, Inv, TypeOK, Steps, Goto, Save, durable, volatile,
     history, Failing, GitTyped
<1>19. CASE CommitUnit \/ AdoptUnit \/ SaveUnit \/ LoadCheckpoint \/ FinishRepair \/ FindFinished
  BY <1>19, StopTyped DEF CommitUnit, AdoptUnit, SaveUnit, LoadCheckpoint, FinishRepair,
     FindFinished, PlaceTyped, Inv, TypeOK, Steps, Goto, Save, durable, volatile, history
<1>20. CASE ResumeChecks \/ AlreadyDone \/ Push \/ Create \/ Watch \/ BeginRepair
  BY <1>20, StopTyped DEF ResumeChecks, AlreadyDone, Push, Create, Watch, BeginRepair,
     PlaceTyped, Inv, TypeOK, Steps, Goto, Save, durable, volatile, history
<1>21. CASE JournalRepair \/ Ready \/ ConfirmMerged \/ MainMoves \/ CheckRuns
  BY <1>21, StopTyped DEF JournalRepair, Ready, ConfirmMerged, MainMoves, CheckRuns, PlaceTyped,
     Inv, TypeOK, Steps, Goto, Save, durable, volatile, history
<1> QED BY <1>1, <1>2, <1>3, <1>4, <1>5, <1>6, <1>7, <1>8, <1>9, <1>10, <1>11, <1>12, <1>13, <1>14, <1>15,
     <1>16, <1>17, <1>18, <1>19, <1>20, <1>21 DEF Next, Resume, Land, Environment, FinishPending,
     Prepare, Assess, Retry, Repair, Publish

\* The type of the checkpoint is kept.
LEMMA SavedTypedStep ==
  ASSUME Inv, Next
  PROVE  SavedTyped'
<1>1. CASE SaveUnit
  <2>1. saved \in Checkpoints
    BY DEF Inv, TypeOK, SavedTyped
  <2>2. HEAD \in Nat /\ NoPending \in Pendings
    BY DEF Inv, TypeOK, GitTyped, HEAD, Pendings
  <2> QED BY <1>1, <2>1, <2>2 DEF SaveUnit, Save, SavedTyped, Checkpoints, NoCheckpoint
<1>2. CASE SavePending
  <2>1. saved \in Checkpoints
    BY DEF Inv, TypeOK, SavedTyped
  <2>2. HEAD \in Nat /\ NoPending \in Pendings
    BY DEF Inv, TypeOK, GitTyped, HEAD, Pendings
  <2> QED BY <1>2, <2>1, <2>2 DEF SavePending, Save, SavedTyped, Checkpoints
<1>3. CASE Integrate
  <2>1. saved \in Checkpoints
    BY DEF Inv, TypeOK, SavedTyped
  <2>2. HEAD \in Nat /\ Len(main) \in Nat /\ saved.head \in Nat
    BY <2>1 DEF Inv, TypeOK, GitTyped, HEAD, Checkpoints
  <2>3. saved.head # 0 /\ Tree(HEAD) \in Trees /\ RepairedTree \in Trees
    BY <1>3, AtHead DEF Inv, Placed, BeforePush, AfterPush, Integrate
  <2>4. saved'.pending \in Pendings \/ saved' = saved
    BY <1>3, <2>1, <2>2, <2>3 DEF Integrate, Save, Pendings, Checkpoints
  <2> QED BY <1>3, <2>1, <2>4 DEF Integrate, Save, SavedTyped, Checkpoints
<1>4. CASE ReviewIntegration
  <2>1. saved \in Checkpoints
    BY DEF Inv, TypeOK, SavedTyped
  <2> QED BY <1>4, <2>1 DEF ReviewIntegration, Save, SavedTyped, Checkpoints
<1>5. CASE Validate
  <2>1. saved \in Checkpoints
    BY DEF Inv, TypeOK, SavedTyped
  <2> QED BY <1>5, <2>1 DEF Validate, Save, SavedTyped, Checkpoints
<1>6. CASE DecideRerun
  <2>1. saved \in Checkpoints
    BY DEF Inv, TypeOK, SavedTyped
  <2>2. Reruns \in Nat
    BY <2>1 DEF Reruns, Checkpoints
  <2> QED BY <1>6, <2>1, <2>2 DEF DecideRerun, Save, SavedTyped, Checkpoints
<1>7. CASE BeginRepair
  <2>1. saved \in Checkpoints
    BY DEF Inv, TypeOK, SavedTyped
  <2> QED BY <1>7, <2>1 DEF BeginRepair, Save, SavedTyped, Checkpoints
<1>8. CASE JournalRepair
  <2>1. saved \in Checkpoints
    BY DEF Inv, TypeOK, SavedTyped
  <2>2. HEAD \in Nat /\ Len(main) \in Nat /\ saved.head \in Nat
    BY <2>1 DEF Inv, TypeOK, GitTyped, HEAD, Checkpoints
  <2>3. saved.head # 0 /\ Tree(HEAD) \in Trees /\ RepairedTree \in Trees
    BY <1>8, AtHead DEF Inv, Placed, BeforePush, AfterPush, JournalRepair
  <2>4. saved'.pending \in Pendings \/ saved' = saved
    BY <1>8, <2>1, <2>2, <2>3 DEF JournalRepair, Save, Pendings, Checkpoints
  <2> QED BY <1>8, <2>1, <2>4 DEF JournalRepair, Save, SavedTyped, Checkpoints
<1>9. CASE CommitUnit \/ AdoptUnit \/ LoadCheckpoint \/ NothingToFinish \/ FinishMerge \/
            FinishRepair \/ FindFinished \/ ResumeChecks \/ AlreadyDone \/ Push \/ Create \/
            AssessPending \/ Watch \/ ReadFailures \/ AssessPassed \/ Settle \/ RerunFailed \/
            AwaitRegistration \/ FixCI \/ ReviewRepair \/ Ready \/ Merge \/ ConfirmMerged \/ Crash
            \/ MainMoves \/ CheckRuns \/ RerunRegisters
  BY <1>9 DEF CommitUnit, AdoptUnit, LoadCheckpoint, NothingToFinish, FinishMerge, FinishRepair,
     FindFinished, ResumeChecks, AlreadyDone, Push, Create, AssessPending, Watch, ReadFailures,
     AssessPassed, Settle, RerunFailed, AwaitRegistration, FixCI, ReviewRepair, Ready, Merge,
     ConfirmMerged, Crash, MainMoves, CheckRuns, RerunRegisters, Inv, TypeOK, SavedTyped, Goto,
     Stop, Save, durable, volatile, history
<1> QED BY <1>1, <1>2, <1>3, <1>4, <1>5, <1>6, <1>7, <1>8, <1>9 DEF Next, Resume, Land, Environment,
     FinishPending, Prepare, Assess, Retry, Repair, Publish

\* The types of what GitHub has recorded are kept.
LEMMA HubTypedStep ==
  ASSUME Inv, Next
  PROVE  HubTyped'
<1>1. CASE Push
  BY <1>1 DEF Push, Inv, TypeOK, HubTyped, Goto, Stop, Save, durable, volatile, history,
     PlaceTyped, GitTyped, HEAD, NoRun, Unfinished, Infrastructure, Failures
<1>2. CASE Create
  BY <1>2 DEF Create, Inv, TypeOK, HubTyped, Goto, Stop, Save, durable, volatile, history,
     PlaceTyped, GitTyped, HEAD, NoRun, Unfinished, Infrastructure, Failures
<1>3. CASE RerunFailed
  BY <1>3 DEF RerunFailed, Inv, TypeOK, HubTyped, Goto, Stop, Save, durable, volatile, history,
     PlaceTyped, GitTyped, HEAD, NoRun, Unfinished, Infrastructure, Failures
<1>4. CASE Merge
  BY <1>4 DEF Merge, Inv, TypeOK, HubTyped, Goto, Stop, Save, durable, volatile, history,
     PlaceTyped, GitTyped, HEAD, NoRun, Unfinished, Infrastructure, Failures
<1>5. CASE CheckRuns
  BY <1>5 DEF CheckRuns, Inv, TypeOK, HubTyped, Goto, Stop, Save, durable, volatile, history,
     PlaceTyped, GitTyped, HEAD, NoRun, Unfinished, Infrastructure, Failures
<1>6. CASE RerunRegisters
  BY <1>6 DEF RerunRegisters, Inv, TypeOK, HubTyped, Goto, Stop, Save, durable, volatile,
     history, PlaceTyped, GitTyped, HEAD, NoRun, Unfinished, Infrastructure, Failures
<1>7. CASE CommitUnit \/ AdoptUnit \/ SaveUnit \/ LoadCheckpoint \/ NothingToFinish \/ FinishMerge
            \/ FinishRepair \/ FindFinished \/ SavePending \/ ResumeChecks \/ Integrate \/
            ReviewIntegration \/ Validate \/ AlreadyDone \/ AssessPending \/ Watch \/ ReadFailures
            \/ AssessPassed \/ Settle \/ DecideRerun \/ AwaitRegistration \/ BeginRepair \/ FixCI \/
            ReviewRepair \/ JournalRepair \/ Ready \/ ConfirmMerged \/ Crash \/ MainMoves
  BY <1>7 DEF CommitUnit, AdoptUnit, SaveUnit, LoadCheckpoint, NothingToFinish, FinishMerge,
     FinishRepair, FindFinished, SavePending, ResumeChecks, Integrate, ReviewIntegration, Validate,
     AlreadyDone, AssessPending, Watch, ReadFailures, AssessPassed, Settle, DecideRerun,
     AwaitRegistration, BeginRepair, FixCI, ReviewRepair, JournalRepair, Ready, ConfirmMerged,
     Crash, MainMoves, Inv, TypeOK, HubTyped, Goto, Stop, Save, durable, volatile, history
<1> QED BY <1>1, <1>2, <1>3, <1>4, <1>5, <1>6, <1>7 DEF Next, Resume, Land, Environment, FinishPending,
     Prepare, Assess, Retry, Repair, Publish

\* The types of the history are kept.
LEMMA HistoryTypedStep ==
  ASSUME Inv, Next
  PROVE  HistoryTyped'
<1>1. CASE ReviewIntegration
  <2>1. HistoryTyped /\ saved.head # 0
    BY <1>1 DEF ReviewIntegration, Inv, TypeOK, Placed, BeforePush, AfterPush
  <2> QED BY <1>1, <2>1, AtHead DEF ReviewIntegration, HistoryTyped
<1>2. CASE Validate
  <2>1. HistoryTyped /\ saved.head # 0
    BY <1>2 DEF Validate, Inv, TypeOK, Placed, BeforePush, AfterPush
  <2> QED BY <1>2, <2>1, AtHead DEF Validate, HistoryTyped
<1>3. CASE Push
  BY <1>3 DEF Push, Inv, TypeOK, HistoryTyped, Goto, Stop, Save, durable, volatile, history,
     Placed
<1>4. CASE RerunFailed
  BY <1>4 DEF RerunFailed, Inv, TypeOK, HistoryTyped, Goto, Stop, Save, durable, volatile,
     history, Placed
<1>5. CASE FixCI
  BY <1>5 DEF FixCI, Inv, TypeOK, HistoryTyped, Goto, Stop, Save, durable, volatile, history,
     Placed
<1>6. CASE ReviewRepair
  <2>1. HistoryTyped /\ saved.head # 0
    BY <1>6 DEF ReviewRepair, Inv, TypeOK, Placed, BeforePush, AfterPush
  <2> QED BY <1>6, <2>1, AtHead DEF ReviewRepair, HistoryTyped
<1>7. CASE CommitUnit \/ AdoptUnit \/ SaveUnit \/ LoadCheckpoint \/ NothingToFinish \/ FinishMerge
            \/ FinishRepair \/ FindFinished \/ SavePending \/ ResumeChecks \/ Integrate \/
            AlreadyDone \/ Create \/ AssessPending \/ Watch \/ ReadFailures \/ AssessPassed \/
            Settle \/ DecideRerun \/ AwaitRegistration \/ BeginRepair \/ JournalRepair \/ Ready \/
            Merge \/ ConfirmMerged \/ Crash \/ MainMoves \/ CheckRuns \/ RerunRegisters
  BY <1>7 DEF CommitUnit, AdoptUnit, SaveUnit, LoadCheckpoint, NothingToFinish, FinishMerge,
     FinishRepair, FindFinished, SavePending, ResumeChecks, Integrate, AlreadyDone, Create,
     AssessPending, Watch, ReadFailures, AssessPassed, Settle, DecideRerun, AwaitRegistration,
     BeginRepair, JournalRepair, Ready, Merge, ConfirmMerged, Crash, MainMoves, CheckRuns,
     RerunRegisters, Inv, TypeOK, HistoryTyped, Goto, Stop, Save, durable, volatile, history
<1> QED BY <1>1, <1>2, <1>3, <1>4, <1>5, <1>6, <1>7 DEF Next, Resume, Land, Environment, FinishPending,
     Prepare, Assess, Retry, Repair, Publish

\* A commit that goes further than the end of the branch.
LEMMA GrowsByAppend ==
  ASSUME Inv, saved.head # 0, UNCHANGED main, NEW c \in Commits,
         HEAD' = HEAD + 1, commits'[HEAD + 1] = c, \A i \in 1..HEAD : commits'[i] = commits[i],
         c.main \in 1..Len(main),
         c.repairs >= commits[HEAD].repairs, c.main >= commits[HEAD].main,
         c.repairs > commits[HEAD].repairs \/ c.main > commits[HEAD].main
  PROVE  BranchGrows'
<1>1. GitTyped /\ BranchGrows
  BY DEF Inv, TypeOK
<1>2. /\ HEAD \in Nat \ {0} /\ HEAD' = HEAD + 1 /\ commits'[HEAD + 1] = c
      /\ \A i \in 1..HEAD : commits'[i] = commits[i] /\ commits[i] \in Commits
  BY <1>1, Extend, AtHead
<1>3. \A i \in 1..HEAD : commits[i].main <= Len(main)
  BY <1>1 DEF BranchGrows
<1>4. \A i \in 1..(HEAD + 1) : commits'[i].main <= Len(main)
  <2> SUFFICES ASSUME NEW i \in 1..(HEAD + 1)
               PROVE  commits'[i].main <= Len(main)
    OBVIOUS
  <2>1. CASE i = HEAD + 1
    BY <1>1, <1>2, <2>1 DEF GitTyped
  <2>2. CASE i \in 1..HEAD
    BY <1>2, <1>3, <2>2
  <2> QED BY <1>2, <2>1, <2>2
<1>5. \A i \in 1..HEAD :
        commits[i].repairs \in Nat /\ commits[i].main \in Nat
  BY <1>2 DEF Commits
<1>6. \A i \in 1..HEAD :
        commits[i].repairs <= commits[HEAD].repairs /\ commits[i].main <= commits[HEAD].main
  <2> SUFFICES ASSUME NEW i \in 1..HEAD
               PROVE  commits[i].repairs <= commits[HEAD].repairs /\ commits[i].main <= commits[HEAD].main
    OBVIOUS
  <2>1. CASE i = HEAD
    BY <1>2, <1>5, <2>1
  <2>2. CASE i # HEAD
    <3>1. i < HEAD /\ HEAD \in 1..HEAD
      BY <1>2, <2>2
    <3> QED BY <1>1, <3>1 DEF BranchGrows
  <2> QED BY <2>1, <2>2
<1>7. c.repairs \in Nat /\ c.main \in Nat
  BY DEF Commits
<1>8. \A i \in 1..HEAD : commits[i].repairs <= c.repairs /\ commits[i].main <= c.main /\ commits[i] # c
  <2> SUFFICES ASSUME NEW i \in 1..HEAD
               PROVE  commits[i].repairs <= c.repairs /\ commits[i].main <= c.main /\ commits[i] # c
    OBVIOUS
  <2>1. /\ commits[HEAD].repairs \in Nat /\ commits[HEAD].main \in Nat
        /\ commits[i].repairs \in Nat /\ commits[i].main \in Nat
    BY <1>2, <1>5
  <2>2. commits[i].repairs <= commits[HEAD].repairs /\ commits[i].main <= commits[HEAD].main
    BY <1>6
  <2>3. commits[i].repairs <= c.repairs /\ commits[i].main <= c.main
    BY <1>7, <2>1, <2>2
  <2>4. commits[i].repairs # c.repairs \/ commits[i].main # c.main
    BY <1>7, <2>1, <2>2
  <2> QED BY <2>3, <2>4
<1>9. \A i, j \in 1..HEAD : i < j =>
        /\ commits[i].repairs <= commits[j].repairs /\ commits[i].main <= commits[j].main
        /\ commits[i] # commits[j]
  BY <1>1 DEF BranchGrows
<1>10. \A i, j \in 1..(HEAD + 1) : i < j =>
        /\ commits'[i].repairs <= commits'[j].repairs /\ commits'[i].main <= commits'[j].main
        /\ commits'[i] # commits'[j]
  <2> SUFFICES ASSUME NEW i \in 1..(HEAD + 1), NEW j \in 1..(HEAD + 1), i < j
               PROVE  /\ commits'[i].repairs <= commits'[j].repairs /\ commits'[i].main <= commits'[j].main
                      /\ commits'[i] # commits'[j]
    OBVIOUS
  <2>1. i \in 1..HEAD
    BY <1>2
  <2>2. CASE j = HEAD + 1
    BY <1>2, <1>8, <2>1, <2>2
  <2>3. CASE j \in 1..HEAD
    <3>1. commits'[i] = commits[i] /\ commits'[j] = commits[j]
      BY <1>2, <2>1, <2>3
    <3> QED BY <1>9, <2>1, <2>3, <3>1
  <2> QED BY <1>2, <2>2, <2>3
<1>11. HEAD' = HEAD + 1 /\ main' = main /\ main # <<>>
  BY <1>1, <1>2 DEF BranchGrows
<1> QED BY <1>4, <1>10, <1>11 DEF BranchGrows

\* The branch grows by commits that go further.
LEMMA BranchGrowsStep ==
  ASSUME Inv, Next
  PROVE  BranchGrows'
<1>1. CASE CommitUnit
  <2>1. main' = main /\ main # <<>> /\ Len(main) \in Nat \ {0}
    BY <1>1 DEF CommitUnit, Inv, BranchGrows, TypeOK, GitTyped
  <2>2. commits' = <<[repairs |-> 0, main |-> 1]>>
    BY <1>1 DEF CommitUnit
  <2>3. Len(commits') = 1 /\ commits'[1].main = 1
    BY <2>2
  <2> QED BY <2>1, <2>3 DEF BranchGrows, HEAD
<1>2. CASE FinishMerge
  <2>1. saved.head # 0 /\ main' = main /\ HEAD = saved.head /\ saved.pending # NoPending
    BY <1>2 DEF FinishMerge, Inv, Placed, JournalMatches, NoPending
  <2>2. CASE commits' = commits
    BY <2>1, <2>2 DEF Inv, BranchGrows, HEAD
  <2>3. CASE commits' = Append(commits, [commits[HEAD] EXCEPT !.main = saved.pending.main])
    <3> DEFINE c == [commits[HEAD] EXCEPT !.main = saved.pending.main]
    <3>1. saved.pending.main \in Nat /\ commits[HEAD].main < saved.pending.main /\ saved.pending.main <= Len(main)
      BY <1>2, <2>1, AtHead DEF FinishMerge, Inv, JournalMatches, Pendings, NoPending
    <3>2. commits[HEAD] \in Commits /\ commits[HEAD].main \in Nat \ {0} /\ commits[HEAD].repairs \in Nat
      BY <2>1, AtHead DEF Commits
    <3>3. c \in Commits /\ c.main = saved.pending.main /\ c.repairs = commits[HEAD].repairs
      BY <3>1, <3>2 DEF Commits
    <3>4. c.main \in 1..Len(main)
      BY <3>1, <3>2, <3>3 DEF Inv, TypeOK, GitTyped
    <3> HIDE DEF c
    <3>5. HEAD' = HEAD + 1 /\ commits'[HEAD + 1] = c /\ \A i \in 1..HEAD : commits'[i] = commits[i]
      <4>1. commits' = Append(commits, c) /\ GitTyped
        BY <2>3 DEF c, Inv, TypeOK
      <4> QED BY <3>3, <4>1, Extend DEF HEAD
    <3> QED BY <2>1, <3>1, <3>2, <3>3, <3>4, <3>5, GrowsByAppend
  <2> QED BY <1>2, <2>2, <2>3 DEF FinishMerge
<1>3. CASE FinishRepair
  <2>1. saved.head # 0 /\ main' = main
    BY <1>3 DEF FinishRepair, Inv, Placed
  <2>2. CASE commits' = commits
    BY <2>1, <2>2 DEF Inv, BranchGrows, HEAD
  <2>3. CASE commits' = Append(commits, [commits[HEAD] EXCEPT !.repairs = @ + 1])
    <3> DEFINE c == [commits[HEAD] EXCEPT !.repairs = @ + 1]
    <3>2. commits[HEAD] \in Commits /\ commits[HEAD].main \in Nat \ {0} /\ commits[HEAD].repairs \in Nat
      BY <2>1, AtHead DEF Commits
    <3>3. c \in Commits /\ c.main = commits[HEAD].main /\ c.repairs = commits[HEAD].repairs + 1
      BY <3>2 DEF Commits
    <3>4. c.main \in 1..Len(main)
      BY <2>1, <3>3, AtHead
    <3> HIDE DEF c
    <3>5. HEAD' = HEAD + 1 /\ commits'[HEAD + 1] = c /\ \A i \in 1..HEAD : commits'[i] = commits[i]
      <4>1. commits' = Append(commits, c) /\ GitTyped
        BY <2>3 DEF c, Inv, TypeOK
      <4> QED BY <3>3, <4>1, Extend DEF HEAD
    <3> QED BY <2>1, <3>2, <3>3, <3>4, <3>5, GrowsByAppend
  <2> QED BY <1>3, <2>2, <2>3 DEF FinishRepair
<1>4. CASE MainMoves
  <2>1. PICK content \in Content : main' = Append(main, content)
    BY <1>4 DEF MainMoves
  <2>2. Len(main) \in Nat /\ Len(main') = Len(main) + 1
    BY <2>1 DEF Inv, TypeOK, GitTyped
  <2>3. \A i \in 1..HEAD : commits[i].main \in Nat
    <3>1. \A i \in 1..HEAD : commits[i] \in Commits
      BY DEF Inv, TypeOK, GitTyped, HEAD
    <3> QED BY <3>1 DEF Commits
  <2>4. commits' = commits /\ main' # <<>>
    BY <1>4, <2>1, <2>2 DEF MainMoves
  <2> QED BY <2>2, <2>3, <2>4 DEF Inv, BranchGrows, HEAD
<1>5. CASE AdoptUnit \/ SaveUnit \/ LoadCheckpoint \/ NothingToFinish \/ FindFinished \/
            SavePending \/ ResumeChecks \/ Integrate \/ ReviewIntegration \/ Validate \/ AlreadyDone
            \/ Push \/ Create \/ AssessPending \/ Watch \/ ReadFailures \/ AssessPassed \/ Settle \/
            DecideRerun \/ RerunFailed \/ AwaitRegistration \/ BeginRepair \/ FixCI \/ ReviewRepair
            \/ JournalRepair \/ Ready \/ Merge \/ ConfirmMerged \/ Crash \/ CheckRuns \/
            RerunRegisters
  BY <1>5 DEF AdoptUnit, SaveUnit, LoadCheckpoint, NothingToFinish, FindFinished, SavePending,
     ResumeChecks, Integrate, ReviewIntegration, Validate, AlreadyDone, Push, Create, AssessPending,
     Watch, ReadFailures, AssessPassed, Settle, DecideRerun, RerunFailed, AwaitRegistration,
     BeginRepair, FixCI, ReviewRepair, JournalRepair, Ready, Merge, ConfirmMerged, Crash, CheckRuns,
     RerunRegisters, BranchGrows, HEAD, Inv, Goto, Stop, Save, durable, volatile, history
<1> QED BY <1>1, <1>2, <1>3, <1>4, <1>5 DEF Next, Resume, Land, Environment, FinishPending, Prepare,
     Assess, Retry, Repair, Publish

\* Without a checkpoint only the commit of the unit is made.
LEMMA UnsavedStep ==
  ASSUME Inv, Next
  PROVE  Unsaved'
<1>1. CASE CommitUnit
  BY <1>1 DEF CommitUnit, Inv, Unsaved, Placed, BeforePush, AfterPush, Goto, Stop, Save, durable,
     volatile, history, NoCheckpoint
<1>2. CASE AdoptUnit
  BY <1>2 DEF AdoptUnit, Inv, Unsaved, Placed, BeforePush, AfterPush, Goto, Stop, Save, durable,
     volatile, history, NoCheckpoint
<1>3. CASE SaveUnit
  <2>1. HEAD # 0 /\ saved'.head = HEAD
    BY <1>3 DEF SaveUnit, Save, Inv, Placed, TypeOK, GitTyped, HEAD, NoCheckpoint
  <2> QED BY <2>1 DEF Unsaved
<1>4. CASE LoadCheckpoint
  BY <1>4 DEF LoadCheckpoint, Inv, Unsaved, Placed, BeforePush, AfterPush, Goto, Stop, Save,
     durable, volatile, history
<1>5. CASE NothingToFinish
  BY <1>5 DEF NothingToFinish, Inv, Unsaved, Placed, BeforePush, AfterPush, Goto, Stop, Save,
     durable, volatile, history
<1>6. CASE FinishMerge
  BY <1>6 DEF FinishMerge, Inv, Unsaved, Placed, BeforePush, AfterPush, Goto, Stop, Save,
     durable, volatile, history
<1>7. CASE FinishRepair
  BY <1>7 DEF FinishRepair, Inv, Unsaved, Placed, BeforePush, AfterPush, Goto, Stop, Save,
     durable, volatile, history
<1>8. CASE FindFinished
  BY <1>8 DEF FindFinished, Inv, Unsaved, Placed, BeforePush, AfterPush, Goto, Stop, Save,
     durable, volatile, history
<1>9. CASE SavePending
  <2>1. saved.head \in Nat \ {0} /\ HEAD = saved.head + 1 /\ saved \in Checkpoints
    BY <1>9, AtHead DEF SavePending, Inv, Placed, TypeOK, SavedTyped
  <2>2. saved'.head = HEAD
    BY <1>9, <2>1 DEF SavePending, Save, Checkpoints
  <2> QED BY <2>1, <2>2 DEF Unsaved
<1>10. CASE ResumeChecks
  BY <1>10 DEF ResumeChecks, Inv, Unsaved, Placed, BeforePush, AfterPush, Goto, Stop, Save,
     durable, volatile, history
<1>11. CASE Integrate
  <2>1. saved.head # 0 /\ saved \in Checkpoints
    BY <1>11 DEF Integrate, Inv, Placed, BeforePush, AfterPush, TypeOK, SavedTyped
  <2>2. saved'.head = saved.head
    BY <1>11, <2>1 DEF Integrate, Save, Checkpoints
  <2> QED BY <2>1, <2>2 DEF Unsaved
<1>12. CASE ReviewIntegration
  <2>1. saved.head # 0 /\ saved \in Checkpoints
    BY <1>12 DEF ReviewIntegration, Inv, Placed, BeforePush, AfterPush, TypeOK, SavedTyped
  <2>2. saved'.head = saved.head
    BY <1>12, <2>1 DEF ReviewIntegration, Save, Checkpoints
  <2> QED BY <2>1, <2>2 DEF Unsaved
<1>13. CASE Validate
  <2>1. saved.head # 0 /\ saved \in Checkpoints
    BY <1>13 DEF Validate, Inv, Placed, BeforePush, AfterPush, TypeOK, SavedTyped
  <2>2. saved'.head = saved.head
    BY <1>13, <2>1 DEF Validate, Save, Checkpoints
  <2> QED BY <2>1, <2>2 DEF Unsaved
<1>14. CASE AlreadyDone
  BY <1>14 DEF AlreadyDone, Inv, Unsaved, Placed, BeforePush, AfterPush, Goto, Stop, Save,
     durable, volatile, history
<1>15. CASE Push
  BY <1>15 DEF Push, Inv, Unsaved, Placed, BeforePush, AfterPush, Goto, Stop, Save, durable,
     volatile, history
<1>16. CASE Create
  BY <1>16 DEF Create, Inv, Unsaved, Placed, BeforePush, AfterPush, Goto, Stop, Save, durable,
     volatile, history
<1>17. CASE AssessPending
  BY <1>17 DEF AssessPending, Inv, Unsaved, Placed, BeforePush, AfterPush, Goto, Stop, Save,
     durable, volatile, history
<1>18. CASE Watch
  BY <1>18 DEF Watch, Inv, Unsaved, Placed, BeforePush, AfterPush, Goto, Stop, Save, durable,
     volatile, history
<1>19. CASE ReadFailures
  BY <1>19 DEF ReadFailures, Inv, Unsaved, Placed, BeforePush, AfterPush, Goto, Stop, Save,
     durable, volatile, history
<1>20. CASE AssessPassed
  BY <1>20 DEF AssessPassed, Inv, Unsaved, Placed, BeforePush, AfterPush, Goto, Stop, Save,
     durable, volatile, history
<1>21. CASE Settle
  BY <1>21 DEF Settle, Inv, Unsaved, Placed, BeforePush, AfterPush, Goto, Stop, Save, durable,
     volatile, history
<1>22. CASE DecideRerun
  <2>1. saved.head # 0 /\ saved \in Checkpoints
    BY <1>22 DEF DecideRerun, Inv, Placed, BeforePush, AfterPush, TypeOK, SavedTyped
  <2>2. saved'.head = saved.head
    BY <1>22, <2>1 DEF DecideRerun, Save, Checkpoints
  <2> QED BY <2>1, <2>2 DEF Unsaved
<1>23. CASE RerunFailed
  BY <1>23 DEF RerunFailed, Inv, Unsaved, Placed, BeforePush, AfterPush, Goto, Stop, Save,
     durable, volatile, history
<1>24. CASE AwaitRegistration
  BY <1>24 DEF AwaitRegistration, Inv, Unsaved, Placed, BeforePush, AfterPush, Goto, Stop, Save,
     durable, volatile, history
<1>25. CASE BeginRepair
  <2>1. saved.head # 0 /\ saved \in Checkpoints
    BY <1>25 DEF BeginRepair, Inv, Placed, BeforePush, AfterPush, TypeOK, SavedTyped
  <2>2. saved'.head = saved.head
    BY <1>25, <2>1 DEF BeginRepair, Save, Checkpoints
  <2> QED BY <2>1, <2>2 DEF Unsaved
<1>26. CASE FixCI
  BY <1>26 DEF FixCI, Inv, Unsaved, Placed, BeforePush, AfterPush, Goto, Stop, Save, durable,
     volatile, history
<1>27. CASE ReviewRepair
  BY <1>27 DEF ReviewRepair, Inv, Unsaved, Placed, BeforePush, AfterPush, Goto, Stop, Save,
     durable, volatile, history
<1>28. CASE JournalRepair
  BY <1>28 DEF JournalRepair, Inv, Unsaved, Placed, BeforePush, AfterPush, Goto, Stop, Save,
     durable, volatile, history
<1>29. CASE Ready
  BY <1>29 DEF Ready, Inv, Unsaved, Placed, BeforePush, AfterPush, Goto, Stop, Save, durable,
     volatile, history
<1>30. CASE Merge
  BY <1>30 DEF Merge, Inv, Unsaved, Placed, BeforePush, AfterPush, Goto, Stop, Save, durable,
     volatile, history
<1>31. CASE ConfirmMerged
  BY <1>31 DEF ConfirmMerged, Inv, Unsaved, Placed, BeforePush, AfterPush, Goto, Stop, Save,
     durable, volatile, history
<1>32. CASE Crash
  BY <1>32 DEF Crash, Inv, Unsaved, Placed, BeforePush, AfterPush, Goto, Stop, Save, durable,
     volatile, history
<1>33. CASE MainMoves
  BY <1>33 DEF MainMoves, Inv, Unsaved, Placed, BeforePush, AfterPush, Goto, Stop, Save, durable,
     volatile, history
<1>34. CASE CheckRuns
  BY <1>34 DEF CheckRuns, Inv, Unsaved, Placed, BeforePush, AfterPush, Goto, Stop, Save, durable,
     volatile, history
<1>35. CASE RerunRegisters
  BY <1>35 DEF RerunRegisters, Inv, Unsaved, Placed, BeforePush, AfterPush, Goto, Stop, Save,
     durable, volatile, history
<1> QED BY <1>1, <1>2, <1>3, <1>4, <1>5, <1>6, <1>7, <1>8, <1>9, <1>10, <1>11, <1>12, <1>13, <1>14, <1>15,
     <1>16, <1>17, <1>18, <1>19, <1>20, <1>21, <1>22, <1>23, <1>24, <1>25, <1>26, <1>27, <1>28,
     <1>29, <1>30, <1>31, <1>32, <1>33, <1>34, <1>35 DEF Next, Resume, Land, Environment,
     FinishPending, Prepare, Assess, Retry, Repair, Publish

\* A commit is journaled before it is made, and the journal cleared after it.
LEMMA JournalMatchesStep ==
  ASSUME Inv, Next
  PROVE  JournalMatches'
<1>1. CASE CommitUnit
  BY <1>1 DEF CommitUnit, Inv, JournalMatches, IsPending, HEAD, Tree, RepairedTree, Goto, Stop,
     Save, durable, volatile, history, Unsaved
<1>2. CASE SaveUnit
  <2>1. saved.head = 0 /\ commits # <<>> /\ worktree = "clean"
    BY <1>2 DEF SaveUnit, Inv, Placed, Unsaved
  <2>2. saved'.head = HEAD /\ saved'.pending = NoPending
    BY <1>2 DEF SaveUnit, Save, NoCheckpoint
  <2> QED BY <1>2, <2>1, <2>2 DEF SaveUnit, JournalMatches, HEAD, NoPending
<1>3. CASE FinishMerge
  <2>1. saved.head \in Nat \ {0} /\ HEAD \in Nat /\ saved.pending # NoPending /\ HEAD = saved.head
    BY <1>3, AtHead DEF FinishMerge, Inv, Placed, JournalMatches, NoPending
  <2>2. CASE commits' = commits
    BY <1>3, <2>1, <2>2 DEF FinishMerge, Goto, Stop, Inv, JournalMatches, HEAD, NoPending
  <2>3. CASE commits' = Append(commits, [commits[HEAD] EXCEPT !.main = saved.pending.main]) /\ worktree' = "clean"
    <3>1. saved.pending.main \in Nat \ {0} /\ commits[HEAD] \in Commits
      BY <1>3, <2>1, AtHead DEF FinishMerge, Pendings, NoPending, Inv, JournalMatches
    <3>2. [commits[HEAD] EXCEPT !.main = saved.pending.main] \in Commits
      BY <3>1 DEF Commits
    <3>3. [commits[HEAD] EXCEPT !.main = saved.pending.main].main = saved.pending.main
      BY <3>1 DEF Commits
    <3>4. HEAD' = HEAD + 1 /\ commits'[HEAD'].main = saved.pending.main
      BY <2>3, <3>2, <3>3, Extend DEF HEAD, Inv, TypeOK
    <3>5. saved.pending.parent = saved.head /\ saved.pending.kind = "merge" /\ saved' = saved
      BY <1>3, <2>1 DEF FinishMerge, Inv, JournalMatches
    <3>6. IsPending'
      BY <2>1, <3>4, <3>5 DEF IsPending
    <3> QED BY <2>1, <2>3, <3>4, <3>5, <3>6 DEF JournalMatches
  <2> QED BY <1>3, <2>2, <2>3 DEF FinishMerge
<1>4. CASE FinishRepair
  <2>1. saved.head \in Nat \ {0} /\ HEAD \in Nat /\ saved.pending # NoPending /\ HEAD = saved.head
    BY <1>4, AtHead DEF FinishRepair, Inv, Placed, JournalMatches, NoPending
  <2>2. CASE commits' = commits /\ worktree' = worktree
    BY <1>4, <2>1, <2>2 DEF FinishRepair, Inv, JournalMatches, HEAD, IsPending, Tree, RepairedTree
  <2>3. CASE commits' = Append(commits, [commits[HEAD] EXCEPT !.repairs = @ + 1]) /\ worktree' = "clean"
    <3>1. commits[HEAD] \in Commits
      BY <2>1, AtHead
    <3>2. [commits[HEAD] EXCEPT !.repairs = @ + 1] \in Commits
      BY <3>1 DEF Commits
    <3>3. /\ [commits[HEAD] EXCEPT !.repairs = @ + 1].repairs = commits[HEAD].repairs + 1
          /\ [commits[HEAD] EXCEPT !.repairs = @ + 1].main = commits[HEAD].main
      BY <3>1 DEF Commits
    <3>4. /\ HEAD' = HEAD + 1 /\ commits'[HEAD'].repairs = commits[HEAD].repairs + 1
          /\ commits'[HEAD'].main = commits[HEAD].main
      BY <2>3, <3>2, <3>3, Extend DEF HEAD, Inv, TypeOK
    <3>5. /\ saved.pending.parent = saved.head /\ saved.pending.kind = "ci_commit"
          /\ saved.pending.tree = RepairedTree /\ saved' = saved /\ main' = main
      BY <1>4, <2>1 DEF FinishRepair, Inv, JournalMatches
    <3>6. IsPending'
      BY <2>1, <3>4, <3>5 DEF IsPending, Tree, RepairedTree
    <3> QED BY <2>1, <2>3, <3>4, <3>5, <3>6 DEF JournalMatches
  <2> QED BY <1>4, <2>2, <2>3 DEF FinishRepair
<1>5. CASE SavePending
  <2>1. saved.head # 0 /\ saved \in Checkpoints /\ worktree # "prepared"
    BY <1>5, AtHead DEF SavePending, Inv, Placed, TypeOK, SavedTyped, JournalMatches
  <2>2. saved'.head = HEAD /\ saved'.pending = NoPending
    BY <1>5, <2>1 DEF SavePending, Save, Checkpoints
  <2> QED BY <1>5, <2>1, <2>2 DEF SavePending, JournalMatches, HEAD, NoPending
<1>6. CASE Integrate
  <2>1. /\ saved.head # 0 /\ saved.pending = NoPending /\ worktree = "clean" /\ HEAD = saved.head
        /\ saved \in Checkpoints /\ Len(main) \in Nat
    BY <1>6, AtHead DEF Integrate, Inv, Placed, BeforePush, TypeOK, SavedTyped, GitTyped, JournalMatches
  <2>2. CASE saved' = saved
    BY <1>6, <2>1, <2>2 DEF Integrate, JournalMatches, HEAD, NoPending
  <2>3. CASE /\ saved'.head = saved.head /\ commits[HEAD].main < Len(main)
             /\ saved'.pending = [kind |-> "merge", parent |-> saved.head, main |-> Len(main),
                                  beforeTree |-> Tree(HEAD)]
    BY <1>6, <2>1, <2>3 DEF Integrate, JournalMatches, HEAD, NoPending
  <2>4. \/ saved' = saved
        \/ /\ saved' = [saved EXCEPT !.pending = [kind |-> "merge", parent |-> saved.head, main |-> Len(main),
                                                  beforeTree |-> Tree(HEAD)]]
           /\ commits[HEAD].main < Len(main)
    BY <1>6, <2>1 DEF Integrate, Save
  <2> QED BY <2>1, <2>2, <2>3, <2>4 DEF Checkpoints
<1>7. CASE ReviewIntegration
  <2>1. saved.head # 0 /\ saved \in Checkpoints
    BY <1>7 DEF ReviewIntegration, Inv, Placed, BeforePush, AfterPush, TypeOK, SavedTyped
  <2>2. saved'.head = saved.head /\ saved'.pending = saved.pending
    BY <1>7, <2>1 DEF ReviewIntegration, Save, Checkpoints
  <2> QED BY <1>7, <2>1, <2>2 DEF ReviewIntegration, Inv, JournalMatches, IsPending, HEAD, Tree, RepairedTree, Goto, Stop, Save, durable, volatile, history
<1>8. CASE Validate
  <2>1. saved.head # 0 /\ saved \in Checkpoints
    BY <1>8 DEF Validate, Inv, Placed, BeforePush, AfterPush, TypeOK, SavedTyped
  <2>2. saved'.head = saved.head /\ saved'.pending = saved.pending
    BY <1>8, <2>1 DEF Validate, Save, Checkpoints
  <2> QED BY <1>8, <2>1, <2>2 DEF Validate, Inv, JournalMatches, IsPending, HEAD, Tree, RepairedTree, Goto, Stop, Save, durable, volatile, history
<1>9. CASE DecideRerun
  <2>1. saved.head # 0 /\ saved \in Checkpoints
    BY <1>9 DEF DecideRerun, Inv, Placed, BeforePush, AfterPush, TypeOK, SavedTyped
  <2>2. saved'.head = saved.head /\ saved'.pending = saved.pending
    BY <1>9, <2>1 DEF DecideRerun, Save, Checkpoints
  <2> QED BY <1>9, <2>1, <2>2 DEF DecideRerun, Inv, JournalMatches, IsPending, HEAD, Tree, RepairedTree, Goto, Stop, Save, durable, volatile, history
<1>10. CASE BeginRepair
  <2>1. saved.head # 0 /\ saved \in Checkpoints
    BY <1>10 DEF BeginRepair, Inv, Placed, BeforePush, AfterPush, TypeOK, SavedTyped
  <2>2. saved'.head = saved.head /\ saved'.pending = saved.pending
    BY <1>10, <2>1 DEF BeginRepair, Save, Checkpoints
  <2> QED BY <1>10, <2>1, <2>2 DEF BeginRepair, Inv, JournalMatches, IsPending, HEAD, Tree, RepairedTree, Goto, Stop, Save, durable, volatile, history
<1>11. CASE FixCI
  BY <1>11 DEF FixCI, Inv, JournalMatches, IsPending, HEAD, Tree, RepairedTree, Goto, Stop, Save,
     durable, volatile, history, Placed, AfterPush, NoPending
<1>12. CASE ReviewRepair
  BY <1>12 DEF ReviewRepair, Inv, JournalMatches, IsPending, HEAD, Tree, RepairedTree, Goto,
     Stop, Save, durable, volatile, history, Placed, AfterPush, NoPending
<1>13. CASE JournalRepair
  <2>1. /\ saved.head # 0 /\ saved.pending = NoPending /\ worktree = "staged" /\ HEAD = saved.head
        /\ saved \in Checkpoints
    BY <1>13, AtHead DEF JournalRepair, Inv, Placed, AfterPush, TypeOK, SavedTyped, JournalMatches
  <2>2. /\ saved'.head = saved.head
        /\ saved'.pending = [kind |-> "ci_commit", parent |-> saved.head, tree |-> RepairedTree]
    BY <1>13, <2>1 DEF JournalRepair, Save, Checkpoints
  <2> QED BY <1>13, <2>1, <2>2 DEF JournalRepair, JournalMatches, HEAD, NoPending, RepairedTree
<1>14. CASE MainMoves
  <2>1. PICK content \in Content : main' = Append(main, content)
    BY <1>14 DEF MainMoves
  <2>2. GitTyped /\ UNCHANGED <<commits, saved, worktree>>
    BY <1>14 DEF MainMoves, Inv, TypeOK
  <2>3. Len(main) \in Nat /\ Len(main') = Len(main) + 1 /\ \A i \in 1..Len(main) : main'[i] = main[i]
    BY <2>1, <2>2 DEF GitTyped
  <2>4. CASE saved.head # 0
    <3>1. commits[HEAD].main \in 1..Len(main) /\ HEAD' = HEAD
      BY <2>2, <2>4, AtHead DEF HEAD
    <3>2. main'[commits[HEAD].main] = main[commits[HEAD].main]
      BY <2>3, <3>1
    <3>3. Tree(HEAD)' = Tree(HEAD) /\ RepairedTree' = RepairedTree
      BY <2>2, <3>1, <3>2 DEF Tree, RepairedTree
    <3>4. IsPending' = IsPending
      BY <2>2, <3>1, <3>3 DEF IsPending
    <3>5. saved.pending.kind = "merge" => saved.pending.main \in Nat
      BY <2>4, AtHead DEF Pendings, NoPending
    <3> QED BY <2>2, <2>3, <2>4, <3>1, <3>3, <3>4, <3>5 DEF Inv, JournalMatches
  <2> QED BY <2>2, <2>4 DEF JournalMatches
<1>15. CASE AdoptUnit \/ LoadCheckpoint \/ NothingToFinish \/ FindFinished \/ ResumeChecks \/
            AlreadyDone \/ Push \/ Create \/ AssessPending \/ Watch \/ ReadFailures \/ AssessPassed
            \/ Settle \/ RerunFailed \/ AwaitRegistration \/ Ready \/ Merge \/ ConfirmMerged \/
            Crash \/ CheckRuns \/ RerunRegisters
  BY <1>15 DEF AdoptUnit, LoadCheckpoint, NothingToFinish, FindFinished, ResumeChecks,
     AlreadyDone, Push, Create, AssessPending, Watch, ReadFailures, AssessPassed, Settle,
     RerunFailed, AwaitRegistration, Ready, Merge, ConfirmMerged, Crash, CheckRuns, RerunRegisters,
     Inv, JournalMatches, IsPending, HEAD, Tree, RepairedTree, Goto, Stop, Save, durable, volatile,
     history
<1> QED BY <1>1, <1>2, <1>3, <1>4, <1>5, <1>6, <1>7, <1>8, <1>9, <1>10, <1>11, <1>12, <1>13, <1>14, <1>15
     DEF Next, Resume, Land, Environment, FinishPending, Prepare, Assess, Retry, Repair, Publish

\* Every step leaves to the next what that relies on.
LEMMA PlacedStep ==
  ASSUME Inv, Next
  PROVE  Placed'
<1>1. CASE SaveUnit
  <2>1. HEAD # 0 /\ HEAD' = HEAD
    BY <1>1 DEF SaveUnit, Inv, Placed, TypeOK, GitTyped, HEAD
  <2>2. saved'.head = HEAD /\ saved'.pending = NoPending /\ saved'.validatedHead = 0
    BY <1>1 DEF SaveUnit, Save, NoCheckpoint
  <2> QED BY <1>1, <2>1, <2>2 DEF SaveUnit, Inv, Placed, BeforePush, AfterPush
<1>2. CASE NothingToFinish
  BY <1>2 DEF NothingToFinish, Inv, Placed, BeforePush, AfterPush, HEAD, Goto, Stop, Save,
     durable, volatile, history, TypeOK, SavedTyped, PlaceTyped, Checkpoints, JournalMatches,
     NoPending
<1>3. CASE FinishMerge
  BY <1>3 DEF FinishMerge, Inv, Placed, BeforePush, AfterPush, HEAD, Goto, Stop, Save, durable,
     volatile, history, TypeOK, SavedTyped, PlaceTyped, Checkpoints, JournalMatches, NoPending
<1>4. CASE FinishRepair
  BY <1>4 DEF FinishRepair, Inv, Placed, BeforePush, AfterPush, HEAD, Goto, Stop, Save, durable,
     volatile, history, TypeOK, SavedTyped, PlaceTyped, Checkpoints, JournalMatches, NoPending
<1>5. CASE FindFinished
  BY <1>5 DEF FindFinished, Inv, Placed, BeforePush, AfterPush, HEAD, Goto, Stop, Save, durable,
     volatile, history, TypeOK, SavedTyped, PlaceTyped, Checkpoints, JournalMatches, NoPending
<1>6. CASE SavePending
  BY <1>6 DEF SavePending, Inv, Placed, BeforePush, AfterPush, HEAD, Goto, Stop, Save, durable,
     volatile, history, TypeOK, SavedTyped, PlaceTyped, Checkpoints, JournalMatches, NoPending
<1>7. CASE Integrate
  BY <1>7 DEF Integrate, Inv, Placed, BeforePush, AfterPush, HEAD, Goto, Stop, Save, durable,
     volatile, history, TypeOK, SavedTyped, PlaceTyped, Checkpoints, JournalMatches, NoPending
<1>8. CASE ReviewIntegration
  BY <1>8 DEF ReviewIntegration, Inv, Placed, BeforePush, AfterPush, HEAD, Goto, Stop, Save,
     durable, volatile, history, TypeOK, SavedTyped, PlaceTyped, Checkpoints, JournalMatches,
     NoPending
<1>9. CASE Validate
  BY <1>9 DEF Validate, Inv, Placed, BeforePush, AfterPush, HEAD, Goto, Stop, Save, durable,
     volatile, history, TypeOK, SavedTyped, PlaceTyped, Checkpoints, JournalMatches, NoPending
<1>10. CASE Push
  BY <1>10 DEF Push, Inv, Placed, BeforePush, AfterPush, HEAD, Goto, Stop, Save, durable,
     volatile, history, TypeOK, SavedTyped, PlaceTyped, Checkpoints, JournalMatches, NoPending
<1>11. CASE DecideRerun
  BY <1>11 DEF DecideRerun, Inv, Placed, BeforePush, AfterPush, HEAD, Goto, Stop, Save, durable,
     volatile, history, TypeOK, SavedTyped, PlaceTyped, Checkpoints, JournalMatches, NoPending
<1>12. CASE BeginRepair
  BY <1>12 DEF BeginRepair, Inv, Placed, BeforePush, AfterPush, HEAD, Goto, Stop, Save, durable,
     volatile, history, TypeOK, SavedTyped, PlaceTyped, Checkpoints, JournalMatches, NoPending
<1>13. CASE JournalRepair
  BY <1>13 DEF JournalRepair, Inv, Placed, BeforePush, AfterPush, HEAD, Goto, Stop, Save,
     durable, volatile, history, TypeOK, SavedTyped, PlaceTyped, Checkpoints, JournalMatches,
     NoPending
<1>14. CASE CommitUnit \/ AdoptUnit \/ LoadCheckpoint \/ ResumeChecks
  BY <1>14 DEF CommitUnit, AdoptUnit, LoadCheckpoint, ResumeChecks, Inv, Placed, BeforePush,
     AfterPush, HEAD, Goto, Stop, Save, durable, volatile, history
<1>15. CASE AlreadyDone \/ Create \/ AssessPending \/ Watch
  BY <1>15 DEF AlreadyDone, Create, AssessPending, Watch, Inv, Placed, BeforePush, AfterPush,
     HEAD, Goto, Stop, Save, durable, volatile, history
<1>16. CASE ReadFailures \/ AssessPassed \/ Settle \/ RerunFailed
  BY <1>16 DEF ReadFailures, AssessPassed, Settle, RerunFailed, Inv, Placed, BeforePush,
     AfterPush, HEAD, Goto, Stop, Save, durable, volatile, history
<1>17. CASE AwaitRegistration \/ FixCI \/ ReviewRepair \/ Ready
  BY <1>17 DEF AwaitRegistration, FixCI, ReviewRepair, Ready, Inv, Placed, BeforePush, AfterPush,
     HEAD, Goto, Stop, Save, durable, volatile, history
<1>18. CASE Merge \/ ConfirmMerged \/ Crash \/ MainMoves
  BY <1>18 DEF Merge, ConfirmMerged, Crash, MainMoves, Inv, Placed, BeforePush, AfterPush, HEAD,
     Goto, Stop, Save, durable, volatile, history
<1>19. CASE CheckRuns \/ RerunRegisters
  BY <1>19 DEF CheckRuns, RerunRegisters, Inv, Placed, BeforePush, AfterPush, HEAD, Goto, Stop,
     Save, durable, volatile, history
<1> QED BY <1>1, <1>2, <1>3, <1>4, <1>5, <1>6, <1>7, <1>8, <1>9, <1>10, <1>11, <1>12, <1>13, <1>14, <1>15,
     <1>16, <1>17, <1>18, <1>19 DEF Next, Resume, Land, Environment, FinishPending, Prepare, Assess,
     Retry, Repair, Publish

\* Nothing undoes a merge.
LEMMA MergedForGoodStep ==
  ASSUME Inv, Next
  PROVE  MergedForGood'
<1>1. CASE NothingToFinish
  BY <1>1 DEF NothingToFinish, Inv, MergedForGood, Placed, BeforePush, AfterPush, Goto, Stop,
     Save, durable, volatile, history, TypeOK, SavedTyped, PlaceTyped, Checkpoints, JournalMatches,
     NoPending
<1>2. CASE FinishMerge
  BY <1>2 DEF FinishMerge, Inv, MergedForGood, Placed, BeforePush, AfterPush, Goto, Stop, Save,
     durable, volatile, history, TypeOK, SavedTyped, PlaceTyped, Checkpoints, JournalMatches,
     NoPending
<1>3. CASE FinishRepair
  BY <1>3 DEF FinishRepair, Inv, MergedForGood, Placed, BeforePush, AfterPush, Goto, Stop, Save,
     durable, volatile, history, TypeOK, SavedTyped, PlaceTyped, Checkpoints, JournalMatches,
     NoPending
<1>4. CASE SavePending
  BY <1>4 DEF SavePending, Inv, MergedForGood, Placed, BeforePush, AfterPush, Goto, Stop, Save,
     durable, volatile, history, TypeOK, SavedTyped, PlaceTyped, Checkpoints, JournalMatches,
     NoPending
<1>5. CASE ResumeChecks
  BY <1>5 DEF ResumeChecks, Inv, MergedForGood, Placed, BeforePush, AfterPush, Goto, Stop, Save,
     durable, volatile, history, TypeOK, SavedTyped, PlaceTyped, Checkpoints, JournalMatches,
     NoPending
<1>6. CASE CommitUnit \/ AdoptUnit \/ SaveUnit \/ LoadCheckpoint
  BY <1>6 DEF CommitUnit, AdoptUnit, SaveUnit, LoadCheckpoint, Inv, MergedForGood, Placed,
     BeforePush, AfterPush, Goto, Stop, Save, durable, volatile, history
<1>7. CASE FindFinished \/ Integrate \/ ReviewIntegration \/ Validate
  BY <1>7 DEF FindFinished, Integrate, ReviewIntegration, Validate, Inv, MergedForGood, Placed,
     BeforePush, AfterPush, Goto, Stop, Save, durable, volatile, history
<1>8. CASE AlreadyDone \/ Push \/ Create \/ AssessPending
  BY <1>8 DEF AlreadyDone, Push, Create, AssessPending, Inv, MergedForGood, Placed, BeforePush,
     AfterPush, Goto, Stop, Save, durable, volatile, history
<1>9. CASE Watch \/ ReadFailures \/ AssessPassed \/ Settle
  BY <1>9 DEF Watch, ReadFailures, AssessPassed, Settle, Inv, MergedForGood, Placed, BeforePush,
     AfterPush, Goto, Stop, Save, durable, volatile, history
<1>10. CASE DecideRerun \/ RerunFailed \/ AwaitRegistration \/ BeginRepair
  BY <1>10 DEF DecideRerun, RerunFailed, AwaitRegistration, BeginRepair, Inv, MergedForGood,
     Placed, BeforePush, AfterPush, Goto, Stop, Save, durable, volatile, history
<1>11. CASE FixCI \/ ReviewRepair \/ JournalRepair \/ Ready
  BY <1>11 DEF FixCI, ReviewRepair, JournalRepair, Ready, Inv, MergedForGood, Placed, BeforePush,
     AfterPush, Goto, Stop, Save, durable, volatile, history
<1>12. CASE Merge \/ ConfirmMerged \/ Crash \/ MainMoves
  BY <1>12 DEF Merge, ConfirmMerged, Crash, MainMoves, Inv, MergedForGood, Placed, BeforePush,
     AfterPush, Goto, Stop, Save, durable, volatile, history
<1>13. CASE CheckRuns \/ RerunRegisters
  BY <1>13 DEF CheckRuns, RerunRegisters, Inv, MergedForGood, Placed, BeforePush, AfterPush,
     Goto, Stop, Save, durable, volatile, history
<1> QED BY <1>1, <1>2, <1>3, <1>4, <1>5, <1>6, <1>7, <1>8, <1>9, <1>10, <1>11, <1>12, <1>13 DEF Next,
     Resume, Land, Environment, FinishPending, Prepare, Assess, Retry, Repair, Publish

\* Attempts are counted before they are made.
LEMMA CountedFirstStep ==
  ASSUME Inv, Next
  PROVE  CountedFirst'
<1>1. CASE SaveUnit
  BY <1>1 DEF SaveUnit, Inv, CountedFirst, Placed, BeforePush, AfterPush, Goto, Stop, Save,
     durable, volatile, history, TypeOK, SavedTyped, PlaceTyped, Checkpoints, JournalMatches,
     NoPending, HistoryTyped, HubTyped, Reruns, Unsaved, NoCheckpoint
<1>2. CASE NothingToFinish
  BY <1>2 DEF NothingToFinish, Inv, CountedFirst, Placed, BeforePush, AfterPush, Goto, Stop,
     Save, durable, volatile, history, TypeOK, SavedTyped, PlaceTyped, Checkpoints, JournalMatches,
     NoPending, HistoryTyped, HubTyped, Reruns, Unsaved, NoCheckpoint
<1>3. CASE SavePending
  BY <1>3 DEF SavePending, Inv, CountedFirst, Placed, BeforePush, AfterPush, Goto, Stop, Save,
     durable, volatile, history, TypeOK, SavedTyped, PlaceTyped, Checkpoints, JournalMatches,
     NoPending, HistoryTyped, HubTyped, Reruns, Unsaved, NoCheckpoint
<1>4. CASE Integrate
  BY <1>4 DEF Integrate, Inv, CountedFirst, Placed, BeforePush, AfterPush, Goto, Stop, Save,
     durable, volatile, history, TypeOK, SavedTyped, PlaceTyped, Checkpoints, JournalMatches,
     NoPending, HistoryTyped, HubTyped, Reruns, Unsaved, NoCheckpoint
<1>5. CASE ReviewIntegration
  BY <1>5 DEF ReviewIntegration, Inv, CountedFirst, Placed, BeforePush, AfterPush, Goto, Stop,
     Save, durable, volatile, history, TypeOK, SavedTyped, PlaceTyped, Checkpoints, JournalMatches,
     NoPending, HistoryTyped, HubTyped, Reruns, Unsaved, NoCheckpoint
<1>6. CASE Validate
  BY <1>6 DEF Validate, Inv, CountedFirst, Placed, BeforePush, AfterPush, Goto, Stop, Save,
     durable, volatile, history, TypeOK, SavedTyped, PlaceTyped, Checkpoints, JournalMatches,
     NoPending, HistoryTyped, HubTyped, Reruns, Unsaved, NoCheckpoint
<1>7. CASE Push
  BY <1>7 DEF Push, Inv, CountedFirst, Placed, BeforePush, AfterPush, Goto, Stop, Save, durable,
     volatile, history, TypeOK, SavedTyped, PlaceTyped, Checkpoints, JournalMatches, NoPending,
     HistoryTyped, HubTyped, Reruns, Unsaved, NoCheckpoint
<1>8. CASE DecideRerun
  <2>1. /\ saved \in Checkpoints /\ attempts \in [fixes : Nat, reruns : Nat] /\ remote = saved.head
        /\ InfrastructureReruns \in Nat
    BY <1>8, LandingAssumption DEF DecideRerun, Inv, TypeOK, SavedTyped, HistoryTyped, Placed, AfterPush
  <2>2. /\ Reruns \in Nat
        /\ attempts.reruns = 0 \/ (saved.ciReruns.head = saved.head /\ attempts.reruns <= Reruns)
    BY <2>1 DEF Inv, CountedFirst, Reruns, Checkpoints
  <2>3. CASE saved'.ciFixes = saved.ciFixes /\ saved'.ciReruns = saved.ciReruns /\ (pc' = "rerun" => evidence'.billing)
    BY <1>8, <2>3 DEF DecideRerun, Goto, Stop, history, Inv, CountedFirst
  <2>4. CASE /\ saved'.ciFixes = saved.ciFixes /\ Reruns < InfrastructureReruns /\ pc' = "rerun"
             /\ saved'.ciReruns = [head |-> saved.head, count |-> Reruns + 1]
    <3>1. attempts.reruns \in Nat
      BY <2>1
    <3>2. attempts.reruns <= Reruns
      BY <2>2, <3>1
    <3>3. attempts.reruns < Reruns + 1 /\ Reruns + 1 <= InfrastructureReruns
      <4>1. Reruns \in Nat /\ Reruns < InfrastructureReruns /\ InfrastructureReruns \in Nat
        BY <2>1, <2>2, <2>4
      <4> QED BY <3>1, <3>2, <4>1
    <3>4. attempts' = attempts /\ remote' = saved.head
      BY <1>8, <2>1 DEF DecideRerun, history
    <3>5. saved'.ciReruns.head = saved.head /\ saved'.ciReruns.count = Reruns + 1
      BY <2>4
    <3>6. attempts.fixes <= saved.ciFixes /\ saved.ciFixes <= CiFixRounds
      BY DEF Inv, CountedFirst
    <3>7. attempts.reruns <= Reruns + 1
      BY <2>2, <3>1, <3>2
    <3> QED BY <2>4, <3>3, <3>4, <3>5, <3>6, <3>7 DEF CountedFirst
  <2>5. \/ saved' = [saved EXCEPT !.ciBlocked = saved.head] /\ pc' = "stopped"
        \/ saved' = [saved EXCEPT !.ciBlocked = 0] /\ evidence.billing /\ evidence' = evidence
        \/ saved' = saved /\ pc' = "ci_failed"
        \/ /\ saved' = [saved EXCEPT !.ciReruns = [head |-> saved.head, count |-> Reruns + 1]]
           /\ pc' = "rerun" /\ Reruns < InfrastructureReruns
    BY <1>8 DEF DecideRerun, Goto, Stop, Save
  <2> QED BY <2>1, <2>3, <2>4, <2>5 DEF Checkpoints
<1>9. CASE RerunFailed
  BY <1>9 DEF RerunFailed, Inv, CountedFirst, Placed, BeforePush, AfterPush, Goto, Stop, Save,
     durable, volatile, history, TypeOK, SavedTyped, PlaceTyped, Checkpoints, JournalMatches,
     NoPending, HistoryTyped, HubTyped, Reruns, Unsaved, NoCheckpoint
<1>10. CASE BeginRepair
  <2>1. saved \in Checkpoints /\ attempts.fixes \in Nat /\ CiFixRounds \in Nat /\ saved.ciFixes \in Nat
    BY LandingAssumption DEF Inv, TypeOK, SavedTyped, HistoryTyped, Checkpoints
  <2>2. CASE saved' = saved /\ pc' = "ci_failed"
    BY <1>10, <2>2 DEF BeginRepair, history, Inv, CountedFirst
  <2>3. CASE saved.ciFixes < CiFixRounds /\ saved' = [saved EXCEPT !.ciFixes = @ + 1] /\ pc' = "fixing"
    <3>1. saved'.ciFixes = saved.ciFixes + 1 /\ saved'.ciReruns = saved.ciReruns
      BY <2>1, <2>3 DEF Checkpoints
    <3>2. attempts.fixes < saved.ciFixes + 1 /\ saved.ciFixes + 1 <= CiFixRounds
      BY <2>1, <2>3 DEF Inv, CountedFirst
    <3> QED BY <1>10, <2>1, <2>3, <3>1, <3>2 DEF BeginRepair, history, Inv, CountedFirst
  <2> QED BY <1>10, <2>1, <2>2, <2>3 DEF BeginRepair, Goto, Save
<1>11. CASE FixCI
  BY <1>11 DEF FixCI, Inv, CountedFirst, Placed, BeforePush, AfterPush, Goto, Stop, Save,
     durable, volatile, history, TypeOK, SavedTyped, PlaceTyped, Checkpoints, JournalMatches,
     NoPending, HistoryTyped, HubTyped, Reruns, Unsaved, NoCheckpoint
<1>12. CASE CommitUnit
  BY <1>12 DEF CommitUnit, Inv, CountedFirst, Placed, BeforePush, AfterPush, Goto, Stop, Save,
     durable, volatile, history
<1>13. CASE AdoptUnit
  BY <1>13 DEF AdoptUnit, Inv, CountedFirst, Placed, BeforePush, AfterPush, Goto, Stop, Save,
     durable, volatile, history
<1>14. CASE LoadCheckpoint
  BY <1>14 DEF LoadCheckpoint, Inv, CountedFirst, Placed, BeforePush, AfterPush, Goto, Stop,
     Save, durable, volatile, history
<1>15. CASE FinishMerge
  BY <1>15 DEF FinishMerge, Inv, CountedFirst, Placed, BeforePush, AfterPush, Goto, Stop, Save,
     durable, volatile, history
<1>16. CASE FinishRepair
  BY <1>16 DEF FinishRepair, Inv, CountedFirst, Placed, BeforePush, AfterPush, Goto, Stop, Save,
     durable, volatile, history
<1>17. CASE FindFinished
  BY <1>17 DEF FindFinished, Inv, CountedFirst, Placed, BeforePush, AfterPush, Goto, Stop, Save,
     durable, volatile, history
<1>18. CASE ResumeChecks
  BY <1>18 DEF ResumeChecks, Inv, CountedFirst, Placed, BeforePush, AfterPush, Goto, Stop, Save,
     durable, volatile, history
<1>19. CASE AlreadyDone
  BY <1>19 DEF AlreadyDone, Inv, CountedFirst, Placed, BeforePush, AfterPush, Goto, Stop, Save,
     durable, volatile, history
<1>20. CASE Create
  BY <1>20 DEF Create, Inv, CountedFirst, Placed, BeforePush, AfterPush, Goto, Stop, Save,
     durable, volatile, history
<1>21. CASE AssessPending
  BY <1>21 DEF AssessPending, Inv, CountedFirst, Placed, BeforePush, AfterPush, Goto, Stop, Save,
     durable, volatile, history
<1>22. CASE Watch
  BY <1>22 DEF Watch, Inv, CountedFirst, Placed, BeforePush, AfterPush, Goto, Stop, Save,
     durable, volatile, history
<1>23. CASE ReadFailures
  BY <1>23 DEF ReadFailures, Inv, CountedFirst, Placed, BeforePush, AfterPush, Goto, Stop, Save,
     durable, volatile, history
<1>24. CASE AssessPassed
  BY <1>24 DEF AssessPassed, Inv, CountedFirst, Placed, BeforePush, AfterPush, Goto, Stop, Save,
     durable, volatile, history
<1>25. CASE Settle
  BY <1>25 DEF Settle, Inv, CountedFirst, Placed, BeforePush, AfterPush, Goto, Stop, Save,
     durable, volatile, history
<1>26. CASE AwaitRegistration
  BY <1>26 DEF AwaitRegistration, Inv, CountedFirst, Placed, BeforePush, AfterPush, Goto, Stop,
     Save, durable, volatile, history
<1>27. CASE ReviewRepair
  BY <1>27 DEF ReviewRepair, Inv, CountedFirst, Placed, BeforePush, AfterPush, Goto, Stop, Save,
     durable, volatile, history
<1>28. CASE JournalRepair
  BY <1>28 DEF JournalRepair, Inv, CountedFirst, Placed, BeforePush, AfterPush, Goto, Stop, Save,
     durable, volatile, history
<1>29. CASE Ready
  BY <1>29 DEF Ready, Inv, CountedFirst, Placed, BeforePush, AfterPush, Goto, Stop, Save,
     durable, volatile, history
<1>30. CASE Merge
  BY <1>30 DEF Merge, Inv, CountedFirst, Placed, BeforePush, AfterPush, Goto, Stop, Save,
     durable, volatile, history
<1>31. CASE ConfirmMerged
  BY <1>31 DEF ConfirmMerged, Inv, CountedFirst, Placed, BeforePush, AfterPush, Goto, Stop, Save,
     durable, volatile, history
<1>32. CASE Crash
  BY <1>32 DEF Crash, Inv, CountedFirst, Placed, BeforePush, AfterPush, Goto, Stop, Save,
     durable, volatile, history
<1>33. CASE MainMoves
  BY <1>33 DEF MainMoves, Inv, CountedFirst, Placed, BeforePush, AfterPush, Goto, Stop, Save,
     durable, volatile, history
<1>34. CASE CheckRuns
  BY <1>34 DEF CheckRuns, Inv, CountedFirst, Placed, BeforePush, AfterPush, Goto, Stop, Save,
     durable, volatile, history
<1>35. CASE RerunRegisters
  BY <1>35 DEF RerunRegisters, Inv, CountedFirst, Placed, BeforePush, AfterPush, Goto, Stop,
     Save, durable, volatile, history
<1> QED BY <1>1, <1>2, <1>3, <1>4, <1>5, <1>6, <1>7, <1>8, <1>9, <1>10, <1>11, <1>12, <1>13, <1>14, <1>15,
     <1>16, <1>17, <1>18, <1>19, <1>20, <1>21, <1>22, <1>23, <1>24, <1>25, <1>26, <1>27, <1>28,
     <1>29, <1>30, <1>31, <1>32, <1>33, <1>34, <1>35 DEF Next, Resume, Land, Environment,
     FinishPending, Prepare, Assess, Retry, Repair, Publish

\* A run is refused only when work is left unfinished.
LEMMA RefusesStep ==
  ASSUME Inv, Next
  PROVE  RefusesOnlyUnfinishedWork'
<1>1. CASE AdoptUnit
  BY <1>1 DEF AdoptUnit, Inv, RefusesOnlyUnfinishedWork, Placed, MergedForGood, JournalMatches,
     BeforePush, AfterPush, Goto, Stop, Save, durable, volatile, history, TypeOK, SavedTyped,
     PlaceTyped, Checkpoints, JournalMatches, NoPending, Unsaved, HEAD, GitTyped
<1>2. CASE NothingToFinish
  BY <1>2 DEF NothingToFinish, Inv, RefusesOnlyUnfinishedWork, Placed, MergedForGood,
     JournalMatches, BeforePush, AfterPush, Goto, Stop, Save, durable, volatile, history, TypeOK,
     SavedTyped, PlaceTyped, Checkpoints, JournalMatches, NoPending, Unsaved, HEAD, GitTyped
<1>3. CASE SavePending
  BY <1>3 DEF SavePending, Inv, RefusesOnlyUnfinishedWork, Placed, MergedForGood, JournalMatches,
     BeforePush, AfterPush, Goto, Stop, Save, durable, volatile, history, TypeOK, SavedTyped,
     PlaceTyped, Checkpoints, JournalMatches, NoPending, Unsaved, HEAD, GitTyped
<1>4. CASE ResumeChecks
  BY <1>4 DEF ResumeChecks, Inv, RefusesOnlyUnfinishedWork, Placed, MergedForGood,
     JournalMatches, BeforePush, AfterPush, Goto, Stop, Save, durable, volatile, history, TypeOK,
     SavedTyped, PlaceTyped, Checkpoints, JournalMatches, NoPending, Unsaved, HEAD, GitTyped
<1>5. CASE CommitUnit \/ SaveUnit \/ LoadCheckpoint \/ FinishMerge
  BY <1>5 DEF CommitUnit, SaveUnit, LoadCheckpoint, FinishMerge, Inv, RefusesOnlyUnfinishedWork,
     Placed, MergedForGood, JournalMatches, BeforePush, AfterPush, Goto, Stop, Save, durable,
     volatile, history
<1>6. CASE FinishRepair \/ FindFinished \/ Integrate \/ ReviewIntegration
  BY <1>6 DEF FinishRepair, FindFinished, Integrate, ReviewIntegration, Inv,
     RefusesOnlyUnfinishedWork, Placed, MergedForGood, JournalMatches, BeforePush, AfterPush, Goto,
     Stop, Save, durable, volatile, history
<1>7. CASE Validate \/ AlreadyDone \/ Push \/ Create
  BY <1>7 DEF Validate, AlreadyDone, Push, Create, Inv, RefusesOnlyUnfinishedWork, Placed,
     MergedForGood, JournalMatches, BeforePush, AfterPush, Goto, Stop, Save, durable, volatile,
     history
<1>8. CASE AssessPending \/ Watch \/ ReadFailures \/ AssessPassed
  BY <1>8 DEF AssessPending, Watch, ReadFailures, AssessPassed, Inv, RefusesOnlyUnfinishedWork,
     Placed, MergedForGood, JournalMatches, BeforePush, AfterPush, Goto, Stop, Save, durable,
     volatile, history
<1>9. CASE Settle \/ DecideRerun \/ RerunFailed \/ AwaitRegistration
  BY <1>9 DEF Settle, DecideRerun, RerunFailed, AwaitRegistration, Inv,
     RefusesOnlyUnfinishedWork, Placed, MergedForGood, JournalMatches, BeforePush, AfterPush, Goto,
     Stop, Save, durable, volatile, history
<1>10. CASE BeginRepair \/ FixCI \/ ReviewRepair \/ JournalRepair
  BY <1>10 DEF BeginRepair, FixCI, ReviewRepair, JournalRepair, Inv, RefusesOnlyUnfinishedWork,
     Placed, MergedForGood, JournalMatches, BeforePush, AfterPush, Goto, Stop, Save, durable,
     volatile, history
<1>11. CASE Ready \/ Merge \/ ConfirmMerged \/ Crash
  BY <1>11 DEF Ready, Merge, ConfirmMerged, Crash, Inv, RefusesOnlyUnfinishedWork, Placed,
     MergedForGood, JournalMatches, BeforePush, AfterPush, Goto, Stop, Save, durable, volatile,
     history
<1>12. CASE MainMoves \/ CheckRuns \/ RerunRegisters
  BY <1>12 DEF MainMoves, CheckRuns, RerunRegisters, Inv, RefusesOnlyUnfinishedWork, Placed,
     MergedForGood, JournalMatches, BeforePush, AfterPush, Goto, Stop, Save, durable, volatile,
     history
<1> QED BY <1>1, <1>2, <1>3, <1>4, <1>5, <1>6, <1>7, <1>8, <1>9, <1>10, <1>11, <1>12 DEF Next, Resume,
     Land, Environment, FinishPending, Prepare, Assess, Retry, Repair, Publish

\* The invariant holds at first, and every step keeps it.
LEMMA InvHoldsAtFirst ==
  ASSUME Init
  PROVE  Inv
<1>1. PICK content \in Content : main = <<content>>
  BY DEF Init
<1>2. main \in Seq(Content) /\ main # <<>> /\ main[1] = content
  BY <1>1
<1>3. commits \in Seq(Commits) /\ HEAD = 0
  BY DEF Init, HEAD
<1>4. NoPending \in Pendings /\ NoEvidence \in [failed : SUBSET Check, billing : BOOLEAN]
  BY DEF Pendings, NoEvidence
<1>5. NoCheckpoint \in Checkpoints /\ NoCheckpoint.head = 0
  BY <1>4 DEF NoCheckpoint, Checkpoints
<1>6. NoRun \in [Check -> Unfinished \union Failures \union {"success"}]
  BY DEF NoRun, Unfinished
<1>7. reviewed \subseteq Trees
  BY <1>2 DEF Init, Trees
<1>8. TypeOK
  BY <1>2, <1>3, <1>4, <1>5, <1>6, <1>7
     DEF Init, TypeOK, GitTyped, SavedTyped, HubTyped, PlaceTyped, HistoryTyped, Steps
<1>9. BranchGrows /\ Unsaved /\ JournalMatches
  BY <1>2, <1>3, <1>5 DEF Init, BranchGrows, Unsaved, JournalMatches
<1>10. Placed /\ MergedForGood
  BY <1>5 DEF Init, Placed, MergedForGood, BeforePush, AfterPush, NoCheckpoint
<1>11. CountedFirst
  BY LandingAssumption DEF Init, CountedFirst, NoCheckpoint
<1> QED BY <1>8, <1>9, <1>10, <1>11 DEF Init, Inv, RefusesOnlyUnfinishedWork

LEMMA InvIsKept ==
  ASSUME Inv, [Next]_vars
  PROVE  Inv'
<1>1. CASE Next
  BY <1>1, GitTypedStep, SavedTypedStep, HubTypedStep, PlaceTypedStep, HistoryTypedStep, BranchGrowsStep,
     UnsavedStep, JournalMatchesStep, PlacedStep, MergedForGoodStep, CountedFirstStep, RefusesStep
     DEF Inv, TypeOK
<1>2. CASE UNCHANGED vars
  <2>1. TypeOK' /\ Unsaved' /\ BranchGrows'
    BY <1>2 DEF vars, durable, volatile, history, Inv, TypeOK, GitTyped, SavedTyped, HubTyped, PlaceTyped,
                HistoryTyped, Unsaved, BranchGrows, HEAD
  <2>2. JournalMatches' /\ Placed'
    BY <1>2 DEF vars, durable, volatile, history, Inv, JournalMatches, IsPending, HEAD, Tree, RepairedTree,
                Placed, BeforePush, AfterPush
  <2>3. MergedForGood' /\ CountedFirst' /\ RefusesOnlyUnfinishedWork'
    BY <1>2 DEF vars, durable, volatile, history, Inv, MergedForGood, CountedFirst, RefusesOnlyUnfinishedWork
  <2> QED BY <2>1, <2>2, <2>3 DEF Inv
<1> QED BY <1>1, <1>2

THEOREM InvHolds == Spec => []Inv
  BY InvHoldsAtFirst, InvIsKept, PTL DEF Spec

----------------------------------------------------------------------------
\* landPullRequest can be resumed from whatever an interruption left: it refuses
\* only work that is the user's to finish, and never a unit that is on main.
THEOREM LandingsAreResumed == Spec => []RefusesOnlyUnfinishedWork
<1>1. Inv => RefusesOnlyUnfinishedWork
  BY DEF Inv
<1> QED BY <1>1, InvHolds, PTL

\* However often it is interrupted, landPullRequest calls the repairing agent
\* ciFixRounds times and retries the failed runners of a head
\* ciInfrastructureReruns times at the most, and commits nothing twice.
THEOREM LandingsGiveUp == Spec => []AttemptsAreBounded
<1>1. Inv => AttemptsAreBounded
  <2> SUFFICES ASSUME Inv
               PROVE  AttemptsAreBounded
    OBVIOUS
  <2>1. /\ attempts.fixes \in Nat /\ attempts.reruns \in Nat /\ CiFixRounds \in Nat /\ InfrastructureReruns \in Nat
        /\ saved.ciFixes \in Nat /\ saved.ciReruns.count \in Nat
    BY LandingAssumption DEF Inv, TypeOK, HistoryTyped, SavedTyped, Checkpoints
  <2>2. attempts.fixes <= saved.ciFixes /\ saved.ciFixes <= CiFixRounds
    BY DEF Inv, CountedFirst
  <2>3. attempts.fixes <= CiFixRounds
    BY <2>1, <2>2
  <2>4. attempts.reruns = 0 \/ attempts.reruns <= saved.ciReruns.count
    BY DEF Inv, CountedFirst
  <2>5. saved.ciReruns.count <= InfrastructureReruns
    BY DEF Inv, CountedFirst
  <2>6. attempts.reruns <= InfrastructureReruns
    BY <2>1, <2>4, <2>5
  <2>7. DOMAIN commits = 1..HEAD /\ HEAD \in Nat
    BY DEF Inv, TypeOK, GitTyped, HEAD
  <2>8. \A i, j \in 1..HEAD : i < j => commits[i] # commits[j]
    BY DEF Inv, BranchGrows
  <2>9. \A i, j \in 1..HEAD : i = j \/ i < j \/ j < i
    BY <2>7
  <2>10. \A i, j \in DOMAIN commits : commits[i] = commits[j] => i = j
    BY <2>7, <2>8, <2>9
  <2> QED BY <2>3, <2>6, <2>10 DEF AttemptsAreBounded
<1> QED BY <1>1, InvHolds, PTL

\* What landPullRequest merges is the end of the task branch: the tests passed on
\* this commit, every check passed on it, and nothing else is in the checkout.
THEOREM WhatLandsWasChecked == Spec => LandsWhatItChecked
<1>1. Inv /\ Next => (pr # "merged" /\ pr' = "merged" =>
                        remote = HEAD /\ HEAD \in validated /\ Passed /\ worktree = "clean")
  <2> SUFFICES ASSUME Inv, Next, pr # "merged", pr' = "merged"
               PROVE  remote = HEAD /\ HEAD \in validated /\ Passed /\ worktree = "clean"
    OBVIOUS
  <2>1. Merge
    BY DEF Next, Resume, Land, Environment, FinishPending, Prepare, Assess, Retry, Repair, Publish,
           CommitUnit, AdoptUnit, SaveUnit, LoadCheckpoint, NothingToFinish, FinishMerge,
           FinishRepair, FindFinished, SavePending, ResumeChecks, Integrate, ReviewIntegration,
           Validate, AlreadyDone, Push, Create, AssessPending, Watch, ReadFailures, AssessPassed,
           Settle, DecideRerun, RerunFailed, AwaitRegistration, BeginRepair, FixCI, ReviewRepair,
           JournalRepair, Ready, Merge, ConfirmMerged, Crash, MainMoves, CheckRuns, RerunRegisters,
           durable, history
  <2>2. pc = "merge" /\ Passed /\ remote = saved.head
    BY <2>1 DEF Merge
  <2>3. /\ saved.head # 0 /\ saved.pending = NoPending /\ worktree = "clean"
        /\ saved.validatedHead = saved.head /\ saved.validatedHead \in validated
    BY <2>2 DEF Inv, Placed, BeforePush, AfterPush
  <2>4. HEAD = saved.head
    BY <2>3 DEF Inv, JournalMatches
  <2> QED BY <2>2, <2>3, <2>4
<1>2. Inv /\ [Next]_vars => [pr # "merged" /\ pr' = "merged" =>
                               remote = HEAD /\ HEAD \in validated /\ Passed /\ worktree = "clean"]_vars
  BY <1>1
<1> QED BY <1>2, InvHolds, PTL DEF Spec, LandsWhatItChecked

-----------------------------------------------------------------------------
(* Matchups.                                                                 *)

\* The pairs of a row are as many as what is paired, and a row more adds as many.
LEMMA OneMoreRow ==
  ASSUME NEW s \in Nat, NEW n \in Nat, NEW A \in SUBSET ((0..(s - 1)) \X (0..(n - 1))),
         NEW B \in SUBSET (0..(n - 1))
  PROVE  /\ Cardinality(A \union {<<s, i>> : i \in B}) = Cardinality(A) + Cardinality(B)
         /\ Cardinality(A) \in Nat /\ Cardinality(B) \in Nat
  <1> DEFINE row == {<<s, i>> : i \in B}
             f == [i \in B |-> <<s, i>>]
  <1>1. IsFiniteSet(0..(s - 1)) /\ IsFiniteSet(0..(n - 1))
    BY FS_Interval
  <1>2. IsFiniteSet((0..(s - 1)) \X (0..(n - 1)))
    BY <1>1, FS_Product
  <1>3. IsFiniteSet(A) /\ IsFiniteSet(B)
    BY <1>1, <1>2, FS_Subset
  <1>4. f \in Bijection(B, row)
    <2>1. f \in [B -> row]
      OBVIOUS
    <2>2. f \in Injection(B, row)
      <3>1. \A i, j \in B : f[i] = f[j] => i = j
        OBVIOUS
      <3> QED BY <2>1, <3>1 DEF Injection, IsInjective
    <2>3. f \in Surjection(B, row)
      <3>1. \A t \in row : \E i \in B : f[i] = t
        OBVIOUS
      <3> QED BY <2>1, <3>1 DEF Surjection
    <2> QED BY <2>2, <2>3 DEF Bijection
  <1>5. IsFiniteSet(row) /\ Cardinality(row) = Cardinality(B)
    <2>1. ExistsBijection(B, row)
      BY <1>4 DEF ExistsBijection
    <2> QED BY <1>3, <2>1, FS_Bijection
  <1>6. A \intersect row = {}
    OBVIOUS
  <1>7. Cardinality(A \union row) = Cardinality(A) + Cardinality(row) - Cardinality(A \intersect row)
    BY <1>3, <1>5, FS_Union
  <1>8. Cardinality(A \intersect row) = 0
    BY <1>6, FS_EmptySet
  <1>9. Cardinality(A) \in Nat /\ Cardinality(B) \in Nat
    BY <1>3, FS_CardinalityType
  <1> QED BY <1>5, <1>7, <1>8, <1>9

\* What accumulateRotation takes a game for, once it has been played.
LEMMA PlayedIsCounted ==
  ASSUME MUTypeOK, seat \in Seat, NEW i \in Index, Played(i)
  PROVE  LET e == ending[seat][i]
         IN  /\ Finished(i) /\ seat \in games[i].winners <=> e.how = "win" /\ e.winner = seat
             /\ Finished(i) /\ games[i].winners \ {seat} # {} <=> e.how = "win" /\ e.winner # seat
             /\ Finished(i) /\ games[i].winners = {} <=> e.how = "draw"
             /\ Failure(i) <=> e.how \in {"unsupported", "bug"}
             /\ BudgetStop(i) <=> e.how \in {"turnBudget", "workBudget"}
  <1> DEFINE e == ending[seat][i]
  <1>1. e \in Ending
    BY DEF MUTypeOK
  <1>2. e.how \in {"win", "draw", "turnBudget", "workBudget", "unsupported", "bug"}
    BY <1>1 DEF Ending, Panics
  <1>3. /\ games[i].termination = Terminations[e.how]
        /\ games[i].winners = IF e.how = "win" THEN {e.winner} ELSE {}
    BY DEF Played, GameResult
  <1>4. i \in failed <=> e.how \in Panics
    BY DEF Played
  <1>5. /\ Terminations["win"] = "rules-win" /\ Terminations["draw"] = "rules-draw"
        /\ Terminations["turnBudget"] = "turn-budget" /\ Terminations["workBudget"] = "work-budget"
        /\ Terminations["unsupported"] = "unsupported-execution"
        /\ Terminations["bug"] = "invalid-execution"
    BY DEF Terminations
  <1> HIDE DEF e
  <1>6. BudgetStop(i) <=> e.how \in {"turnBudget", "workBudget"}
    BY <1>2, <1>3, <1>5 DEF BudgetStop
  <1>7. Failure(i) <=> e.how \in {"unsupported", "bug"}
    BY <1>2, <1>3, <1>4, <1>5, <1>6 DEF Failure, Panics
  <1>8. Finished(i) <=> e.how \in {"win", "draw"}
    BY <1>2, <1>6, <1>7 DEF Finished
  <1>9. /\ Finished(i) /\ seat \in games[i].winners <=> e.how = "win" /\ e.winner = seat
        /\ Finished(i) /\ games[i].winners \ {seat} # {} <=> e.how = "win" /\ e.winner # seat
        /\ Finished(i) /\ games[i].winners = {} <=> e.how = "draw"
    BY <1>3, <1>8
  <1> QED BY <1>6, <1>7, <1>9 DEF e

LEMMA MUInvInit == ASSUME MUInit PROVE MUInv
  <1>1. Seat # {} /\ NumSeats \in Nat /\ 0 < NumSeats /\ GamesPerSeat \in Nat
    BY SizesAssumption DEF Seat
  <1>2. MUTypeOK
    <2>1. ZeroResult \in Result
      BY DEF ZeroResult, Result
    <2>2. games \in [Index -> Result]
      BY <2>1 DEF MUInit
    <2>3. seat \in 0..NumSeats /\ next \in 0..GamesPerSeat
      BY <1>1 DEF MUInit
    <2>4. job \in [Worker -> {{}} \union {{i} : i \in Index}]
      BY DEF MUInit
    <2>5. phase \in {"rotate", "send", "wait", "done"}
      BY DEF MUInit
    <2>6. gone \in SUBSET Worker /\ failed \in SUBSET Index
      BY DEF MUInit
    <2>7. ending \in [Seat -> [Index -> Ending]] /\ workers \in Worker
      BY DEF MUInit
    <2> QED BY <2>2, <2>3, <2>4, <2>5, <2>6, <2>7 DEF MUTypeOK
  <1>3. (0..(seat - 1)) \X Index = {}
    BY DEF MUInit
  <1>4. CountsWhatWasPlayed
    <2>1. Cardinality({}) = 0
      BY FS_EmptySet
    <2>2. seat = 0 /\ seat * GamesPerSeat = 0
      BY <1>1 DEF MUInit
    <2> QED BY <1>3, <2>1, <2>2 DEF CountsWhatWasPlayed, Counted, MUInit, ZeroTally
  <1> QED BY <1>1, <1>2, <1>4 DEF MUInv, MUInit

\* Steps that neither end a rotation nor change the tally keep what is counted.
LEMMA TallyKept ==
  ASSUME CountsWhatWasPlayed, UNCHANGED <<ending, seat, tally>>
  PROVE  CountsWhatWasPlayed'
  BY DEF CountsWhatWasPlayed, Counted

\* A game that is played stays played, and others are not touched.
LEMMA PlayKeepsInv ==
  ASSUME MUInv, phase \in {"send", "wait"}, NEW i \in Index, RunGameSafely(i),
         UNCHANGED <<ending, workers, seat, phase, gone, tally>>
  PROVE  /\ failed' \in SUBSET Index
         /\ Played(i)'
         /\ \A k \in Index : Played(k) => Played(k)'
         /\ \A k \in failed' : ending'[seat'][k].how \in Panics
         /\ CountsWhatWasPlayed'
  <1>1. CountsWhatWasPlayed'
    BY TallyKept DEF MUInv
  <1>2. failed' \in SUBSET Index /\ \A k \in failed' : ending'[seat'][k].how \in Panics
    BY DEF MUInv, MUTypeOK, RunGameSafely
  <1>3. DOMAIN games = Index /\ games' = [games EXCEPT ![i] = GameResult(ending[seat][i])]
    BY DEF MUInv, MUTypeOK, RunGameSafely
  <1>4. Played(i)'
    BY <1>3 DEF RunGameSafely, Played, MUInv
  <1>5. ASSUME NEW k \in Index, Played(k), k # i PROVE Played(k)'
    BY <1>3, <1>5 DEF RunGameSafely, Played
  <1> QED BY <1>1, <1>2, <1>4, <1>5

\* How a game ends is recorded as it ended.
LEMMA ResultTyped ==
  ASSUME MUTypeOK, seat \in Seat, NEW i \in Index
  PROVE  GameResult(ending[seat][i]) \in Result
  <1> DEFINE e == ending[seat][i]
  <1>1. e \in Ending
    BY DEF MUTypeOK
  <1>2. e.how \in {"win", "draw", "turnBudget", "workBudget", "unsupported", "bug"}
        /\ (e.how = "win" => e.winner \in Seat)
    BY <1>1 DEF Ending, Panics
  <1> HIDE DEF e
  <1>3. GameResult(e) = [termination |-> Terminations[e.how],
                         winners |-> IF e.how = "win" THEN {e.winner} ELSE {}]
    BY DEF GameResult
  <1>4. /\ Terminations["win"] = "rules-win" /\ Terminations["draw"] = "rules-draw"
        /\ Terminations["turnBudget"] = "turn-budget" /\ Terminations["workBudget"] = "work-budget"
        /\ Terminations["unsupported"] = "unsupported-execution"
        /\ Terminations["bug"] = "invalid-execution"
    BY DEF Terminations
  <1>5. Terminations[e.how] \in {"", "rules-win", "rules-draw", "turn-budget", "work-budget",
                                 "unsupported-execution", "invalid-execution"}
    BY <1>2, <1>4
  <1>6. (IF e.how = "win" THEN {e.winner} ELSE {}) \in SUBSET Seat
    BY <1>2
  <1>7. \A t \in {"", "rules-win", "rules-draw", "turn-budget", "work-budget",
                  "unsupported-execution", "invalid-execution"} :
          \A won \in SUBSET Seat : [termination |-> t, winners |-> won] \in Result
    BY DEF Result
  <1>8. [termination |-> Terminations[e.how],
         winners |-> IF e.how = "win" THEN {e.winner} ELSE {}] \in Result
    BY <1>5, <1>6, <1>7
  <1> QED BY <1>3, <1>8 DEF e

\* The games of a rotation have all been played when every worker has left, and
\* what accumulateRotation adds is what is counted of them.
LEMMA EndRotationKeepsInv ==
  ASSUME MUInv, EndRotation
  PROVE  MUInv'
  <1>1. /\ phase = "wait" /\ gone = Worker /\ next = GamesPerSeat /\ seat' = seat + 1
        /\ phase' = IF seat + 1 = NumSeats THEN "done" ELSE "rotate"
        /\ UNCHANGED <<ending, workers, next, job, gone, games, failed>>
    BY DEF EndRotation, Waited, MUInv
  <1>2. MUTypeOK /\ seat \in Nat /\ seat < NumSeats /\ seat \in Seat /\ NumSeats \in Nat /\ GamesPerSeat \in Nat
    BY <1>1, SizesAssumption DEF MUInv, MUTypeOK, Seat
  <1>3. \A i \in Index : Played(i)
    <2>1. \A w \in Worker : job[w] = {}
      BY <1>1 DEF MUInv
    <2> QED BY <1>1, <2>1 DEF MUInv, Index
  <1>4. MUTypeOK'
    BY <1>1, <1>2 DEF MUTypeOK
  <1>5. CountsWhatWasPlayed'
    <2> DEFINE row(B) == {<<seat, i>> : i \in B}
               e(g) == ending[g[1]][g[2]]
               past == (0..(seat - 1)) \X Index
               now == (0..seat) \X Index
    <2>1. now = past \union row(Index) /\ past \intersect row(Index) = {}
      BY <1>2
    <2>2. ASSUME NEW A \in SUBSET now, NEW B \in SUBSET Index,
                 \A i \in Index : i \in B <=> <<seat, i>> \in A
          PROVE  Cardinality(A) = Cardinality(A \intersect past) + Cardinality(B)
      <3>1. A = (A \intersect past) \union row(B)
        BY <2>1, <2>2
      <3>2. A \intersect past \in SUBSET past
        OBVIOUS
      <3> HIDE DEF now
      <3> QED BY <1>2, <3>1, <3>2, OneMoreRow DEF Index
    <2>3. tally = [total |-> seat * GamesPerSeat,
              tested |-> Cardinality({g \in past : e(g).how = "win" /\ e(g).winner = g[1]}),
              baseline |-> Cardinality({g \in past : e(g).how = "win" /\ e(g).winner # g[1]}),
              draws |-> Cardinality({g \in past : e(g).how = "draw"}),
              failures |-> Cardinality({g \in past : e(g).how \in {"unsupported", "bug"}}),
              budgetStops |-> Cardinality({g \in past : e(g).how \in {"turnBudget", "workBudget"}})]
      BY DEF MUInv, CountsWhatWasPlayed, Counted
    <2>4. tally' = [total |-> tally.total + GamesPerSeat,
              tested |-> tally.tested + Cardinality({i \in Index : Finished(i) /\ seat \in games[i].winners}),
              baseline |-> tally.baseline + Cardinality({i \in Index : Finished(i) /\ games[i].winners \ {seat} # {}}),
              draws |-> tally.draws + Cardinality({i \in Index : Finished(i) /\ games[i].winners = {}}),
              failures |-> tally.failures + Cardinality({i \in Index : Failure(i)}),
              budgetStops |-> tally.budgetStops + Cardinality({i \in Index : BudgetStop(i)})]
      BY DEF EndRotation, HowMany
    <2>5. Cardinality({g \in now : e(g).how = "win" /\ e(g).winner = g[1]})
            = Cardinality({g \in past : e(g).how = "win" /\ e(g).winner = g[1]})
                + Cardinality({i \in Index : Finished(i) /\ seat \in games[i].winners})
      <3> DEFINE A == {g \in now : e(g).how = "win" /\ e(g).winner = g[1]}
                 B == {i \in Index : Finished(i) /\ seat \in games[i].winners}
      <3>1. \A i \in Index : i \in B <=> <<seat, i>> \in A
        BY <1>2, <1>3, PlayedIsCounted
      <3>2. A \intersect past = {g \in past : e(g).how = "win" /\ e(g).winner = g[1]}
        BY <2>1
      <3>3. A \in SUBSET now /\ B \in SUBSET Index
        OBVIOUS
      <3> HIDE DEF A, B
      <3>4. Cardinality(A) = Cardinality(A \intersect past) + Cardinality(B)
        BY <2>2, <3>1, <3>3
      <3> QED BY <3>2, <3>4 DEF A, B
    <2>6. Cardinality({g \in now : e(g).how = "win" /\ e(g).winner # g[1]})
            = Cardinality({g \in past : e(g).how = "win" /\ e(g).winner # g[1]})
                + Cardinality({i \in Index : Finished(i) /\ games[i].winners \ {seat} # {}})
      <3> DEFINE A == {g \in now : e(g).how = "win" /\ e(g).winner # g[1]}
                 B == {i \in Index : Finished(i) /\ games[i].winners \ {seat} # {}}
      <3>1. \A i \in Index : i \in B <=> <<seat, i>> \in A
        BY <1>2, <1>3, PlayedIsCounted
      <3>2. A \intersect past = {g \in past : e(g).how = "win" /\ e(g).winner # g[1]}
        BY <2>1
      <3>3. A \in SUBSET now /\ B \in SUBSET Index
        OBVIOUS
      <3> HIDE DEF A, B
      <3>4. Cardinality(A) = Cardinality(A \intersect past) + Cardinality(B)
        BY <2>2, <3>1, <3>3
      <3> QED BY <3>2, <3>4 DEF A, B
    <2>7. Cardinality({g \in now : e(g).how = "draw"})
            = Cardinality({g \in past : e(g).how = "draw"})
                + Cardinality({i \in Index : Finished(i) /\ games[i].winners = {}})
      <3> DEFINE A == {g \in now : e(g).how = "draw"}
                 B == {i \in Index : Finished(i) /\ games[i].winners = {}}
      <3>1. \A i \in Index : i \in B <=> <<seat, i>> \in A
        BY <1>2, <1>3, PlayedIsCounted
      <3>2. A \intersect past = {g \in past : e(g).how = "draw"}
        BY <2>1
      <3>3. A \in SUBSET now /\ B \in SUBSET Index
        OBVIOUS
      <3> HIDE DEF A, B
      <3>4. Cardinality(A) = Cardinality(A \intersect past) + Cardinality(B)
        BY <2>2, <3>1, <3>3
      <3> QED BY <3>2, <3>4 DEF A, B
    <2>8. Cardinality({g \in now : e(g).how \in {"unsupported", "bug"}})
            = Cardinality({g \in past : e(g).how \in {"unsupported", "bug"}})
                + Cardinality({i \in Index : Failure(i)})
      <3> DEFINE A == {g \in now : e(g).how \in {"unsupported", "bug"}}
                 B == {i \in Index : Failure(i)}
      <3>1. \A i \in Index : i \in B <=> <<seat, i>> \in A
        BY <1>2, <1>3, PlayedIsCounted
      <3>2. A \intersect past = {g \in past : e(g).how \in {"unsupported", "bug"}}
        BY <2>1
      <3>3. A \in SUBSET now /\ B \in SUBSET Index
        OBVIOUS
      <3> HIDE DEF A, B
      <3>4. Cardinality(A) = Cardinality(A \intersect past) + Cardinality(B)
        BY <2>2, <3>1, <3>3
      <3> QED BY <3>2, <3>4 DEF A, B
    <2>9. Cardinality({g \in now : e(g).how \in {"turnBudget", "workBudget"}})
            = Cardinality({g \in past : e(g).how \in {"turnBudget", "workBudget"}})
                + Cardinality({i \in Index : BudgetStop(i)})
      <3> DEFINE A == {g \in now : e(g).how \in {"turnBudget", "workBudget"}}
                 B == {i \in Index : BudgetStop(i)}
      <3>1. \A i \in Index : i \in B <=> <<seat, i>> \in A
        BY <1>2, <1>3, PlayedIsCounted
      <3>2. A \intersect past = {g \in past : e(g).how \in {"turnBudget", "workBudget"}}
        BY <2>1
      <3>3. A \in SUBSET now /\ B \in SUBSET Index
        OBVIOUS
      <3> HIDE DEF A, B
      <3>4. Cardinality(A) = Cardinality(A \intersect past) + Cardinality(B)
        BY <2>2, <3>1, <3>3
      <3> QED BY <3>2, <3>4 DEF A, B
    <2>10. (seat + 1) * GamesPerSeat = seat * GamesPerSeat + GamesPerSeat
      BY <1>2
    <2>11. tally' = [total |-> seat' * GamesPerSeat,
              tested |-> Cardinality({g \in now : e(g).how = "win" /\ e(g).winner = g[1]}),
              baseline |-> Cardinality({g \in now : e(g).how = "win" /\ e(g).winner # g[1]}),
              draws |-> Cardinality({g \in now : e(g).how = "draw"}),
              failures |-> Cardinality({g \in now : e(g).how \in {"unsupported", "bug"}}),
              budgetStops |-> Cardinality({g \in now : e(g).how \in {"turnBudget", "workBudget"}})]
      <3> HIDE DEF past, now, e
      <3> QED BY <1>1, <2>3, <2>4, <2>5, <2>6, <2>7, <2>8, <2>9, <2>10
    <2>12. (0..(seat' - 1)) \X Index = now
      BY <1>1, <1>2
    <2> QED BY <1>1, <2>11, <2>12 DEF CountsWhatWasPlayed, Counted
  <1> QED BY <1>1, <1>2, <1>4, <1>5 DEF MUInv

LEMMA MUInvStep == ASSUME MUInv, [MUNext]_MUvars PROVE MUInv'
  <1>1. NumSeats \in Nat /\ GamesPerSeat \in Nat /\ MUTypeOK
    BY SizesAssumption DEF MUInv
  <1>2. ASSUME phase \in {"send", "wait"} PROVE seat \in Seat
    BY <1>1, <1>2 DEF MUInv, MUTypeOK, Seat
  <1>3. CASE StartBatch
    <2>1. \A w \in Worker : job[w] = {}
      BY <1>3 DEF MUInv, StartBatch
    <2>2. CountsWhatWasPlayed'
      BY <1>3, TallyKept DEF MUInv, StartBatch
    <2>3. ZeroResult \in Result
      BY DEF ZeroResult, Result
    <2>4. games' \in [Index -> Result]
      BY <1>3, <2>3 DEF StartBatch
    <2>5. MUTypeOK'
      BY <1>1, <1>3, <2>4 DEF StartBatch, MUTypeOK
    <2>6. \A i \in 0..(next' - 1) : FALSE
      BY <1>3 DEF StartBatch
    <2> QED BY <1>3, <2>1, <2>2, <2>5, <2>6 DEF StartBatch, MUInv, MUTypeOK
  <1>4. CASE PlayInOrder
    <2>1. PICK i \in Index : i = next /\ RunGameSafely(i)
      BY <1>4 DEF PlayInOrder
    <2>2. /\ failed' \in SUBSET Index
          /\ Played(i)'
          /\ \A k \in Index : Played(k) => Played(k)'
          /\ \A k \in failed' : ending'[seat'][k].how \in Panics
          /\ CountsWhatWasPlayed'
      BY <1>4, <2>1, PlayKeepsInv DEF PlayInOrder
    <2>3. GameResult(ending[seat][i]) \in Result
      BY <1>1, <1>2, <1>4, ResultTyped DEF PlayInOrder
    <2>4. games' \in [Index -> Result]
      BY <1>1, <2>1, <2>3 DEF RunGameSafely, MUTypeOK
    <2>5. MUTypeOK'
      <3>1. next' \in 0..GamesPerSeat
        BY <1>1, <1>4, <2>1 DEF PlayInOrder, Index
      <3> QED BY <1>1, <1>4, <2>2, <2>4, <3>1 DEF PlayInOrder, MUTypeOK
    <2>6. \A k \in 0..(next' - 1) : Played(k)' \/ \E w \in Worker : k \in job'[w]
      BY <1>1, <1>4, <2>1, <2>2 DEF PlayInOrder, MUInv, MUTypeOK, Index
    <2> QED BY <1>4, <2>2, <2>5, <2>6 DEF PlayInOrder, MUInv
  <1>5. ASSUME NEW w \in Worker, Send(w) PROVE MUInv'
    <2>1. next \in Index /\ next' = next + 1
      BY <1>1, <1>5 DEF Send, Advance, MoreGames, MUTypeOK, Index
    <2>2. CountsWhatWasPlayed'
      BY <1>5, TallyKept DEF MUInv, Send
    <2>3. job' = [job EXCEPT ![w] = {next}]
      BY <1>5 DEF Send
    <2>4. job' \in [Worker -> {{}} \union {{i} : i \in Index}] /\ next' \in 0..GamesPerSeat
      <3>1. next' \in 0..GamesPerSeat
        BY <1>1, <2>1 DEF Index
      <3>2. {next} \in {{}} \union {{i} : i \in Index}
        BY <2>1
      <3>3. job' \in [Worker -> {{}} \union {{i} : i \in Index}]
        BY <1>1, <2>3, <3>2 DEF MUTypeOK
      <3> QED BY <3>1, <3>3
    <2>5. MUTypeOK'
      BY <1>1, <1>5, <2>4 DEF Send, MUTypeOK
    <2>6. \A v \in gone' : job'[v] = {}
      BY <1>1, <1>5, <2>3 DEF Send, MUInv, MUTypeOK
    <2>7. \A k \in 0..(next' - 1) : Played(k)' \/ \E v \in Worker : k \in job'[v]
      <3> SUFFICES ASSUME NEW k \in 0..(next' - 1)
                   PROVE  Played(k)' \/ \E v \in Worker : k \in job'[v]
        OBVIOUS
      <3>1. CASE k = next
        BY <1>1, <2>3, <3>1 DEF MUTypeOK
      <3>2. CASE k # next
        <4>1. Played(k) \/ \E v \in Worker : k \in job[v]
          BY <1>1, <1>5, <2>1, <3>2 DEF Send, MUInv, MUTypeOK
        <4>2. CASE Played(k)
          BY <1>5, <4>2 DEF Send, Played
        <4>3. ASSUME NEW v \in Worker, k \in job[v] PROVE k \in job'[v]
          BY <1>1, <1>5, <2>3, <4>3 DEF Send, MUTypeOK
        <4> QED BY <4>1, <4>2, <4>3
      <3> QED BY <3>1, <3>2
    <2> QED BY <1>5, <2>2, <2>5, <2>6, <2>7 DEF Send, MUInv
  <1>6. ASSUME NEW w \in Worker, Play(w) PROVE MUInv'
    <2>1. PICK i \in job[w] : RunGameSafely(i)
      BY <1>6 DEF Play
    <2>2. job[w] = {i} /\ i \in Index
      BY <1>1, <2>1 DEF MUTypeOK
    <2>3. w \notin gone /\ phase \in {"send", "wait"}
      BY <1>1, <2>1 DEF MUInv, MUTypeOK
    <2>4. /\ failed' \in SUBSET Index
          /\ Played(i)'
          /\ \A k \in Index : Played(k) => Played(k)'
          /\ \A k \in failed' : ending'[seat'][k].how \in Panics
          /\ CountsWhatWasPlayed'
      BY <1>6, <2>1, <2>2, <2>3, PlayKeepsInv DEF Play
    <2>5. GameResult(ending[seat][i]) \in Result
      BY <1>1, <1>2, <2>2, <2>3, ResultTyped
    <2>6. games' \in [Index -> Result]
      BY <1>1, <2>1, <2>2, <2>5 DEF RunGameSafely, MUTypeOK
    <2>7. job' = [job EXCEPT ![w] = {}]
      BY <1>6 DEF Play
    <2>8. MUTypeOK'
      BY <1>1, <1>6, <2>4, <2>6, <2>7 DEF Play, MUTypeOK
    <2>9. \A v \in gone' : job'[v] = {}
      BY <1>1, <1>6, <2>7 DEF Play, MUInv, MUTypeOK
    <2>10. \A k \in 0..(next' - 1) : Played(k)' \/ \E v \in Worker : k \in job'[v]
      <3> SUFFICES ASSUME NEW k \in 0..(next - 1)
                   PROVE  Played(k)' \/ \E v \in Worker : k \in job'[v]
        BY <1>6 DEF Play
      <3>1. k \in Index
        BY <1>1 DEF MUTypeOK, Index
      <3>2. Played(k) \/ \E v \in Worker : k \in job[v]
        BY <2>3 DEF MUInv
      <3>3. ASSUME NEW v \in Worker, k \in job[v] PROVE k = i \/ k \in job'[v]
        BY <1>1, <2>2, <2>7, <3>3 DEF MUTypeOK
      <3> QED BY <2>4, <3>1, <3>2, <3>3
    <2> QED BY <1>6, <2>3, <2>4, <2>8, <2>9, <2>10 DEF Play, MUInv
  <1>7. CASE CloseJobs
    <2>1. CountsWhatWasPlayed'
      BY <1>7, TallyKept DEF MUInv, CloseJobs
    <2>2. MUTypeOK'
      BY <1>1, <1>7 DEF CloseJobs, MUTypeOK
    <2>3. \A k \in Index : Played(k) => Played(k)'
      BY <1>7 DEF CloseJobs, Played
    <2>4. \A k \in 0..(next - 1) : k \in Index
      BY <1>1 DEF MUTypeOK, Index
    <2> QED BY <1>7, <2>1, <2>2, <2>3, <2>4 DEF CloseJobs, MUInv
  <1>8. ASSUME NEW w \in Worker, Leave(w) PROVE MUInv'
    <2>1. CountsWhatWasPlayed'
      BY <1>8, TallyKept DEF MUInv, Leave
    <2>2. MUTypeOK'
      BY <1>1, <1>8 DEF Leave, MUTypeOK
    <2>3. \A k \in Index : Played(k) => Played(k)'
      BY <1>8 DEF Leave, Played
    <2>4. \A k \in 0..(next - 1) : k \in Index
      BY <1>1 DEF MUTypeOK, Index
    <2> QED BY <1>8, <2>1, <2>2, <2>3, <2>4 DEF Leave, MUInv
  <1>9. CASE EndRotation
    BY <1>9, EndRotationKeepsInv
  <1>10. CASE UNCHANGED MUvars
    <2>1. CountsWhatWasPlayed'
      BY <1>10, TallyKept DEF MUInv, MUvars
    <2> QED BY <1>10, <2>1 DEF MUvars, MUInv, MUTypeOK, Played
  <1> QED BY <1>3, <1>4, <1>5, <1>6, <1>7, <1>8, <1>9, <1>10 DEF MUNext, Caller

\* However many workers play the games, and in whatever order they take and
\* finish them, RunMatchup's tally after a rotation is that of the games played.
THEOREM CountsAllGames == MUSpec => []CountsWhatWasPlayed
  <1>1. MUInit => MUInv
    BY MUInvInit
  <1>2. MUInv /\ [MUNext]_MUvars => MUInv'
    BY MUInvStep
  <1>3. MUInv => CountsWhatWasPlayed
    BY DEF MUInv
  <1> QED BY <1>1, <1>2, <1>3, PTL DEF MUSpec
=============================================================================
