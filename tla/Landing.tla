------------------------------ MODULE Landing ------------------------------
(***************************************************************************)
(* A reviewed unit of card production is landed on main by                 *)
(* landPullRequest: it is committed, newer main is merged into it, the     *)
(* result is reviewed, validated, pushed and put into a pull request,      *)
(* whose checks are waited for, rerun or repaired until it can be merged.  *)
(* All of this may stop at any step, by a crash, a failure or a pause, and *)
(* be resumed from the checkpoint file, the task's git worktree and what   *)
(* GitHub has recorded; main moves and checks run in the meantime.         *)
(*                                                                         *)
(* A commit is its position on the task branch; its tree is the number of  *)
(* repairs in it and the content of the main it has integrated.            *)
(***************************************************************************)
EXTENDS Integers, Sequences

CONSTANTS
  Content,               \* what main's tree may hold
  MaxMain,               \* bound: commits of main while the unit lands, its base included
  Check,                 \* the required checks
  CiFixRounds,           \* policy.ciFixRounds
  InfrastructureReruns   \* policy.ciInfrastructureReruns

ASSUME LandingAssumption ==
  /\ MaxMain \in Nat \ {0}
  /\ CiFixRounds \in Nat
  /\ InfrastructureReruns \in Nat

VARIABLES
  main,       \* origin/main: the content at each of its commits
  commits,    \* the task branch, HEAD is its end
  worktree,   \* the task's checkout
  saved,      \* the checkpoint file, head = 0: there is none
  remote,     \* the task branch on origin, 0: not pushed
  pr,         \* the pull request
  ci,         \* the latest run of each check on `remote`
  asked,      \* checks whose rerun is requested and not registered
  pc,         \* where landPullRequest is
  after,      \* where finishPending returns to
  known,      \* main as last fetched
  evidence,   \* the latest runs that failed when the logs were read, and whether billing was the cause
  reviewed,   \* history: the trees an independent reviewer approved
  validated,  \* history: the commits the tests passed on
  attempts    \* history: repairs begun, and runner reruns of `remote`

durable == <<main, commits, worktree, saved, remote, pr, ci, asked>>
volatile == <<pc, after, known, evidence>>
history == <<reviewed, validated, attempts>>
vars == <<durable, volatile, history>>

Unfinished == {"absent", "running"}
Infrastructure == {"runner", "billing"}
Failures == {"failed"} \union Infrastructure
Resting == {"stopped", "published", "ci_failed", "refused"}

HEAD == Len(commits)
Tree(c) == <<commits[c].repairs, main[commits[c].main]>>
NoPending == [kind |-> "none"]
NoEvidence == [failed |-> {}, billing |-> FALSE]
NoRun == [c \in Check |-> "absent"]
NoCheckpoint == [head |-> 0, reviewedHead |-> 0, validatedHead |-> 0, pending |-> NoPending,
                 ciFixes |-> 0, ciReruns |-> [head |-> 0, count |-> 0], ciBlocked |-> 0]

Failing == {c \in Check : ci[c] \in Failures}
Pending == Failing = {} /\ \E c \in Check : ci[c] \in Unfinished
Passed == \A c \in Check : ci[c] = "success"

Init ==
  /\ main \in {<<content>> : content \in Content}
  /\ commits = <<>> /\ worktree = "prepared"
  /\ saved = NoCheckpoint
  /\ remote = 0 /\ pr = "none" /\ ci = NoRun /\ asked = {}
  /\ pc = "stopped" /\ after = "resumed" /\ known = 0 /\ evidence = NoEvidence
  /\ reviewed = {<<0, main[1]>>}
  /\ validated = {} /\ attempts = [fixes |-> 0, reruns |-> 0]

Goto(step) == pc' = step /\ UNCHANGED <<after, known, evidence>>
Stop == pc' = "stopped" /\ after' = "resumed" /\ known' = 0 /\ evidence' = NoEvidence
Save(state) == saved' = state

----------------------------------------------------------------------------
\* The checkpoint is loaded or made, and what was interrupted is finished.

CommitUnit ==
  /\ pc = "stopped" /\ saved.head = 0 /\ commits = <<>>
  /\ commits' = <<[repairs |-> 0, main |-> 1]>> /\ worktree' = "clean"
  /\ Goto("committed")
  /\ UNCHANGED <<main, saved, remote, pr, ci, asked, history>>

\* Mutant: a commit without a checkpoint is never adopted.
AdoptUnit_Never ==
  /\ pc = "stopped" /\ saved.head = 0 /\ commits # <<>>
  /\ Goto("refused")
  /\ UNCHANGED <<durable, history>>

\* A crash came between the commit and the checkpoint.
AdoptUnit ==
  /\ pc = "stopped" /\ saved.head = 0 /\ commits # <<>>
  /\ Goto(IF commits = <<[repairs |-> 0, main |-> 1]>> /\ worktree = "clean" THEN "committed" ELSE "refused")
  /\ UNCHANGED <<durable, history>>

SaveUnit ==
  /\ pc = "committed"
  /\ Save([NoCheckpoint EXCEPT !.head = HEAD, !.reviewedHead = HEAD])
  /\ pc' = "finish" /\ after' = "resumed" /\ UNCHANGED <<known, evidence>>
  /\ UNCHANGED <<main, commits, worktree, remote, pr, ci, asked, history>>

LoadCheckpoint ==
  /\ pc = "stopped" /\ saved.head # 0
  /\ pc' = "finish" /\ after' = "resumed" /\ UNCHANGED <<known, evidence>>
  /\ UNCHANGED <<durable, history>>

NothingToFinish ==
  /\ pc = "finish" /\ saved.pending = NoPending
  /\ Goto(after)
  /\ UNCHANGED <<durable, history>>

\* A conflict leaves the checkout as `git merge` left it.
FinishMerge ==
  /\ pc = "finish" /\ saved.pending.kind = "merge" /\ HEAD = saved.pending.parent
  /\ \/ /\ worktree = "clean"
        /\ \/ /\ commits' = Append(commits, [commits[HEAD] EXCEPT !.main = saved.pending.main])
              /\ UNCHANGED worktree
              /\ Goto("save")
           \/ /\ worktree' = "conflict" /\ UNCHANGED commits
              /\ Stop
     \/ /\ worktree # "clean" /\ UNCHANGED <<commits, worktree>>
        /\ Goto("refused")
  /\ UNCHANGED <<main, saved, remote, pr, ci, asked, history>>

FinishRepair ==
  /\ pc = "finish" /\ saved.pending.kind = "ci_commit" /\ HEAD = saved.pending.parent
  /\ \/ /\ worktree = "staged"
        /\ commits' = Append(commits, [commits[HEAD] EXCEPT !.repairs = @ + 1]) /\ worktree' = "clean"
        /\ Goto("save")
     \/ /\ worktree # "staged" /\ UNCHANGED <<commits, worktree>>
        /\ Goto("refused")
  /\ UNCHANGED <<main, saved, remote, pr, ci, asked, history>>

\* The commit was made before a crash: its parents and tree are the journaled ones.
IsPending ==
  /\ HEAD = saved.pending.parent + 1
  /\ IF saved.pending.kind = "merge"
     THEN commits[HEAD].main = saved.pending.main
     ELSE Tree(HEAD) = saved.pending.tree

\* Mutant: what was reviewed before it was committed counts as validated.
SavePending_KeepsValidation ==
  /\ pc = "save"
  /\ LET keepsReview == saved.pending.kind = "merge" => Tree(HEAD) = saved.pending.beforeTree
         checked == IF keepsReview THEN HEAD ELSE 0 IN
     Save([saved EXCEPT !.head = HEAD, !.validatedHead = checked, !.pending = NoPending,
                        !.reviewedHead = checked])
  /\ Goto(after)
  /\ UNCHANGED <<main, commits, worktree, remote, pr, ci, asked, history>>

FindFinished ==
  /\ pc = "finish" /\ saved.pending # NoPending /\ HEAD # saved.pending.parent
  /\ Goto(IF IsPending THEN "save" ELSE "refused")
  /\ UNCHANGED <<durable, history>>

SavePending ==
  /\ pc = "save"
  /\ LET keepsReview == saved.pending.kind = "merge" => Tree(HEAD) = saved.pending.beforeTree IN
     Save([saved EXCEPT !.head = HEAD, !.validatedHead = 0, !.pending = NoPending,
                        !.reviewedHead = IF keepsReview THEN HEAD ELSE 0])
  /\ Goto(after)
  /\ UNCHANGED <<main, commits, worktree, remote, pr, ci, asked, history>>

ResumeChecks ==
  /\ pc = "resumed"
  /\ Goto(IF worktree # "clean" \/ HEAD # saved.head THEN "refused"
          ELSE IF pr = "merged" THEN "confirm" ELSE "loop")
  /\ UNCHANGED <<durable, history>>

----------------------------------------------------------------------------
\* One pass: integrate, review, validate, push, open the pull request.

Integrate ==
  /\ pc = "loop"
  /\ known' = Len(main)
  /\ IF commits[saved.head].main < Len(main)
     THEN /\ Save([saved EXCEPT !.pending = [kind |-> "merge", parent |-> saved.head, main |-> Len(main),
                                             beforeTree |-> Tree(HEAD)]])
          /\ pc' = "finish" /\ after' = "review"
     ELSE pc' = "review" /\ UNCHANGED <<saved, after>>
  /\ UNCHANGED <<main, commits, worktree, remote, pr, ci, asked, evidence, history>>

ReviewIntegration ==
  /\ pc = "review" /\ saved.reviewedHead # saved.head
  /\ \/ /\ reviewed' = reviewed \union {Tree(HEAD)}
        /\ Save([saved EXCEPT !.reviewedHead = saved.head])
        /\ Goto("validate")
     \/ Stop /\ UNCHANGED <<reviewed, saved>>
  /\ UNCHANGED <<main, commits, worktree, remote, pr, ci, asked, validated, attempts>>

Validate ==
  /\ pc = "validate" /\ saved.validatedHead # saved.head
  /\ \/ /\ validated' = validated \union {HEAD}
        /\ Save([saved EXCEPT !.validatedHead = saved.head])
        /\ Goto("push")
     \/ Stop /\ UNCHANGED <<validated, saved>>
  /\ UNCHANGED <<main, commits, worktree, remote, pr, ci, asked, reviewed, attempts>>

AlreadyDone ==
  /\ \/ pc = "review" /\ saved.reviewedHead = saved.head /\ Goto("validate")
     \/ pc = "validate" /\ saved.validatedHead = saved.head /\ Goto("push")
  /\ UNCHANGED <<durable, history>>

Push ==
  /\ pc = "push"
  /\ remote' = HEAD
  /\ IF remote = HEAD THEN UNCHANGED <<ci, asked, attempts>>
     ELSE ci' = NoRun /\ asked' = {} /\ attempts' = [attempts EXCEPT !.reruns = 0]
  /\ Goto("create")
  /\ UNCHANGED <<main, commits, worktree, saved, pr, reviewed, validated>>

Create ==
  /\ pc = "create"
  /\ pr' = IF pr = "none" THEN "open" ELSE pr
  /\ Goto("assess")
  /\ UNCHANGED <<main, commits, worktree, saved, remote, ci, asked, history>>

----------------------------------------------------------------------------
\* The checks of exactly this head are assessed.

\* Checks are pending: they are watched, and when they still are the run pauses.
AssessPending ==
  /\ pc \in {"assess", "watched"} /\ Pending
  /\ IF pc = "assess" THEN Goto("watch") ELSE Stop
  /\ UNCHANGED <<durable, history>>

\* The wait for checks to be registered is bounded, the one for registered checks is not.
Watch ==
  /\ pc = "watch" /\ (Pending => \E c \in Check : ci[c] = "absent")
  /\ Goto("watched")
  /\ UNCHANGED <<durable, history>>

ReadFailures ==
  /\ pc \in {"assess", "watched"} /\ Failing # {}
  /\ evidence' = [failed |-> Failing, billing |-> \E c \in Failing : ci[c] = "billing"]
  /\ pc' = IF \A c \in Failing : ci[c] \in Infrastructure THEN "settle" ELSE "fix"
  /\ UNCHANGED <<durable, after, known, history>>

\* All have passed: approvals, conflicts or a stale BEHIND may still hold the merge up.
AssessPassed ==
  /\ pc \in {"assess", "watched"} /\ Passed
  /\ Goto("ready") \/ Stop
  /\ UNCHANGED <<durable, history>>

\* Mutant: the check that nothing else failed is the wrong way round.
Settle_Negated ==
  /\ pc = "settle"
  /\ IF \E c \in Check : ci[c] = "running" THEN Stop
     ELSE Goto(IF Failing \subseteq evidence.failed THEN "loop" ELSE "decide")
  /\ UNCHANGED <<durable, history>>

\* The failures of the runners are retried once the other checks have completed.
Settle ==
  /\ pc = "settle"
  /\ IF \E c \in Check : ci[c] = "running" THEN Stop
     ELSE Goto(IF Failing # {} /\ Failing \subseteq evidence.failed THEN "decide" ELSE "loop")
  /\ UNCHANGED <<durable, history>>

Reruns == IF saved.ciReruns.head = saved.head THEN saved.ciReruns.count ELSE 0

DecideRerun ==
  /\ pc = "decide"
  /\ \/ /\ evidence.billing /\ saved.ciBlocked # saved.head
        /\ Save([saved EXCEPT !.ciBlocked = saved.head])
        /\ Stop
     \/ /\ evidence.billing /\ saved.ciBlocked = saved.head
        /\ Save([saved EXCEPT !.ciBlocked = 0])
        /\ Goto("rerun")
     \/ /\ ~evidence.billing /\ Reruns >= InfrastructureReruns
        /\ UNCHANGED saved
        /\ Goto("ci_failed")
     \/ /\ ~evidence.billing /\ Reruns < InfrastructureReruns
        /\ Save([saved EXCEPT !.ciReruns = [head |-> saved.head, count |-> Reruns + 1]])
        /\ Goto("rerun")
  /\ UNCHANGED <<main, commits, worktree, remote, pr, ci, asked, history>>

\* GitHub refuses to rerun what is about to run again, or does.
RerunFailed ==
  /\ pc = "rerun"
  /\ IF asked # {} \/ evidence.failed = {} THEN Stop /\ UNCHANGED <<asked, attempts>>
     ELSE /\ asked' = evidence.failed
          /\ attempts' = [attempts EXCEPT !.reruns = IF evidence.billing THEN @ ELSE @ + 1]
          /\ Goto("registering")
  /\ UNCHANGED <<main, commits, worktree, saved, remote, pr, ci, reviewed, validated>>

AwaitRegistration ==
  /\ pc = "registering"
  /\ IF asked = {} THEN Goto("loop") ELSE Stop
  /\ UNCHANGED <<durable, history>>

\* Mutant: the repairs that were committed are counted.
BeginRepair_CountsCommitted ==
  /\ pc = "fix"
  /\ Goto(IF commits[HEAD].repairs >= CiFixRounds THEN "ci_failed" ELSE "fixing")
  /\ UNCHANGED <<durable, history>>

----------------------------------------------------------------------------
\* A real failure is repaired by an agent whose edits are reviewed before they are committed.

BeginRepair ==
  /\ pc = "fix"
  /\ IF saved.ciFixes >= CiFixRounds
     THEN Goto("ci_failed") /\ UNCHANGED saved
     ELSE Save([saved EXCEPT !.ciFixes = @ + 1]) /\ Goto("fixing")
  /\ UNCHANGED <<main, commits, worktree, remote, pr, ci, asked, history>>

FixCI ==
  /\ pc = "fixing"
  /\ attempts' = [attempts EXCEPT !.fixes = @ + 1]
  /\ \/ worktree' = "edits" /\ Goto("fixed")
     \/ UNCHANGED worktree /\ Stop
  /\ UNCHANGED <<main, commits, saved, remote, pr, ci, asked, reviewed, validated>>

RepairedTree == <<commits[HEAD].repairs + 1, main[commits[HEAD].main]>>

ReviewRepair ==
  /\ pc = "fixed"
  /\ \/ /\ reviewed' = reviewed \union {RepairedTree}
        /\ worktree' = "staged"
        /\ Goto("journal")
     \/ Stop /\ UNCHANGED <<reviewed, worktree>>
  /\ UNCHANGED <<main, commits, saved, remote, pr, ci, asked, validated, attempts>>

JournalRepair ==
  /\ pc = "journal"
  /\ Save([saved EXCEPT !.pending = [kind |-> "ci_commit", parent |-> saved.head, tree |-> RepairedTree]])
  /\ pc' = "finish" /\ after' = "loop" /\ UNCHANGED <<known, evidence>>
  /\ UNCHANGED <<main, commits, worktree, remote, pr, ci, asked, history>>

----------------------------------------------------------------------------
\* The merge, and what tells the run that it happened.

Ready ==
  /\ pc = "ready"
  /\ Goto(IF Len(main) # known THEN "loop" ELSE "merge")
  /\ UNCHANGED <<durable, history>>

\* GitHub merges only the head it is told, and may refuse.
Merge ==
  /\ pc = "merge"
  /\ \/ Passed /\ remote = saved.head /\ pr' = "merged" /\ Goto("confirm")
     \/ UNCHANGED pr /\ Stop
  /\ UNCHANGED <<main, commits, worktree, saved, remote, ci, asked, history>>

ConfirmMerged ==
  /\ pc = "confirm"
  /\ Goto(IF remote = saved.head THEN "published" ELSE "refused")
  /\ UNCHANGED <<durable, history>>

----------------------------------------------------------------------------
\* What happens around it.

\* The process ends, with or without having given its answer: only what is on disk remains.
Crash ==
  /\ pc \notin {"stopped", "refused"}
  /\ Stop
  /\ UNCHANGED <<durable, history>>

MainMoves ==
  /\ Len(main) < MaxMain /\ pr # "merged"
  /\ \E content \in Content : main' = Append(main, content)
  /\ UNCHANGED <<commits, worktree, saved, remote, pr, ci, asked, volatile, history>>

CheckRuns ==
  /\ pr = "open"
  /\ \E c \in Check :
       \/ ci[c] = "absent" /\ ci' = [ci EXCEPT ![c] = "running"]
       \/ /\ ci[c] = "running"
          /\ \E result \in {"success"} \union Failures : ci' = [ci EXCEPT ![c] = result]
  /\ UNCHANGED <<main, commits, worktree, saved, remote, pr, asked, volatile, history>>

RerunRegisters ==
  /\ pr = "open" /\ asked # {}
  /\ ci' = [c \in Check |-> IF c \in asked THEN "running" ELSE ci[c]]
  /\ asked' = {} /\ evidence' = [evidence EXCEPT !.failed = @ \ asked]
  /\ UNCHANGED <<main, commits, worktree, saved, remote, pr, pc, after, known, history>>

Resume == CommitUnit \/ AdoptUnit \/ LoadCheckpoint
FinishPending == NothingToFinish \/ FinishMerge \/ FinishRepair \/ FindFinished \/ SavePending
Prepare == SaveUnit \/ ResumeChecks \/ Integrate \/ ReviewIntegration \/ Validate \/ AlreadyDone \/ Push \/ Create
Assess == AssessPending \/ Watch \/ ReadFailures \/ AssessPassed
Retry == Settle \/ DecideRerun \/ RerunFailed \/ AwaitRegistration
Repair == BeginRepair \/ FixCI \/ ReviewRepair \/ JournalRepair
Publish == Ready \/ Merge \/ ConfirmMerged

Land == FinishPending \/ Prepare \/ Assess \/ Retry \/ Repair \/ Publish
Environment == MainMoves \/ CheckRuns \/ RerunRegisters

Next == Resume \/ Land \/ Crash \/ Environment
Spec == Init /\ [][Next]_vars
\* A running controller takes its next step, and GitHub runs what was asked of it.
Fairness == WF_vars(Land) /\ WF_vars(CheckRuns) /\ WF_vars(RerunRegisters)

----------------------------------------------------------------------------
(***************************************************************************)
(* Whatever was interrupted before, what is merged is the end of the task  *)
(* branch, the tests passed on exactly this commit and every check passed  *)
(* on it, and nothing else was left in the checkout: a validation of an    *)
(* earlier head is forgotten whenever finishPending moves it.              *)
(***************************************************************************)
LandsWhatItChecked ==
  [][pr # "merged" /\ pr' = "merged" =>
       remote = HEAD /\ HEAD \in validated /\ Passed /\ worktree = "clean"]_vars

(***************************************************************************)
(* A run can be resumed from whatever an interruption left: it is refused  *)
(* only when a repair's edits or a conflict lie unreviewed in the          *)
(* checkout, and never once the unit is on main.                           *)
(***************************************************************************)
RefusesOnlyUnfinishedWork ==
  pc = "refused" => pr # "merged" /\ worktree \in {"edits", "staged", "conflict"}

(***************************************************************************)
(* However often a landing is interrupted and resumed, the agent that      *)
(* repairs is called ciFixRounds times and the failed runners of a head    *)
(* are retried ciInfrastructureReruns times at the most, and no main is    *)
(* merged and no repair committed twice.                                   *)
(***************************************************************************)
AttemptsAreBounded ==
  /\ attempts.fixes <= CiFixRounds
  /\ attempts.reruns <= InfrastructureReruns
  /\ \A i, j \in DOMAIN commits : commits[i] = commits[j] => i = j

(***************************************************************************)
(* A pass "either merges, fixes a real failure, integrates newer main, or  *)
(* returns a precise pending state": it never goes round forever, provided *)
(* that checks which run come to an end.                                   *)
(***************************************************************************)
ComesToRest == []<>(pc \in Resting)

(***************************************************************************)
(* "Changed integration receives independent review": every tree that      *)
(* lands was approved by a reviewer.                                       *)
(***************************************************************************)
OnlyReviewedTreesLand == pr = "merged" => Tree(remote) \in reviewed
=============================================================================
