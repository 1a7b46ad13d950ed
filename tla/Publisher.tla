------------------------------ MODULE Publisher ------------------------------
(***************************************************************************)
(* A lifecycle and the decision on its work (internal/run/publish.go,      *)
(* Prepare): the fixes a run made itself are folded, and the history that  *)
(* will be pushed is held to the protected paths, the scanner, the commit  *)
(* policy and the publish gates.  What a run pushes is what it cleared.    *)
(***************************************************************************)
EXTENDS Lifecycle

VARIABLE
  decision  \* the publisher's: whether it refused, whether it warns, its gates

allVars == <<vars, decision>>

Deciding == { "proposed", "inspect", "gates" }

Decided == { "answered", "cleared", "refused" }

Undecided == [refused |-> FALSE, unverified |-> FALSE, gates |-> <<>>]

TypeOK ==
  /\ LifecycleTypeOK
  /\ pc \in Working \cup Ended \cup Deciding \cup Decided
  /\ decision \in [refused : BOOLEAN, unverified : BOOLEAN, gates : Results]

PInit == Init /\ decision = Undecided
-----------------------------------------------------------------------------
\* What a configuration counts as checks of the work: a gate on any step, or one
\* before the push.
Verified == lc.gates # {}

\* Mutant: a revision is answered in words whether it made commits or not.
AnswerInWords ==
  /\ pc = "proposed" /\ lc.mode = "feedback"
  /\ pc' = "answered"
  /\ UNCHANGED <<tree, committed, branch, decision>>
  /\ UNCHANGED loopVars

\* A feedback run that made no commit has nothing to publish: its answers are the
\* reply.
Answer ==
  /\ pc = "proposed" /\ lc.mode = "feedback"
  /\ result.commits = {}
  /\ pc' = "answered"
  /\ UNCHANGED <<tree, committed, branch, decision>>
  /\ UNCHANGED loopVars

\* Work that nothing checks is refused, unless the configuration allows it.
Unverified ==
  /\ pc = "proposed" /\ ~Verified
  /\ lc.mode = "implement" \/ result.commits # {}
  /\ decision' = [decision EXCEPT !.refused = TRUE]
  /\ pc' = "refused"
  /\ UNCHANGED <<tree, committed, branch, loopVars>>

\* A run that implements a task folds its own fixes.  git refuses over changes that
\* nobody committed, and when the fixes conflict; a fix without a target is still there
\* afterwards.  A refusal ends the decision, and can find the branch folded already: what
\* came of the rebase is looked at once it is done.
Fold ==
  /\ pc = "proposed" /\ lc.mode = "implement"
  /\ \/ /\ ChangedPaths = {} /\ Foldable(branch)
        /\ branch' = Folded(branch)
        /\ decision' = [decision EXCEPT !.unverified = ~Verified]
        /\ pc' = "inspect"
     \/ /\ UNCHANGED branch \/ (ChangedPaths = {} /\ branch' = Folded(branch))
        /\ decision' = [decision EXCEPT !.unverified = ~Verified, !.refused = TRUE]
        /\ pc' = "refused"
  /\ UNCHANGED <<tree, committed, loopVars>>

\* Mutant: a revision is folded like any other work.
KeepFolded ==
  /\ pc = "proposed" /\ lc.mode = "feedback"
  /\ result.commits # {}
  /\ branch' = Folded(branch)
  /\ decision' = [decision EXCEPT !.unverified = ~Verified]
  /\ pc' = "inspect"
  /\ UNCHANGED <<tree, committed, loopVars>>

\* A revision folds nothing.
Keep ==
  /\ pc = "proposed" /\ lc.mode = "feedback"
  /\ result.commits # {}
  /\ decision' = [decision EXCEPT !.unverified = ~Verified]
  /\ pc' = "inspect"
  /\ UNCHANGED <<tree, committed, branch, loopVars>>

\* Fixes pass the commit policy only in a revision.
Policy == lc.mode = "feedback" \/ \A c \in ToSet(branch) : ~c.fix

\* The log, the protected paths, the scanner and the policy.  With nothing on the
\* branch there is nothing to publish; any other refusal does not stop the checks.
Inspect ==
  /\ pc = "inspect"
  /\ IF branch = <<>>
     THEN decision' = [decision EXCEPT !.refused = TRUE] /\ pc' = "refused"
     ELSE /\ \E refused \in BOOLEAN :
               /\ ~Policy => refused
               /\ decision' = [decision EXCEPT !.refused = refused]
          /\ pc' = "gates"
  /\ UNCHANGED <<tree, committed, branch, loopVars>>

\* Mutant: the results of the publish gates are only recorded.
PublishGatesRecorded ==
  /\ pc = "gates"
  /\ ChecksWrite("publish")
  /\ \E g \in Checked("publish") : decision' = [decision EXCEPT !.gates = g]
  /\ pc' = IF decision.refused THEN "refused" ELSE "cleared"
  /\ UNCHANGED <<committed, branch, loopVars>>

PublishGates ==
  /\ pc = "gates"
  /\ ChecksWrite("publish")
  /\ \E g \in Checked("publish") :
       LET refused == decision.refused \/ Failed(g) IN
       /\ decision' = [decision EXCEPT !.gates = g, !.refused = refused]
       /\ pc' = IF refused THEN "refused" ELSE "cleared"
  /\ UNCHANGED <<committed, branch, loopVars>>

\* A call of the publisher's that is an error rather than a refusal.
Fail ==
  /\ pc \in Deciding
  /\ pc' = "broken"
  /\ UNCHANGED <<tree, committed, branch, loopVars, decision>>

Step ==
  \/ LifecycleStep /\ UNCHANGED decision
  \/ Answer \/ Unverified \/ Fold \/ Keep \/ Inspect \/ PublishGates \/ Fail

Over == pc \in (Ended \ {"proposed"}) \cup Decided

\* A run that is over stays so.
Next == Step \/ (Over /\ UNCHANGED allVars)

Spec == PInit /\ [][Next]_allVars

\* Steps and checks have a time limit, and git is taken to answer.
FairSpec == Spec /\ WF_allVars(Step)
-----------------------------------------------------------------------------
(***************************************************************************)
(* What a run's work can be trusted for.                                   *)
(***************************************************************************)
\* The checks of a step leave the files that git tracks as they are.
LeavesFiles(step) == step \notin lc.gates \cap Writers

\* What is judged, by a check, the verdict step or the publisher, is the commits the
\* branch had before the run and then commits the engine made, with nothing left
\* uncommitted: the agent's own commits were taken back and remade, and a pass whose
\* commits did not check out was never judged (steps.go, takeBack and makeCommits).
\* What the verdict step's own checks write, a run that implements a task finds out
\* when it folds, and a revision not at all (publish.go, Prepare).
JudgesCommittedWork ==
  pc \in {"check", "verdict"} \cup Deciding =>
    /\ \/ pc = "check"
       \/ LeavesFiles("verdict")
       \/ lc.mode = "implement" /\ pc \in {"inspect", "gates"}
       => ChangedPaths = {}
    /\ \A c \in ToSet(branch) : c.by # "agent"
    /\ lc.mode = "feedback" => IsPrefix(lc.before, branch)

\* What is cleared for publishing is what the last verdict passed and what every
\* check configured for judging or publishing passed on, whatever passes came before,
\* whatever was folded since and, in a run that implements a task, whatever the checks
\* before the verdict wrote (lifecycle.go, loop; publish.go, Prepare).
ClearedWasJudged ==
  pc = "cleared" =>
    /\ result.verdict.passed
    /\ "verdict" \in lc.gates => result.gates = <<[ok |-> TRUE, tree |-> result.verdict.tree]>>
    /\ "publish" \in lc.gates => \E t \in Trees : decision.gates = <<[ok |-> TRUE, tree |-> t]>>
    /\ lc.mode = "implement" \/ LeavesFiles("verdict") =>
         /\ result.verdict.tree = committed
         /\ "publish" \in lc.gates /\ LeavesFiles("publish") =>
              decision.gates = <<[ok |-> TRUE, tree |-> committed]>>

\* However a run ends short of an error, its result names every commit it left on
\* the branch and no other: the record, the reply and the count of fixes left to fold
\* are read from it (lifecycle.go, loop: "Every pass's commits, not the last pass's").
CommitsAreReported ==
  pc \in {"proposed", "blocked", "exhausted"} =>
    result.commits = Ids(branch) \ Ids(lc.before)

\* A change step is never shown the results of checks that ran on other files than
\* the ones it starts from (lifecycle.go, loop; steps.go, change).
ChecksShownAreCurrent ==
  pc = "agent" => \A i \in DOMAIN shown : shown[i].tree = tree

\* The last verdict is of the files as they are, and failed them without a defect.
FailedWithoutDefects ==
  result.verdict = [given |-> TRUE, passed |-> FALSE, defects |-> FALSE, tree |-> tree]

\* A pass after the first is told what was wrong with the one before it, not with an
\* earlier one; it is told nothing only if the step that judges failed the very files it
\* starts from and named no defect (lifecycle.go, loop).
EveryPassIsAnswered ==
  pc = "change" /\ pass > 1 =>
    /\ findings.pass = pass - 1
    /\ findings.from # "none" \/ FailedWithoutDefects

\* Every fix the engine makes is one git will fold, and into the commit it was made
\* for, on a branch whose own commits are told apart by their subjects (commit.go,
\* checkSubjects: "Folding a fix finds its target by subject").
ToldApart(commits) ==
  \A i, j \in DOMAIN commits :
    ~commits[i].fix /\ ~commits[j].fix /\ commits[i].subject = commits[j].subject => i = j

FixesFoldWhereMeant ==
  pc \in {"check", "proposed"} /\ ToldApart(lc.before) =>
    \A i \in DOMAIN branch :
      branch[i].fix /\ branch[i].by = "engine" =>
        /\ Candidates(branch, i) # {}
        /\ branch[Target(branch, i)].id = branch[i].of

\* No fix is published by a run that implements a task; every one of a revision's is
\* left for the reviewer (publish.go, Prepare).
FixesAreForReviewers ==
  pc = "cleared" =>
    \/ lc.mode = "feedback" /\ {c.id : c \in ToSet(branch)} = Ids(lc.before) \cup result.commits
    \/ lc.mode = "implement" /\ \A c \in ToSet(branch) : ~c.fix

-----------------------------------------------------------------------------
(***************************************************************************)
(* Publisher implements Attempt.                                           *)
(***************************************************************************)
\* How far the attempt is.
Stage ==
  CASE pc \in Working -> "working"
    [] pc \in {"inspect", "gates"} -> "deciding"
    [] OTHER -> pc

\* What an agent does to the branch is taken back before anything is made of it.
Work == IF pc \in {"agent", "takeback"} THEN start.branch ELSE branch

Attempted == INSTANCE Attempt
  WITH revising <- lc.mode = "feedback", before <- lc.before, stage <- Stage, work <- Work,
       reported <- result.commits

\* However its agents answer and whatever fails, a run only ever adds the engine's commits
\* to the branch, at the end, and reports them all; a fold loses no commit but fixes and
\* keeps the others in order; a revision is not folded; and what is left when a run breaks
\* is those commits, with at most one of an agent's on top or for the last (steps.go,
\* takeBack and makeCommits; publish.go, Prepare).
KeepsToTheAttempt == Attempted!Spec
-----------------------------------------------------------------------------
\* A run ends, however its steps answer (lifecycle.go, loop).
Ends == <>Over
-----------------------------------------------------------------------------
(***************************************************************************)
(* What the documentation says and the runs do not do.                     *)
(***************************************************************************)
\* "A lifecycle with neither is unverified" (docs/config.md), with neither a gate on
\* the verdict step nor publish gates: work that is cleared without the warning was
\* checked by something.
VerifiedMeansChecked ==
  pc = "cleared" /\ ~decision.unverified =>
    \E g \in ToSet(result.gates) \cup ToSet(decision.gates) : g.ok /\ g.tree = committed

\* "exhaustedBlockers says what was still outstanding when the passes ran out"
\* (convert.go): a run whose last pass failed its checks says that they failed.
BlockersAreOutstanding ==
  pc = "exhausted" /\ findings.from = "checks" => Blockers = "checks"
=============================================================================
