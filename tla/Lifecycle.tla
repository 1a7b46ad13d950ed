------------------------------ MODULE Lifecycle ------------------------------
(***************************************************************************)
(* One run of a lifecycle over one task (internal/lifecycle): a plan, then *)
(* passes of a change step and the step that judges it, until the          *)
(* judgement passes or the passes run out; or, in a feedback run, the same *)
(* passes over a branch that is already proposed.  The agents' answers and *)
(* edits are inputs; the commits, the findings and what is carried from    *)
(* one pass to the next are the engine's.                                  *)
(*                                                                         *)
(* Files are paths with the number of the pass whose agent last wrote      *)
(* them, or one more than there are passes for a file as a check leaves    *)
(* it: a formatter or a generator, which leaves alone what it wrote, and   *)
(* which judges the files that it leaves.                                  *)
(***************************************************************************)
EXTENDS CommitCheck

CONSTANTS
  Paths,      \* the files of the repository
  MaxPasses,  \* the cap on the loop
  MaxAsked,   \* the most commits an answer asks for
  Proposals,  \* the branches a feedback run may find, without their trees
  Gatings,    \* which of GatedSteps have checks configured: a set of their subsets
  Writers     \* those of GatedSteps whose checks may write files that git tracks

GatedSteps == { "plan", "change", "verdict", "publish" }

ASSUME LifecycleAssumption ==
  /\ MaxPasses \in Nat \ {0}
  /\ MaxAsked \in Nat
  /\ Gatings \subseteq SUBSET GatedSteps
  /\ Writers \subseteq GatedSteps

VARIABLES
  lc,        \* the run: its mode, its gates, and the branch it started on
  pc,        \* the call it makes next, or how it ended
  pass,      \* the pass it is on
  tree,      \* the files in the workspace
  committed, \* the files at HEAD
  branch,    \* the commits after the base
  start,     \* the change step's: the branch and the files at HEAD it began with
  shown,     \* the change step's: the results of checks in its prompt
  gates,     \* the loop's: the checks the next change step is shown
  findings,  \* the loop's: what the next change step is told
  result     \* what the run produced

loopVars == <<lc, pass, start, shown, gates, findings, result>>
vars == <<lc, pc, pass, tree, committed, branch, start, shown, gates, findings, result>>
-----------------------------------------------------------------------------
Rewritten == MaxPasses + 1

Trees == [Paths -> 0..Rewritten]

Untouched == [p \in Paths |-> 0]

\* What commits are called: as the policy would have it, as the people before this run
\* called theirs, or as an agent does.
Subjects ==
  Acceptable \cup {"theirs"} \cup UNION {{b[i].subject : i \in DOMAIN b} : b \in Proposals}

\* A commit: its id, who made it, what it is called, and the commit it fixes.
Commits == [ id : Nat, by : {"engine", "agent", "person"}, subject : Subjects,
             fix : BOOLEAN, of : Nat ]

\* A branch is proposed with its commits numbered in their order, whoever made them
\* before this run.
ASSUME ProposalsAssumption ==
  /\ Proposals \subseteq Seq(Commits)
  /\ \A b \in Proposals : \A i \in DOMAIN b : b[i].id = i /\ b[i].by = "person"

\* The results of a step's checks: none, or whether they passed and on what.
Results == Seq([ok : BOOLEAN, tree : Trees])

\* What a pass left to answer, which can be nothing, and which pass it was.
Finding == [from : {"none", "commits", "checks", "verdict"}, pass : 0..MaxPasses]

NothingFound == [from |-> "none", pass |-> 0]

\* The last verdict: whether it passed, what it found, and the files it judged.
Verdicts == [given : BOOLEAN, passed : BOOLEAN, defects : BOOLEAN, tree : Trees]

NoVerdict == [given |-> FALSE, passed |-> FALSE, defects |-> FALSE, tree |-> Untouched]

Ended == { "proposed", "blocked", "exhausted", "broken" }

Working ==
  { "plangate", "plan", "change", "agent", "takeback", "commits", "check", "verdict" }

NotBegun == [branch |-> <<>>, committed |-> Untouched]

LifecycleTypeOK ==
  /\ lc \in [mode : {"implement", "feedback"}, gates : Gatings, before : Seq(Commits)]
  /\ pass \in 1..MaxPasses
  /\ tree \in Trees /\ committed \in Trees
  /\ branch \in Seq(Commits)
  /\ start \in [branch : Seq(Commits), committed : Trees]
  /\ shown \in Results /\ gates \in Results
  /\ findings \in Finding
  /\ result \in [ change : {"none", "complete", "needs_more", "blocked"}, verdict : Verdicts,
                  gates : Results, commits : SUBSET Nat ]

\* A run that implements a task starts on its base; one that answers a review, on
\* the commits that were proposed.
Init ==
  /\ \E g \in Gatings :
       \/ /\ lc = [mode |-> "implement", gates |-> g, before |-> <<>>]
          /\ pc = "plangate"
       \/ \E b \in Proposals :
            /\ lc = [mode |-> "feedback", gates |-> g, before |-> b]
            /\ pc = "change"
  /\ pass = 1
  /\ tree = Untouched /\ committed = Untouched
  /\ branch = lc.before
  /\ start = NotBegun
  /\ shown = <<>> /\ gates = <<>>
  /\ findings = NothingFound
  /\ result = [change |-> "none", verdict |-> NoVerdict, gates |-> <<>>, commits |-> {}]
-----------------------------------------------------------------------------
\* What a step's checks may do to the workspace.
ChecksWrite(step) ==
  IF step \in lc.gates \cap Writers
  THEN tree' \in {t \in Trees : \A p \in Paths : t[p] \in {tree[p], Rewritten}}
  ELSE UNCHANGED tree

\* What they may say of it; without any, nothing.
Checked(step) ==
  IF step \in lc.gates THEN { <<[ok |-> b, tree |-> tree']>> : b \in BOOLEAN } ELSE { <<>> }

Failed(results) == \E i \in DOMAIN results : ~results[i].ok

ChangedPaths == {p \in Paths : tree[p] # committed[p]}

\* Mutant: the last pass is not counted.
AgainOnceMore(found) ==
  /\ findings' = [from |-> found, pass |-> pass]
  /\ pass' = pass + 1
  /\ pc' = IF pass <= MaxPasses THEN "change" ELSE "exhausted"

\* Mutant: a pass whose commits were refused does not count as one.
AgainForFree(found) ==
  /\ findings' = [from |-> found, pass |-> pass]
  /\ IF found = "commits" THEN pc' = "change" /\ UNCHANGED pass
     ELSE IF pass < MaxPasses THEN pc' = "change" /\ pass' = pass + 1
     ELSE pc' = "exhausted" /\ UNCHANGED pass

\* The pass came to nothing: the next one answers for it, or there is none.
Again(found) ==
  /\ findings' = [from |-> found, pass |-> pass]
  /\ IF pass < MaxPasses
     THEN pc' = "change" /\ pass' = pass + 1
     ELSE pc' = "exhausted" /\ UNCHANGED pass

\* The plan step's checks; planning against a tree that fails them is refused.
PlanGates ==
  /\ pc = "plangate"
  /\ ChecksWrite("plan")
  /\ \E g \in Checked("plan") :
       /\ gates' = g
       /\ result' = [result EXCEPT !.gates = g]
       /\ pc' = IF Failed(g) THEN "blocked" ELSE "plan"
  /\ UNCHANGED <<lc, pass, committed, branch, start, shown, findings>>

Plan ==
  /\ pc = "plan"
  /\ pc' \in {"change", "blocked"}
  /\ UNCHANGED <<tree, committed, branch>>
  /\ UNCHANGED loopVars

\* A pass begins: where HEAD is, and the checks its prompt will show.
Change ==
  /\ pc = "change"
  /\ start' = [branch |-> branch, committed |-> committed]
  /\ ChecksWrite("change")
  /\ shown' \in IF "change" \in lc.gates THEN Checked("change") ELSE {gates}
  /\ pc' = "agent"
  /\ UNCHANGED <<lc, pass, committed, branch, gates, findings, result>>

\* What an agent may leave in a file: as it was, as it is at HEAD, or new.
Edits == {t \in Trees : \A p \in Paths : t[p] \in {tree[p], committed[p], pass}}

RogueCommit ==
  [id |-> 0, by |-> "agent", subject |-> "theirs", fix |-> FALSE, of |-> 0]

\* The change step: the agent edits, may commit on its own or rewrite the last
\* commit, and answers.
Agent ==
  /\ pc = "agent"
  /\ tree' \in Edits
  /\ \/ UNCHANGED <<branch, committed>>
     \/ /\ \/ branch' = Append(branch, RogueCommit)
           \/ branch # <<>> /\ branch' = Append(Front(branch), RogueCommit)
        /\ committed' = tree'
  /\ \E status \in {"complete", "needs_more", "blocked"} :
       result' = [result EXCEPT !.change = status]
  /\ pc' = "takeback"
  /\ UNCHANGED <<lc, pass, start, shown, gates, findings>>

\* Mutant: only a HEAD that is ahead is taken back.
TakeBackAdditions ==
  /\ pc = "takeback"
  /\ IF Len(branch) > Len(start.branch)
     THEN branch' = start.branch /\ committed' = start.committed
     ELSE UNCHANGED <<branch, committed>>
  /\ start' = NotBegun /\ shown' = <<>>
  /\ pc' = IF result.change = "blocked" THEN "blocked" ELSE "commits"
  /\ UNCHANGED <<lc, pass, tree, gates, findings, result>>

\* HEAD goes back to where the pass began; the files stay.
TakeBack ==
  /\ pc = "takeback"
  /\ branch' = start.branch /\ committed' = start.committed
  /\ start' = NotBegun /\ shown' = <<>>
  /\ pc' = IF result.change = "blocked" THEN "blocked" ELSE "commits"
  /\ UNCHANGED <<lc, pass, tree, gates, findings, result>>
-----------------------------------------------------------------------------
\* What an answer may ask for: new work, under a name that the policy may refuse, or a fix
\* of what its SHA stands for: a commit on the branch, none, or any of them.
Asked ==
  [ paths : SUBSET Paths, fix : {FALSE}, subject : Acceptable \cup {""}, names : {{}} ] \cup
  [ paths : SUBSET Paths, fix : {TRUE}, subject : {""},
    names : {{branch[i].id} : i \in DOMAIN branch} \cup {{}, {branch[i].id : i \in DOMAIN branch}} ]

Answers(n) == [1..n -> Asked]

\* The n-th commit asked for, once made.
Made(asked, n) ==
  LET of == IF asked[n].fix THEN CHOOSE i \in DOMAIN branch : branch[i].id \in asked[n].names
            ELSE 0
  IN [ id      |-> Len(branch) + n,
       by      |-> "engine",
       subject |-> IF asked[n].fix THEN branch[of].subject ELSE asked[n].subject,
       fix     |-> asked[n].fix,
       of      |-> IF asked[n].fix THEN branch[of].id ELSE 0 ]

\* The first n commits asked for are on the branch.
Commit(asked, n) ==
  /\ branch' = branch \o [k \in 1..n |-> Made(asked, k)]
  /\ committed' = [p \in Paths |->
       IF \E k \in 1..n : p \in asked[k].paths THEN tree[p] ELSE committed[p]]

\* Mutant: the checks of an earlier tree are kept for the next prompt.
RefuseKeepingChecks == Again("commits") /\ UNCHANGED gates

\* Nothing is committed: the next pass is told why, and shown no checks.
Refuse == Again("commits") /\ gates' = <<>>

Ids(commits) == {c.id : c \in ToSet(commits)}

\* Mutant: the last pass's commits are the run's.
RecordLast == result' = [result EXCEPT !.commits = Ids(branch') \ Ids(branch)]

\* The commits that were not there before are added to those of the passes before.
Record == result' = [result EXCEPT !.commits = @ \cup (Ids(branch') \ Ids(branch))]

\* All of the commits, once they check out, or none; git can still fail at one, or
\* at reading them back.
MakeCommits ==
  /\ pc = "commits"
  /\ \/ /\ ~\A n \in 0..MaxAsked : \A asked \in Answers(n) : Check(asked, ChangedPaths, branch)
        /\ Refuse
        /\ UNCHANGED <<branch, committed, result>>
     \/ \E m \in 0..MaxAsked : \E asked \in Answers(m) :
          /\ Check(asked, ChangedPaths, branch)
          /\ \/ /\ Commit(asked, Len(asked))
                /\ Record
                /\ pc' = "check"
             \/ /\ \E n \in 1..Len(asked) : Commit(asked, n)
                /\ pc' = "broken"
                /\ UNCHANGED result
          /\ UNCHANGED <<pass, gates, findings>>
  /\ UNCHANGED <<lc, tree, start, shown>>

\* Mutant: a failed check skips the verdict and says nothing.
VerdictGatesSilent ==
  /\ pc = "check"
  /\ ChecksWrite("verdict")
  /\ \E g \in Checked("verdict") :
       /\ gates' = g
       /\ result' = [result EXCEPT !.gates = g]
       /\ pc' = IF ~Failed(g) THEN "verdict" ELSE IF pass < MaxPasses THEN "change" ELSE "exhausted"
       /\ pass' = IF Failed(g) /\ pass < MaxPasses THEN pass + 1 ELSE pass
  /\ UNCHANGED <<lc, committed, branch, start, shown, findings>>

\* The verdict step's checks; a failure is work for the next pass.
VerdictGates ==
  /\ pc = "check"
  /\ ChecksWrite("verdict")
  /\ \E g \in Checked("verdict") :
       /\ gates' = g
       /\ result' = [result EXCEPT !.gates = g]
       /\ IF Failed(g) THEN Again("checks")
          ELSE pc' = "verdict" /\ UNCHANGED <<pass, findings>>
  /\ UNCHANGED <<lc, committed, branch, start, shown>>

\* The step that judges.  One that fails may say what is wrong or not: no defects is an
\* answer like any other, and then the next pass is told nothing.
Verdict ==
  /\ pc = "verdict"
  /\ \E passed, defects \in BOOLEAN :
       /\ result' = [result EXCEPT !.verdict =
            [given |-> TRUE, passed |-> passed, defects |-> defects, tree |-> tree]]
       /\ IF passed THEN pc' = "proposed" /\ UNCHANGED <<pass, findings>>
          ELSE Again(IF defects THEN "verdict" ELSE "none")
  /\ UNCHANGED <<lc, tree, committed, branch, start, shown, gates>>

\* A call that fails, a record that cannot be written, an answer of another shape.
Break ==
  /\ pc \in Working
  /\ pc' = "broken"
  /\ UNCHANGED <<tree, committed, branch>>
  /\ UNCHANGED loopVars

LifecycleStep ==
  \/ PlanGates \/ Plan \/ Change \/ Agent \/ TakeBack \/ MakeCommits
  \/ VerdictGates \/ Verdict \/ Break

\* What an exhausted run says was still outstanding.
Blockers ==
  IF result.verdict.given /\ result.verdict.defects THEN "verdict"
  ELSE IF Failed(result.gates) THEN "checks"
  ELSE "passes"
=============================================================================
