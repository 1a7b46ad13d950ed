------------------------------- MODULE Review -------------------------------
(***************************************************************************)
(* One pull request under review: `loomlc feedback` (internal/run/         *)
(* revise.go), which answers what the reviewers wrote, and `loomlc tidy`   *)
(* (internal/run/tidy.go), which folds the fixes that leaves, as processes *)
(* in one clone, against the pull request's labels, comments and branch    *)
(* (internal/forge/github), which people change too.  Each call that reads *)
(* or changes what another process changes is one action; the lifecycle,   *)
(* with the publisher after it, is one, as is a fold with its checks.      *)
(*                                                                         *)
(* Comments are numbered as they are posted.  A reply hides every comment  *)
(* posted before it from the runs after it, so of the replies only the     *)
(* last one's place among the comments is kept.                            *)
(***************************************************************************)
EXTENDS Worktree

CONSTANTS
  Procs,       \* the processes an operator, or a cron job, starts
  Proposed,    \* the branch the pull request has
  MaxComments, \* how many comments reviewers post
  MaxFeedbackItems, \* how many of them a run reads
  MaxWork,     \* how many changes are made to the branch
  Faults,      \* what can go wrong: a subset of FaultKinds
  People       \* what people do meanwhile: a subset of PeopleDo

FaultKinds ==
  { "refused",  \* a call fails and changes nothing
    "lost",     \* a call takes effect and is reported as failed
    "stop",     \* a first signal: the run's context is cancelled
    "kill" }    \* a second signal, or the machine going down

PeopleDo == { "comment", "ask", "push", "close", "clear", "unlock" }

Comments == 1..MaxComments
Changes == 1..MaxWork
Commits == [work : SUBSET Changes, fix : BOOLEAN]
Branches == Seq(Commits)

ASSUME ReviewAssumption ==
  /\ Keys = {"task", "output"}
  /\ MaxComments \in Nat \ {0}
  /\ MaxFeedbackItems \in Nat \ {0}
  /\ MaxWork \in Nat
  /\ NoBranch \notin Branches
  /\ Proposed \in Branches /\ Proposed # <<>> /\ ~Proposed[1].fix
  /\ Work(Proposed) = 1..Cardinality(Work(Proposed))
  /\ Faults \subseteq FaultKinds
  /\ People \subseteq PeopleDo

VARIABLES
  proc,   \* each process: where it is, and what it knows
  open,   \* the pull request is open
  asks,   \* its labels, of the two a feedback run reads
  posted, \* the comments posted so far
  cut,    \* the comments posted before the last reply
  heard,  \* history: the comments a run read and then replied to
  passed, \* history: the comments posted while a run was at work on earlier ones,
          \* or hidden by the reply of a run that broke
  remote, \* the branch on the remote
  made,   \* the changes made to the branch so far
  bare,   \* history: the changes made while a process had backed up without them
  lapse   \* history: a label edit went wrong, or a claimed run died

forgeVars == <<open, asks, posted, cut, heard, passed, lapse>>
workVars == <<made, bare>>
vars == <<proc, open, asks, posted, cut, heard, passed, remote, made, bare, lapse,
          tree, local, tracked, saved>>
-----------------------------------------------------------------------------
\* Where a run is: the call it makes next.
Steps ==
  { "off", "pick", "output", "feedback", "claim", "fetch", "remove", "save", "add",
    "revise", "push", "answer", "sorry", "labels", "log", "head", "squash", "force", "tell",
    "release" }

ProcState ==
  [ pc      : Steps,
    key     : Keys,                       \* the workspace's key, and so what the run is
    stopped : BOOLEAN,                    \* its context is cancelled
    housed  : BOOLEAN,                    \* it has a workspace to release
    read    : SUBSET Comments,            \* the feedback it read
    leased  : Branches \cup {NoBranch},   \* the commit it may replace
    replied : BOOLEAN,                    \* the reviewer was answered
    broke   : BOOLEAN ]                   \* the run is an error

Off ==
  [ pc |-> "off", key |-> "task", stopped |-> FALSE, housed |-> FALSE, read |-> {},
    leased |-> NoBranch, replied |-> FALSE, broke |-> FALSE ]

TypeOK ==
  /\ proc \in [Procs -> ProcState]
  /\ open \in BOOLEAN
  /\ asks \subseteq {"ready", "in-progress"}
  /\ posted \in 0..MaxComments /\ cut \in 0..posted
  /\ heard \subseteq Comments /\ passed \subseteq Comments
  /\ remote \in Branches
  /\ made \in 0..MaxWork /\ bare \subseteq Changes
  /\ lapse \in BOOLEAN
  /\ tree \in [Keys -> Directory]
  /\ local \in Branches \cup {NoBranch} /\ tracked \in Branches \cup {NoBranch}
  /\ saved \subseteq Changes

\* The pull request is open, the first comment is posted, and the label added.
Init ==
  /\ proc = [p \in Procs |-> Off]
  /\ open = TRUE /\ asks = {"ready"}
  /\ posted = 1 /\ cut = 0 /\ heard = {} /\ passed = {}
  /\ remote = Proposed
  /\ made = Cardinality(Work(Proposed)) /\ bare = {}
  /\ lapse = FALSE
  /\ tree = [k \in Keys |-> Nothing]
  /\ local = NoBranch /\ tracked = NoBranch
  /\ saved = {}
-----------------------------------------------------------------------------
(***************************************************************************)
(* Calls.  One made with the run's own context fails once the run is       *)
(* stopped; replies, and what is let go of, outlive a stop.                *)
(***************************************************************************)
CallFaults == Faults \cap {"refused", "lost"}

Outcomes(p) == IF proc[p].stopped THEN {"refused"} ELSE {"ok"} \cup CallFaults

CleanupOutcomes == {"ok"} \cup CallFaults

Landed(o) == o # "refused"

Revising(p) == proc[p].key = "task"

Goto(p, next) ==
  proc' = [proc EXCEPT ![p] = IF next = "off" THEN Off ELSE [@ EXCEPT !.pc = next]]

\* A run that has given its answer gives up its workspace, when it has one; one that
\* broke does too, and then has to say so.
AfterAnswer(p) == IF proc[p].housed THEN "release" ELSE "labels"

AfterError(p) ==
  IF proc[p].housed THEN "release" ELSE IF Revising(p) THEN "sorry" ELSE "off"

Done(p, next, broke) ==
  proc' = [proc EXCEPT ![p] =
    IF next = "off" THEN Off
    ELSE [@ EXCEPT !.pc = next, !.read = {}, !.leased = NoBranch, !.broke = broke,
                   !.replied = ~broke]]

Break(p) == Done(p, AfterError(p), TRUE)
-----------------------------------------------------------------------------
(***************************************************************************)
(* pick, Output, Feedback and ClaimFeedback.                               *)
(***************************************************************************)
\* An operator starts a feedback run of the next pull request that asks for one, or of
\* this one; or a tidy, which is always of a named one.
Start(p) ==
  /\ proc[p].pc = "off"
  /\ \E k \in Keys, first \in {"pick", "output"} :
       /\ first = "pick" => k = "task"
       /\ proc' = [proc EXCEPT ![p] = [Off EXCEPT !.pc = first, !.key = k]]
  /\ UNCHANGED <<forgeVars, remote, workVars, treeVars>>

Pick(p) ==
  /\ proc[p].pc = "pick"
  /\ \E o \in Outcomes(p) :
       Goto(p, IF o = "ok" /\ open /\ asks = {"ready"} THEN "output" ELSE "off")
  /\ UNCHANGED <<forgeVars, remote, workVars, treeVars>>

\* Neither works on a pull request that is closed.
Output(p) ==
  /\ proc[p].pc = "output"
  /\ \E o \in Outcomes(p) :
       Goto(p, IF o = "ok" /\ open THEN IF Revising(p) THEN "feedback" ELSE "fetch" ELSE "off")
  /\ UNCHANGED <<forgeVars, remote, workVars, treeVars>>

\* What was posted after the last reply.
Pending == (cut + 1)..posted

\* Of more than a run reads, the newest.
Newest == {c \in Pending : posted - c < MaxFeedbackItems}

\* Mutant: of several comments the newest is kept.
FeedbackNewest(p) ==
  /\ proc[p].pc = "feedback" /\ ~proc[p].stopped
  /\ \E next \in {"claim", "answer"} :
       /\ Pending = {} => next = "answer"
       /\ proc' = [proc EXCEPT ![p].pc = next, ![p].read = Pending \cap {posted}]
  /\ UNCHANGED <<forgeVars, remote, workVars, treeVars>>

\* What there is to answer, and the task it is for.  Without either, that is the answer.
Feedback(p) ==
  /\ proc[p].pc = "feedback"
  /\ \/ /\ ~proc[p].stopped
        /\ \E next \in {"claim", "answer"} :
             /\ Pending = {} => next = "answer"
             /\ proc' = [proc EXCEPT ![p].pc = next, ![p].read = Newest]
     \/ Outcomes(p) # {"ok"} /\ Break(p)
  /\ UNCHANGED <<forgeVars, remote, workVars, treeVars>>

ClaimFeedback(p) ==
  /\ proc[p].pc = "claim"
  /\ \E o \in Outcomes(p) :
       /\ asks' = IF Landed(o) THEN asks \cup {"in-progress"} ELSE asks
       /\ IF o = "ok" THEN Goto(p, "fetch") ELSE Break(p)
  /\ UNCHANGED <<open, posted, cut, heard, passed, lapse, remote, workVars, treeVars>>
-----------------------------------------------------------------------------
(***************************************************************************)
(* The workspace, on the branch as it is on the remote.                    *)
(***************************************************************************)
\* A command of Prepare works and the next one has its turn, or the run breaks.
Prepare(p, here, possible, command, next) ==
  /\ proc[p].pc = here
  /\ \/ ~proc[p].stopped /\ command /\ Goto(p, next)
     \/ /\ ~possible \/ Outcomes(p) # {"ok"}
        /\ Break(p)
        /\ UNCHANGED treeVars
  /\ UNCHANGED <<forgeVars, remote, workVars>>

Fetch(p) == Prepare(p, "fetch", TRUE, FetchBranch(remote), "remove")

RemoveOld(p) ==
  Prepare(p, "remove", Removable(proc[p].key), RemoveTree(proc[p].key), "save")

Save(p) == Prepare(p, "save", TRUE, BackUpAttempt, "add")

\* The worktree, and its base.  When either fails the run has no workspace to release,
\* though the branch can have moved, and the worktree can be there.
AddNew(p) ==
  LET k == proc[p].key IN
  /\ proc[p].pc = "add"
  /\ \/ /\ ~proc[p].stopped
        /\ AddTree(k)
        /\ proc' = [proc EXCEPT ![p].pc = IF Revising(p) THEN "revise" ELSE "log",
                                ![p].housed = TRUE]
     \/ /\ ~Addable(k) \/ Outcomes(p) # {"ok"}
        /\ Break(p)
        /\ UNCHANGED treeVars
     \/ /\ {"lost", "stop"} \cap Faults # {} /\ ~proc[p].stopped
        /\ Break(p)
        /\ \/ AddTree(k)
           \/ Addable(k) /\ local' = tracked /\ UNCHANGED <<tree, tracked, saved>>
  /\ UNCHANGED <<forgeVars, remote, workVars>>

InDir(p) == Workable(proc[p].key)
-----------------------------------------------------------------------------
(***************************************************************************)
(* A revision: the lifecycle, the decision, the push, and the answer.      *)
(***************************************************************************)
\* The processes that are about to move the branch, with what they saw of it kept.
Exposing(p) == \E q \in Procs \ {p} : proc[q].pc = "add"

\* The lifecycle makes a commit, or none, and the publisher clears it for the push; or
\* one of them ends without, or breaks.  What was made stays on the branch.
Revise(p) ==
  /\ proc[p].pc = "revise"
  /\ \/ /\ InDir(p) /\ ~proc[p].stopped /\ made < MaxWork
        /\ made' = made + 1
        /\ \E fix \in BOOLEAN : local' = Append(local, [work |-> {made + 1}, fix |-> fix])
        /\ bare' = IF Exposing(p) THEN bare \cup {made + 1} ELSE bare
        /\ Goto(p, "push") \/ Goto(p, "answer") \/ Break(p)
        /\ UNCHANGED <<tree, tracked, saved>>
     \/ /\ Break(p) \/ (InDir(p) /\ Goto(p, "answer"))
        /\ UNCHANGED <<workVars, treeVars>>
  /\ UNCHANGED <<forgeVars, remote>>

\* A push sends the clone's branch, and never forces.
Push(p) ==
  /\ proc[p].pc = "push"
  /\ \/ /\ InDir(p) /\ local # NoBranch /\ IsPrefix(remote, local)
        /\ \E o \in Outcomes(p) \ {"refused"} :
             /\ remote' = local
             /\ tracked' \in IF o = "ok" THEN {local} ELSE {local, tracked}
             /\ IF o = "ok" THEN Goto(p, "answer") ELSE Break(p)
     \/ /\ ~InDir(p) \/ local = NoBranch \/ ~IsPrefix(remote, local) \/ "refused" \in Outcomes(p)
        /\ Break(p)
        /\ UNCHANGED <<remote, tracked>>
  /\ UNCHANGED <<forgeVars, workVars, tree, local, saved>>

\* Mutant: a comment posted in the same second as the reply, after it, is hidden too.
ReplyLater == cut' = posted + 1

\* A reply hides what was posted before it from every later run.
Reply == cut' = posted

\* Mutant: a reply that is reported as failed is given again.
AnswerAgain(p) ==
  /\ proc[p].pc = "answer"
  /\ \E o \in CleanupOutcomes :
       /\ IF Landed(o) THEN Reply /\ heard' = heard \cup proc[p].read
          ELSE UNCHANGED <<cut, heard>>
       /\ IF o = "ok" THEN Done(p, AfterAnswer(p), FALSE) ELSE Goto(p, "answer")
  /\ UNCHANGED <<open, asks, posted, passed, lapse, remote, workVars, treeVars>>

\* The reply, which also says why nothing was pushed.
Answer(p) ==
  /\ proc[p].pc = "answer"
  /\ \E o \in CleanupOutcomes :
       /\ IF Landed(o) THEN Reply /\ heard' = heard \cup proc[p].read
          ELSE UNCHANGED <<cut, heard>>
       /\ IF o = "ok" THEN Done(p, AfterAnswer(p), FALSE) ELSE Break(p)
  /\ UNCHANGED <<open, asks, posted, passed, lapse, remote, workVars, treeVars>>

\* A run that broke before it could answer says so.
Sorry(p) ==
  /\ proc[p].pc = "sorry"
  /\ \E o \in CleanupOutcomes :
       IF Landed(o) THEN Reply /\ passed' = passed \cup Pending
       ELSE UNCHANGED <<cut, passed>>
  /\ Goto(p, "labels")
  /\ UNCHANGED <<open, asks, posted, heard, lapse, remote, workVars, treeVars>>

\* Mutant: the labels come off once the reviewer was answered.
ReleaseAnswered(p) ==
  /\ proc[p].pc = "labels"
  /\ \E o \in CleanupOutcomes :
       /\ asks' = IF Landed(o) /\ proc[p].replied THEN {} ELSE asks
       /\ lapse' = (lapse \/ (~Landed(o) /\ "in-progress" \in asks))
  /\ Goto(p, "off")
  /\ UNCHANGED <<open, posted, cut, heard, passed, remote, workVars, treeVars>>

\* Both labels come off, however the run ended.
ReleaseFeedback(p) ==
  /\ proc[p].pc = "labels"
  /\ \E o \in CleanupOutcomes :
       /\ asks' = IF Landed(o) THEN {} ELSE asks
       /\ lapse' = (lapse \/ (~Landed(o) /\ "in-progress" \in asks))
  /\ Goto(p, "off")
  /\ UNCHANGED <<open, posted, cut, heard, passed, remote, workVars, treeVars>>
-----------------------------------------------------------------------------
(***************************************************************************)
(* A tidy: what there is to fold, the fold, and the push that replaces.    *)
(***************************************************************************)
HasFixes(branch) == \E c \in ToSet(branch) : c.fix

\* Which of the folded commits the i-th goes into, as itself or as a fix: the last before
\* it that is not one.  The first commit is not.
Place(branch, i) == Cardinality({j \in 1..i : ~branch[j].fix})

Fold(branch) ==
  [n \in 1..Place(branch, Len(branch)) |->
     [ work |-> UNION {branch[i].work : i \in {j \in DOMAIN branch : Place(branch, j) = n}},
       fix  |-> FALSE ]]

\* A look at the workspace's branch works, or the run breaks.
Look(p, here, look) ==
  /\ proc[p].pc = here
  /\ \/ InDir(p) /\ ~proc[p].stopped /\ look
     \/ (~InDir(p) \/ Outcomes(p) # {"ok"}) /\ Break(p)
  /\ UNCHANGED <<forgeVars, remote, workVars, treeVars>>

\* Without a fix there is nothing to fold.
Log(p) == Look(p, "log", Goto(p, IF HasFixes(local) THEN "head" ELSE "release"))

\* Where the branch is, which is all that the push may replace.
Lease(p) ==
  Look(p, "head", proc' = [proc EXCEPT ![p].pc = "squash", ![p].leased = local])

\* The fold, and the policy over what came out of it.  Either can refuse, which is told;
\* a run that was stopped is an error.
Autosquash(p) ==
  /\ proc[p].pc = "squash"
  /\ \/ /\ InDir(p) /\ ~proc[p].stopped
        /\ local' = Fold(local)
        /\ Goto(p, "force") \/ Goto(p, "tell") \/ ("stop" \in Faults /\ Break(p))
     \/ /\ IF proc[p].stopped THEN Break(p) ELSE Goto(p, "tell")
        /\ UNCHANGED local
  /\ UNCHANGED <<forgeVars, remote, workVars, tree, tracked, saved>>

\* Mutant: the lease is on what the clone knows of the remote.
ForcePushTracked(p) ==
  /\ proc[p].pc = "force"
  /\ \/ /\ InDir(p) /\ local # NoBranch /\ remote = tracked
        /\ remote' = local /\ tracked' = local
        /\ Goto(p, "tell")
     \/ /\ Break(p)
        /\ UNCHANGED <<remote, tracked>>
  /\ UNCHANGED <<forgeVars, workVars, tree, local, saved>>

\* The clone's branch replaces the one on the remote while that is what was leased.
ForcePush(p) ==
  /\ proc[p].pc = "force"
  /\ \/ /\ InDir(p) /\ local # NoBranch /\ remote = proc[p].leased
        /\ \E o \in Outcomes(p) \ {"refused"} :
             /\ remote' = local
             /\ tracked' \in IF o = "ok" THEN {local} ELSE {local, tracked}
             /\ IF o = "ok" THEN Goto(p, "tell") ELSE Break(p)
     \/ /\ ~InDir(p) \/ local = NoBranch \/ remote # proc[p].leased \/ "refused" \in Outcomes(p)
        /\ Break(p)
        /\ UNCHANGED <<remote, tracked>>
  /\ UNCHANGED <<forgeVars, workVars, tree, local, saved>>

\* What it did is said on the pull request, and is no reply.
Tell(p) ==
  /\ proc[p].pc = "tell"
  /\ \E o \in CleanupOutcomes : Done(p, "release", o # "ok")
  /\ UNCHANGED <<forgeVars, remote, workVars, treeVars>>
-----------------------------------------------------------------------------
\* A workspace is released as an old one is removed; a failure is only said.
Release(p) ==
  LET k == proc[p].key IN
  /\ proc[p].pc = "release"
  /\ \/ RemoveTree(k)
     \/ /\ ~Removable(k) \/ CallFaults # {}
        /\ UNCHANGED treeVars
  /\ Goto(p, IF ~Revising(p) THEN "off" ELSE IF proc[p].broke THEN "sorry" ELSE "labels")
  /\ UNCHANGED <<forgeVars, remote, workVars>>
-----------------------------------------------------------------------------
(***************************************************************************)
(* What happens to a run from outside, and what people do.                 *)
(***************************************************************************)
\* A feedback run that may have put the in-progress label there, and will clear it.
Holds(p) ==
  Revising(p) /\ proc[p].pc \notin {"off", "pick", "output", "feedback"}

\* A feedback run whose reply is still to come, for what it read.
AtWork(p) ==
  /\ Revising(p) /\ ~proc[p].replied
  /\ proc[p].pc \notin {"off", "pick", "output", "feedback", "labels"}

Stop(p) ==
  /\ "stop" \in Faults
  /\ proc[p].pc # "off" /\ ~proc[p].stopped
  /\ proc' = [proc EXCEPT ![p].stopped = TRUE]
  /\ UNCHANGED <<forgeVars, remote, workVars, treeVars>>

Kill(p) ==
  /\ "kill" \in Faults
  /\ proc[p].pc # "off"
  /\ \/ UNCHANGED treeVars
     \/ proc[p].pc = "add" /\ AddTreeCutShort(proc[p].key)
     \/ proc[p].pc \in {"remove", "release"} /\ RemoveTreeCutShort(proc[p].key)
  /\ lapse' = (lapse \/ Holds(p))
  /\ Goto(p, "off")
  /\ UNCHANGED <<open, asks, posted, cut, heard, passed, remote, workVars>>

Comment ==
  /\ "comment" \in People /\ posted < MaxComments
  /\ posted' = posted + 1
  /\ passed' = IF \E p \in Procs : AtWork(p) THEN passed \cup {posted + 1} ELSE passed
  /\ UNCHANGED <<proc, open, asks, cut, heard, lapse, remote, workVars, treeVars>>

Ask ==
  /\ "ask" \in People
  /\ asks' = asks \cup {"ready"}
  /\ UNCHANGED <<proc, open, posted, cut, heard, passed, lapse, remote, workVars, treeVars>>

\* A commit of someone's own, from another clone.
PushCommit ==
  /\ "push" \in People /\ made < MaxWork
  /\ made' = made + 1
  /\ remote' = Append(remote, [work |-> {made + 1}, fix |-> FALSE])
  /\ UNCHANGED <<proc, forgeVars, bare, treeVars>>

Close ==
  /\ "close" \in People /\ open
  /\ open' = FALSE
  /\ UNCHANGED <<proc, asks, posted, cut, heard, passed, lapse, remote, workVars, treeVars>>

\* Clearing labels that no run will.
Clear ==
  /\ "clear" \in People /\ asks # {}
  /\ \A p \in Procs : ~Holds(p)
  /\ asks' = {} /\ lapse' = FALSE
  /\ UNCHANGED <<proc, open, posted, cut, heard, passed, remote, workVars, treeVars>>

Unlock(k) ==
  /\ "unlock" \in People /\ tree[k].locked
  /\ tree' = [tree EXCEPT ![k].locked = FALSE]
  /\ UNCHANGED <<proc, forgeVars, remote, workVars, local, tracked, saved>>
-----------------------------------------------------------------------------
Step(p) ==
  \/ Pick(p) \/ Output(p) \/ Feedback(p) \/ ClaimFeedback(p)
  \/ Fetch(p) \/ RemoveOld(p) \/ Save(p) \/ AddNew(p)
  \/ Revise(p) \/ Push(p) \/ Answer(p) \/ Sorry(p) \/ ReleaseFeedback(p)
  \/ Log(p) \/ Lease(p) \/ Autosquash(p) \/ ForcePush(p) \/ Tell(p) \/ Release(p)

Person ==
  Comment \/ Ask \/ PushCommit \/ Close \/ Clear \/ \E k \in Keys : Unlock(k)

Next ==
  \/ \E p \in Procs : Start(p) \/ Step(p) \/ Stop(p) \/ Kill(p)
  \/ Person

Spec == Init /\ [][Next]_vars
-----------------------------------------------------------------------------
(***************************************************************************)
(* What a reviewer can count on.                                           *)
(***************************************************************************)
\* The branch under review only ever gets commits at its end, or is replaced by the same
\* changes with their fixes folded or not: no run overwrites what someone pushed while it
\* worked (commit.go, Push and ForcePushWithLease; tidy.go, fold).  A fold can be undone:
\* what a tidy leases is its workspace's branch, which another tidy may have folded and,
\* its push taken for failed, a third reset.
GrowsOrFolds == [][IsPrefix(remote, remote') \/ Fold(remote') = Fold(remote)]_vars

\* No change that was ever committed is lost: it is on the remote, on the clone's
\* branch, or among the saved attempts, but for one that was made while another process
\* was about to move the branch (worktree.go, Prepare: "Commits on the local branch that
\* aren't on the remote are saved").
WorkIsKept == 1..made \ bare \subseteq Work(remote) \cup Work(local) \cup saved

\* The in-progress label is there because a run will clear it, or because a label edit
\* failed or the run was killed (revise.go, Revise and releaseLabels).
RequestAccounted == "in-progress" \in asks => lapse \/ \E p \in Procs : Holds(p)

\* A comment that no later run will be shown was read by one that replied to it; or it
\* was posted while a run was at work on earlier ones, or before the reply of one that
\* broke; or it made way for as many newer ones as a run reads, and those were answered.
\* No tidy hides one (revise.go, answer; github.go, Feedback and conversation).
HiddenWasHeard ==
  \A c \in 1..cut \ (heard \cup passed) :
    Cardinality({d \in heard : d > c}) >= MaxFeedbackItems

\* Runs keep to Conversation: whatever fails and however they interleave, a reply is
\* given once and hides only what was answered or is excused, a run that broke says so
\* at most once, and the labels come off last (revise.go, Revise and answer).
Stage(p) ==
  IF AtWork(p) THEN IF proc[p].broke THEN "sorry" ELSE "working"
  ELSE IF Holds(p) THEN "leaving" ELSE "away"
Talk == INSTANCE Conversation
          WITH Runs <- Procs, hidden <- 1..cut, excused <- passed,
               at <- [p \in Procs |-> Stage(p)], notes <- [p \in Procs |-> proc[p].read]
KeepsTheConversation == Talk!Spec
-----------------------------------------------------------------------------
(***************************************************************************)
(* What the code's comments say and its runs do not do.                    *)
(***************************************************************************)
\* "A reviewer asks again by adding the label back" (revise.go): when nothing was ever
\* answered, asking again has something to answer.
AskingAgainWorks ==
  "ready" \in asks /\ heard = {} /\ (\A p \in Procs : proc[p].pc = "off") =>
    Pending # {}
=============================================================================
