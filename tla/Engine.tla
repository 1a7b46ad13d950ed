------------------------------- MODULE Engine -------------------------------
(***************************************************************************)
(* `loomlc run`: several operating-system processes, each taking one task  *)
(* from one GitHub repository to a pull request or to a comment saying why *)
(* there is none (internal/run/engine.go, internal/run/output.go), against *)
(* the issue labels, pull requests and branches they share                 *)
(* (internal/forge/github) and the one checkout they work in               *)
(* (internal/executor/worktree).  Each call a run makes is one action, so  *)
(* everything other runs and people do can happen between two of them.     *)
(*                                                                         *)
(* The lifecycle's steps and the publisher's checks are single actions     *)
(* here, Implement and Check, with the outcomes of an Attempt.             *)
(***************************************************************************)
EXTENDS Integers, FiniteSets, Sequences, SequencesExt

CONSTANTS
  Runs,           \* the processes an operator, or a cron job, starts
  Tasks,          \* issue numbers
  Named,          \* the tasks an operator names on the command line
  MaxOpenOutputs, \* the cap; zero never stops a run
  NoBranch,       \* what the remote has of a branch it does not have
  Faults,         \* what can go wrong: a subset of FaultKinds
  People          \* what people do on the forge meanwhile: a subset of PeopleDo

FaultKinds ==
  { "refused",  \* a call fails and changes nothing
    "lost",     \* a call takes effect and is reported as failed
    "stop",     \* a first signal: the run's context is cancelled
    "kill" }    \* a second signal, or the machine going down

PeopleDo == { "merge", "close", "reopen", "retry", "unclaim", "delete" }

ASSUME EngineAssumption ==
  /\ Tasks \subseteq Nat \ {0}
  /\ IsFiniteSet(Tasks)
  /\ IsFiniteSet(Runs)
  /\ Named \subseteq Tasks
  /\ MaxOpenOutputs \in Nat
  /\ NoBranch \notin Seq(Runs)
  /\ Faults \subseteq FaultKinds
  /\ People \subseteq PeopleDo

VARIABLES
  run,     \* each process: where it is, and what it knows
  live,    \* the issues that are open
  labels,  \* each issue's labels, of the four loomlc reads
  pr,      \* each task's pull request: "none", "open" or "closed"
  remote,  \* the commits of each task's branch on the remote
  local,   \* the commits of the same branch in the checkout, after its base
  dir,     \* the tasks whose workspace directory is there
  lapse,   \* history: the tasks on which a label edit went wrong, or a run died
  shared   \* history: the tasks that were claimed while another run had them

vars == <<run, live, labels, pr, remote, local, dir, lapse, shared>>
-----------------------------------------------------------------------------
Labels == { "trigger", "in-progress", "done", "failed" }
Taken == { "in-progress", "done", "failed" }

NoTask == 0

\* A branch is the commits after its base, each by who made it.
Branches == Seq(Runs)

\* Where a run is: the call it makes next.
Steps ==
  { "off", "outputs", "claims", "next", "get", "claim", "pushed", "prepare",
    "implement", "check", "push", "lookup", "create", "finish", "comment",
    "fail", "release", "giveback" }

RunState ==
  [ pc      : Steps,
    task    : Tasks \cup {NoTask},
    outputs : Nat,                        \* the open outputs it counted
    stopped : BOOLEAN,                    \* its context is cancelled
    dir     : BOOLEAN,                    \* it has a workspace to release
    told    : BOOLEAN,                    \* the task heard why, as far as it knows
    settled : BOOLEAN,                    \* Report.Settled
    cleared : Branches \cup {NoBranch} ]  \* what the publisher's decision read

Off ==
  [ pc |-> "off", task |-> NoTask, outputs |-> 0, stopped |-> FALSE,
    dir |-> FALSE, told |-> FALSE, settled |-> FALSE, cleared |-> NoBranch ]

TypeOK ==
  /\ run \in [Runs -> RunState]
  /\ live \subseteq Tasks
  /\ labels \in [Tasks -> SUBSET Labels]
  /\ pr \in [Tasks -> {"none", "open", "closed"}]
  /\ remote \in [Tasks -> Branches \cup {NoBranch}]
  /\ local \in [Tasks -> Branches]
  /\ dir \subseteq Tasks
  /\ lapse \subseteq Tasks
  /\ shared \subseteq Tasks

Init ==
  /\ run = [r \in Runs |-> Off]
  /\ live = Tasks
  /\ labels = [t \in Tasks |-> {"trigger"}]
  /\ pr = [t \in Tasks |-> "none"]
  /\ remote = [t \in Tasks |-> NoBranch]
  /\ local = [t \in Tasks |-> <<>>]
  /\ dir = {}
  /\ lapse = {}
  /\ shared = {}
-----------------------------------------------------------------------------
(***************************************************************************)
(* Calls.  One made with the run's own context fails once the run is       *)
(* stopped; one made with cleanup's context still works.                   *)
(***************************************************************************)
CallFaults == Faults \cap {"refused", "lost"}

Outcomes(r) == IF run[r].stopped THEN {"refused"} ELSE {"ok"} \cup CallFaults

CleanupOutcomes == {"ok"} \cup CallFaults

Landed(o) == o # "refused"

\* What becomes of a run's state: where it goes next, and what it learned.
At(s, p) == [s EXCEPT !.pc = p]
First(p, t) == [Off EXCEPT !.pc = p, !.task = t]
Counted(s, n) == [s EXCEPT !.pc = "claims", !.outputs = n]
Onto(s, t) == [s EXCEPT !.pc = "get", !.task = t]
Housed(s) == [s EXCEPT !.pc = "implement", !.dir = TRUE]
Cleared(s, b) == [s EXCEPT !.pc = "push", !.cleared = b]
Settled(s) == [s EXCEPT !.pc = "finish", !.settled = TRUE]
Told(s, heard) == [s EXCEPT !.pc = "fail", !.told = heard]
Leaving(s, settled) == [s EXCEPT !.pc = "release", !.settled = settled]
Stopped(s) == [s EXCEPT !.stopped = TRUE]

\* The run moves to its next call, or its process ends.
Goto(r, next) ==
  run' = [run EXCEPT ![r] = IF next = "off" THEN Off ELSE At(@, next)]

\* A label edit of the run's task, when it reached the forge.
Relabel(r, o, added, removed) ==
  labels' = IF Landed(o)
            THEN [labels EXCEPT ![run[r].task] = (@ \ removed) \cup added]
            ELSE labels

\* A run that has claimed its task and has not let go of it.
Holding ==
  { "pushed", "prepare", "implement", "check", "push", "lookup", "create",
    "finish", "comment", "fail", "release", "giveback" }

Holds(r, t) == run[r].task = t /\ run[r].pc \in Holding

\* The run's task joins the history of what went wrong.
Lapse(r, wrong) == lapse' = IF wrong THEN lapse \cup {run[r].task} ELSE lapse

\* The run claims a task that another has, or has it to itself from here on.
Meets(r) ==
  LET t == run[r].task IN
  shared' = IF \E q \in Runs \ {r} : Holds(q, t) THEN shared \cup {t} ELSE shared \ {t}
-----------------------------------------------------------------------------
(***************************************************************************)
(* pick, Get and Claim.                                                    *)
(***************************************************************************)
\* An operator starts a run of a task, or (NoTask) of the next ready one.
Start(r, want) ==
  /\ run[r].pc = "off"
  /\ \E first \in {"get", "outputs", "next"} :
       /\ first = "get" <=> want # NoTask
       /\ first = "outputs" => MaxOpenOutputs > 0
       /\ first = "next" => MaxOpenOutputs = 0
       /\ run' = [run EXCEPT ![r] = First(first, want)]
  /\ UNCHANGED <<live, labels, pr, remote, local, dir, lapse, shared>>

OpenPulls == {t \in Tasks : pr[t] = "open"}
Claimed == {t \in live : "in-progress" \in labels[t]}
Ready == {t \in live : "trigger" \in labels[t] /\ labels[t] \cap Taken = {}}

OpenOutputs(r) ==
  /\ run[r].pc = "outputs"
  /\ \E o \in Outcomes(r) :
       run' = [run EXCEPT ![r] =
         IF o = "ok"
         THEN Counted(@, Cardinality(OpenPulls))
         ELSE Off]
  /\ UNCHANGED <<live, labels, pr, remote, local, dir, lapse, shared>>

\* Mutant: one more than the cap allows.
UnderCapOffByOne(r) == run[r].outputs + Cardinality(Claimed) <= MaxOpenOutputs

UnderCap(r) == run[r].outputs + Cardinality(Claimed) < MaxOpenOutputs

InProgress(r) ==
  /\ run[r].pc = "claims"
  /\ \E o \in Outcomes(r) :
       Goto(r, IF o = "ok" /\ UnderCap(r) THEN "next" ELSE "off")
  /\ UNCHANGED <<live, labels, pr, remote, local, dir, lapse, shared>>

\* The lowest-numbered ready task; with none, or without an answer, the run ends.
NextReady(r) ==
  /\ run[r].pc = "next"
  /\ \/ \E t \in Ready :
          /\ ~run[r].stopped
          /\ \A u \in Ready : t <= u
          /\ run' = [run EXCEPT ![r] = Onto(@, t)]
     \/ /\ Ready = {} \/ Outcomes(r) # {"ok"}
        /\ Goto(r, "off")
  /\ UNCHANGED <<live, labels, pr, remote, local, dir, lapse, shared>>

\* A closed issue is nothing to start on.
Get(r) ==
  /\ run[r].pc = "get"
  /\ \E o \in Outcomes(r) :
       Goto(r, IF o = "ok" /\ run[r].task \in live THEN "claim" ELSE "off")
  /\ UNCHANGED <<live, labels, pr, remote, local, dir, lapse, shared>>

\* A claim reported as failed ends the run, whether or not the label is there.
Claim(r) ==
  /\ run[r].pc = "claim"
  /\ \E o \in Outcomes(r) :
       /\ Relabel(r, o, {"in-progress"}, {})
       /\ Lapse(r, o = "lost")
       /\ IF o = "ok" THEN Goto(r, "pushed") /\ Meets(r) ELSE Goto(r, "off") /\ UNCHANGED shared
  /\ UNCHANGED <<live, pr, remote, local, dir>>
-----------------------------------------------------------------------------
(***************************************************************************)
(* attempt: is the branch taken, a workspace, the lifecycle, the decision. *)
(***************************************************************************)
\* Mutant: an answer that never came is asked for again and again.
PushedRetries(r) ==
  /\ run[r].pc = "pushed"
  /\ \E o \in Outcomes(r) :
       Goto(r, IF o # "ok" THEN "pushed"
               ELSE IF remote[run[r].task] # NoBranch THEN "comment" ELSE "prepare")
  /\ UNCHANGED <<live, labels, pr, remote, local, dir, lapse, shared>>

\* Mutant: a branch that is there already is pushed to.
PushedOver(r) ==
  /\ run[r].pc = "pushed"
  /\ \E o \in Outcomes(r) : Goto(r, IF o = "ok" THEN "prepare" ELSE "giveback")
  /\ UNCHANGED <<live, labels, pr, remote, local, dir, lapse, shared>>

\* A branch the remote already has is a problem for a person; an answer that
\* never came gives the task back.
Pushed(r) ==
  /\ run[r].pc = "pushed"
  /\ \E o \in Outcomes(r) :
       Goto(r, IF o # "ok" THEN "giveback"
               ELSE IF remote[run[r].task] # NoBranch THEN "comment" ELSE "prepare")
  /\ UNCHANGED <<live, labels, pr, remote, local, dir, lapse, shared>>

\* Mutant: a branch that is there already is gone on with.
PrepareGoesOn(r) ==
  LET t == run[r].task IN
  /\ run[r].pc = "prepare"
  /\ \/ /\ ~run[r].stopped
        /\ dir' = dir \cup {t}
        /\ run' = [run EXCEPT ![r] = Housed(@)]
     \/ /\ Outcomes(r) # {"ok"}
        /\ Goto(r, "giveback")
        /\ UNCHANGED dir
  /\ UNCHANGED <<live, labels, pr, remote, local, lapse, shared>>

\* The directory is the task's, not the run's: whatever is in it is removed, and
\* the branch starts again from its base.  A call that fails on the way leaves
\* what the calls before it did.
Prepare(r) ==
  LET t == run[r].task IN
  /\ run[r].pc = "prepare"
  /\ \/ /\ ~run[r].stopped
        /\ local' = [local EXCEPT ![t] = <<>>]
        /\ dir' = dir \cup {t}
        /\ run' = [run EXCEPT ![r] = Housed(@)]
     \/ /\ Outcomes(r) # {"ok"}
        /\ Goto(r, "giveback")
        /\ \/ UNCHANGED <<local, dir>>
           \/ ~run[r].stopped /\ dir' = dir \ {t} /\ UNCHANGED local
           \/ ~run[r].stopped /\ dir' = dir \cup {t} /\ local' = [local EXCEPT ![t] = <<>>]
  /\ UNCHANGED <<live, labels, pr, remote, lapse, shared>>

InDir(r) == run[r].task \in dir

\* The lifecycle proposes its work, ends blocked or exhausted, or breaks, with or without
\* a commit.  A stopped one can still end exhausted: a check that was cancelled counts as
\* a check that failed.
Implement(r) ==
  /\ run[r].pc = "implement"
  /\ \/ /\ InDir(r) /\ ~run[r].stopped
        /\ local' \in {local, [local EXCEPT ![run[r].task] = Append(@, r)]}
        /\ \E next \in {"check", "comment", "release"} : Goto(r, next)
     \/ /\ InDir(r)
        /\ Goto(r, "comment")
        /\ UNCHANGED local
     \/ /\ Goto(r, "release")
        /\ UNCHANGED local
  /\ UNCHANGED <<live, labels, pr, remote, dir, lapse, shared>>

\* The publisher reads the branch as it is now and clears it or refuses it.  A
\* cancelled fold, policy check or gate is a refusal; any other cancelled call
\* is an error.
Check(r) ==
  /\ run[r].pc = "check"
  /\ \/ /\ InDir(r) /\ ~run[r].stopped
        /\ local[run[r].task] # <<>>
        /\ run' = [run EXCEPT ![r] = Cleared(@, local[run[r].task])]
     \/ Goto(r, "comment")
     \/ Goto(r, "release")
  /\ UNCHANGED <<live, labels, pr, remote, local, dir, lapse, shared>>
-----------------------------------------------------------------------------
(***************************************************************************)
(* Open: push, propose, then the bookkeeping on the task.                  *)
(***************************************************************************)
\* What a push that does not force may put over what the remote has.
FastForward(old, new) == old # NoBranch => IsPrefix(old, new)

\* Mutant: the task is moved to done on the strength of the push.
PushSettles(r) ==
  LET t == run[r].task IN
  /\ run[r].pc = "push"
  /\ InDir(r) /\ FastForward(remote[t], local[t])
  /\ remote' = [remote EXCEPT ![t] = local[t]]
  /\ Goto(r, "finish")
  /\ UNCHANGED <<live, labels, pr, local, dir, lapse, shared>>

\* A push sends whatever the branch is by now.  The other way out is a
\* description the policy refuses, or a push that changes nothing.
Push(r) ==
  LET t == run[r].task IN
  /\ run[r].pc = "push"
  /\ \/ /\ InDir(r)
        /\ FastForward(remote[t], local[t])
        /\ \E o \in Outcomes(r) \ {"refused"} :
             /\ remote' = [remote EXCEPT ![t] = local[t]]
             /\ Goto(r, IF o = "ok" THEN "lookup" ELSE "release")
     \/ /\ Goto(r, "release")
        /\ UNCHANGED remote
  /\ UNCHANGED <<live, labels, pr, local, dir, lapse, shared>>

\* The pull request exists: whatever the bookkeeping does, the task is settled.
Proposed(r) == run' = [run EXCEPT ![r] = Settled(@)]

\* Mutant: any answer from the lookup is taken for an open pull request.
LookupTakesNone(r) ==
  /\ run[r].pc = "lookup"
  /\ \E o \in Outcomes(r) : IF o = "ok" THEN Proposed(r) ELSE Goto(r, "release")
  /\ UNCHANGED <<live, labels, pr, remote, local, dir, lapse, shared>>

\* Propose reuses the branch's open pull request, when there is one.
Lookup(r) ==
  /\ run[r].pc = "lookup"
  /\ \E o \in Outcomes(r) :
       IF o = "ok" /\ pr[run[r].task] = "open"
       THEN Proposed(r)
       ELSE Goto(r, IF o = "ok" THEN "create" ELSE "release")
  /\ UNCHANGED <<live, labels, pr, remote, local, dir, lapse, shared>>

\* GitHub refuses a second open pull request for a branch, and one for a branch
\* it does not have or that has no commits.
Create(r) ==
  LET t == run[r].task IN
  /\ run[r].pc = "create"
  /\ \/ /\ pr[t] # "open" /\ remote[t] \notin {NoBranch, <<>>}
        /\ \E o \in Outcomes(r) \ {"refused"} :
             /\ pr' = [pr EXCEPT ![t] = "open"]
             /\ IF o = "ok" THEN Proposed(r) ELSE Goto(r, "release")
     \/ /\ \/ pr[t] = "open"
           \/ remote[t] \in {NoBranch, <<>>}
           \/ "refused" \in Outcomes(r)
        /\ Goto(r, "release")
        /\ UNCHANGED pr
  /\ UNCHANGED <<live, labels, remote, local, dir, lapse, shared>>

\* Mutant: the move to done names a label nothing reads.
FinishMislabels(r) ==
  /\ run[r].pc = "finish"
  /\ \E o \in Outcomes(r) :
       /\ Relabel(r, o, {"proposed"}, {"in-progress"})
       /\ Lapse(r, ~Landed(o))
  /\ Goto(r, "release")
  /\ UNCHANGED <<live, pr, remote, local, dir, shared>>

\* The summary, the link and the move to done, on the run's own context.
Finish(r) ==
  /\ run[r].pc = "finish"
  /\ \E o \in Outcomes(r) :
       /\ Relabel(r, o, {"done"}, {"in-progress"})
       /\ Lapse(r, ~Landed(o))
  /\ Goto(r, "release")
  /\ UNCHANGED <<live, pr, remote, local, dir, shared>>
-----------------------------------------------------------------------------
(***************************************************************************)
(* reportProblem, release and releaseClaim, on contexts that outlive a     *)
(* stop.                                                                   *)
(***************************************************************************)
Comment(r) ==
  /\ run[r].pc = "comment"
  /\ \E o \in CleanupOutcomes :
       run' = [run EXCEPT ![r] = Told(@, o = "ok")]
  /\ UNCHANGED <<live, labels, pr, remote, local, dir, lapse, shared>>

\* Mutant: only the label counts as an answer.
SettlesOnLabelAlone(r, o) == o = "ok"

\* A task that was told anything at all is settled.
Settles(r, o) == run[r].told \/ o = "ok"

\* Mutant: a run without a workspace has nothing to give back.
LeaveKeepingClaim(r, settled) ==
  run' = [run EXCEPT ![r] =
    IF @.dir THEN Leaving(@, settled) ELSE Off]

\* Where a run with nothing left to say goes: its workspace, its claim, away.
Leave(r, settled) ==
  run' = [run EXCEPT ![r] =
    IF @.dir THEN Leaving(@, settled)
    ELSE IF settled THEN Off ELSE At(@, "giveback")]

Fail(r) ==
  /\ run[r].pc = "fail"
  /\ \E o \in CleanupOutcomes :
       /\ Relabel(r, o, {"failed"}, {"in-progress"})
       /\ Lapse(r, Settles(r, o) /\ ~Landed(o))
       /\ Leave(r, Settles(r, o))
  /\ UNCHANGED <<live, pr, remote, local, dir, shared>>

\* Mutant: letting go of the workspace is letting go of the task.
ReleaseKeepsClaim(r) ==
  /\ run[r].pc = "release"
  /\ dir' = dir \ {run[r].task}
  /\ Goto(r, "off")
  /\ UNCHANGED <<live, labels, pr, remote, local, lapse, shared>>

Release(r) ==
  /\ run[r].pc = "release"
  /\ \E o \in CleanupOutcomes :
       dir' = IF Landed(o) THEN dir \ {run[r].task} ELSE dir
  /\ Goto(r, IF run[r].settled THEN "off" ELSE "giveback")
  /\ UNCHANGED <<live, labels, pr, remote, local, lapse, shared>>

GiveBack(r) ==
  /\ run[r].pc = "giveback"
  /\ \E o \in CleanupOutcomes :
       /\ Relabel(r, o, {}, {"in-progress"})
       /\ Lapse(r, ~Landed(o))
  /\ Goto(r, "off")
  /\ UNCHANGED <<live, pr, remote, local, dir, shared>>
-----------------------------------------------------------------------------
(***************************************************************************)
(* What happens to a run from outside, and what people do on the forge.    *)
(***************************************************************************)
Stop(r) ==
  /\ "stop" \in Faults
  /\ run[r].pc # "off" /\ ~run[r].stopped
  /\ run' = [run EXCEPT ![r] = Stopped(@)]
  /\ UNCHANGED <<live, labels, pr, remote, local, dir, lapse, shared>>

Kill(r) ==
  /\ "kill" \in Faults
  /\ run[r].pc # "off"
  /\ Lapse(r, run[r].pc \in Holding)
  /\ Goto(r, "off")
  /\ UNCHANGED <<live, labels, pr, remote, local, dir, shared>>

\* Merging closes the issue, and may delete the branch.
Merge(t) ==
  /\ "merge" \in People /\ pr[t] = "open"
  /\ pr' = [pr EXCEPT ![t] = "closed"]
  /\ live' = live \ {t}
  /\ remote' \in {remote, [remote EXCEPT ![t] = NoBranch]}
  /\ UNCHANGED <<run, labels, local, dir, lapse, shared>>

Close(t) ==
  /\ "close" \in People
  /\ \/ pr[t] = "open" /\ pr' = [pr EXCEPT ![t] = "closed"] /\ UNCHANGED live
     \/ t \in live /\ live' = live \ {t} /\ UNCHANGED pr
  /\ UNCHANGED <<run, labels, remote, local, dir, lapse, shared>>

Reopen(t) ==
  /\ "reopen" \in People /\ t \notin live
  /\ live' = live \cup {t}
  /\ UNCHANGED <<run, labels, pr, remote, local, dir, lapse, shared>>

\* Putting a finished task back in the queue.
Retry(t) ==
  /\ "retry" \in People /\ labels[t] \cap {"done", "failed"} # {}
  /\ labels' = [labels EXCEPT ![t] = @ \ {"done", "failed"}]
  /\ UNCHANGED <<run, live, pr, remote, local, dir, lapse, shared>>

\* Clearing a claim no run holds.
Unclaim(t) ==
  /\ "unclaim" \in People /\ "in-progress" \in labels[t]
  /\ \A r \in Runs : ~Holds(r, t)
  /\ labels' = [labels EXCEPT ![t] = @ \ {"in-progress"}]
  /\ lapse' = lapse \ {t}
  /\ UNCHANGED <<run, live, pr, remote, local, dir, shared>>

\* Deleting a branch closes its pull request.
Delete(t) ==
  /\ "delete" \in People /\ remote[t] # NoBranch
  /\ remote' = [remote EXCEPT ![t] = NoBranch]
  /\ pr' = [pr EXCEPT ![t] = IF @ = "open" THEN "closed" ELSE @]
  /\ UNCHANGED <<run, live, labels, local, dir, lapse, shared>>
-----------------------------------------------------------------------------
\* A run's next call.
Step(r) ==
  \/ OpenOutputs(r) \/ InProgress(r) \/ NextReady(r) \/ Get(r) \/ Claim(r)
  \/ Pushed(r) \/ Prepare(r) \/ Implement(r) \/ Check(r)
  \/ Push(r) \/ Lookup(r) \/ Create(r) \/ Finish(r)
  \/ Comment(r) \/ Fail(r) \/ Release(r) \/ GiveBack(r)

Person(t) ==
  Merge(t) \/ Close(t) \/ Reopen(t) \/ Retry(t) \/ Unclaim(t) \/ Delete(t)

Next ==
  \/ \E r \in Runs : Step(r) \/ Stop(r) \/ Kill(r)
  \/ \E r \in Runs, want \in Named \cup {NoTask} : Start(r, want)
  \/ \E t \in Tasks : Person(t)

Spec == Init /\ [][Next]_vars

\* A process that is running keeps running: steps and checks have a time limit,
\* and git and gh are taken to answer in the end.  Nobody has to start a run, and
\* people do what they like.
FairSpec == Spec /\ \A r \in Runs : WF_vars(Step(r))
-----------------------------------------------------------------------------
(***************************************************************************)
(* What a run promises the people reading the repository.                  *)
(***************************************************************************)
\* A task is never marked done against work nobody can see: the done label is
\* only ever on a task whose pull request was opened (output.go, Open: "The order
\* matters").
DoneMeansProposed ==
  \A t \in Tasks : "done" \in labels[t] => pr[t] # "none"

\* The in-progress label is there because a run is working on the task, or because
\* a label edit failed or the run was killed: no other way of ending, an error, a
\* refusal or a stop at any point before the last edit, leaves a claim behind
\* (engine.go, Run and reportProblem).
ClaimAccounted ==
  \A t \in Tasks : "in-progress" \in labels[t] =>
    t \in lapse \/ \E r \in Runs : Holds(r, t)

\* A run that told its task why nothing was proposed, or that opened a pull
\* request, never gives the task back to the queue, whichever of its other calls
\* fail (engine.go, reportProblem and attempt).
HeardMeansNotRequeued ==
  \A r \in Runs : run[r].pc = "giveback" => ~run[r].told /\ ~run[r].settled

\* The cap is checked before it is claimed, in two reads: it can be overshot, but
\* by no more than one task for each other run going on (engine.go, pick).
Busy == OpenPulls \cup Claimed
CapOvershootBounded ==
  MaxOpenOutputs > 0 =>
    Cardinality(Busy) <= MaxOpenOutputs + Cardinality(Runs) - 1

\* A run that has its task to itself never works on a branch that somebody can see: what
\* an earlier run pushed, however that one ended, is neither started over nor added to,
\* until a person deletes it (engine.go, attempt: the check of a pushed branch).
NoWorkOverPushed ==
  \A r \in Runs :
    run[r].pc \in {"prepare", "implement", "check", "push"} /\ run[r].task \notin shared =>
      remote[run[r].task] = NoBranch

\* What is pushed is what the publisher cleared, and the work of one run from the base on,
\* whatever earlier ones that failed or were killed left in the checkout, unless two runs
\* had the task at once: a push sends whatever the branch is by then, and they share it
\* (output.go, Open; engine.go, attempt).
PushedWasCleared ==
  [][\A t \in Tasks :
       remote'[t] \notin {remote[t], NoBranch} /\ t \notin shared =>
         \E r \in Runs :
           /\ Holds(r, t) /\ remote'[t] = run[r].cleared
           /\ remote'[t] # <<>> /\ ToSet(remote'[t]) = {r}]_vars

\* Runs keep to TaskBoard: a visit that was answered is never also given back, and
\* done needs a pull request, however the calls fail and interleave.
Visited(r) == IF run[r].pc \in Holding THEN run[r].task ELSE NoTask
Answered == {r \in Runs : run[r].pc \in Holding /\ (run[r].told \/ run[r].settled)}
Board == INSTANCE TaskBoard
           WITH on <- [r \in Runs |-> Visited(r)], answered <- Answered
KeepsTheBoard == Board!Spec

\* Every run comes to an end, whatever fails and whenever it is stopped.
RunsEnd == \A r \in Runs : run[r].pc # "off" ~> run[r].pc = "off"

\* A claimed task is let go of, or someone's label edit went wrong.
ClaimsAreGivenBack ==
  \A t \in Tasks :
    "in-progress" \in labels[t] ~> "in-progress" \notin labels[t] \/ t \in lapse
-----------------------------------------------------------------------------
(***************************************************************************)
(* What the code's comments say and its runs do not do.                    *)
(***************************************************************************)
\* "a run in flight releases its claim and its workspace instead of leaving a task
\* marked as being worked on by nobody" (cmd/loomlc/main.go): with signals the
\* only thing that goes wrong, the label always has a run behind it.
NoClaimByNobody ==
  \A t \in Tasks : "in-progress" \in labels[t] => \E r \in Runs : Holds(r, t)

\* "Ready means the run was interrupted, so the task goes back in the queue"
\* (task.go): a run stopped in its work does not report a problem with the task.
StoppedWorkIsRequeued ==
  [][\A r \in Runs :
       run[r].stopped /\ run[r].pc \in {"implement", "check"} =>
         run'[r].pc # "comment"]_vars
=============================================================================
