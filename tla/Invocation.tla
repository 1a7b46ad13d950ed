------------------------------ MODULE Invocation ------------------------------
(***************************************************************************)
(* One invocation of loomlc, from the command line to the exit code: the   *)
(* setup, the task or pull request it takes, the workspace, the first      *)
(* command that it runs for a step, and what it reports (internal/cli).    *)
(*                                                                         *)
(* What the steps do with what they hear is in Lifecycle, Publisher,       *)
(* Engine and Review.  Here the rest of the work ends as it may.           *)
(***************************************************************************)
EXTENDS Setup, Agent

VARIABLES
  task,    \* the task of a run, the pull request of the others, or none
  blame,   \* the setting that stopped the work after it was taken, if one did
  model    \* history: the model the agent was asked to use, and for which provider

workVars == <<task, blame, model>>
vars == <<setupVars, commandVars, callVars, workVars>>

NoTask == <<>>
NoCommand == ""
NoModel == <<>>

Init ==
  /\ SetupInit /\ CallInit
  /\ task = NoTask /\ blame = "nothing" /\ model = NoModel

Stages == {"flags", "load", "loaded", "built", "checked", "ready", "taken", "prepared", "asked",
           "calling", "heard", "exited"}

TypeOK ==
  /\ CommandTypeOK /\ CallTypeOK
  /\ stage \in Stages
  /\ cmd \in Commands \cup {NoCommand} /\ flags \subseteq Flags /\ argument \in Arguments
  /\ lacking \subseteq Lacking /\ written \subseteq Settings
  /\ exit \in {-1, 0, 1, 2} /\ (exit = -1 <=> stage # "exited")
  /\ cfg # NoConfig => DOMAIN cfg = Sections
  /\ task = NoTask \/ task \in Tasks
  /\ blame \in {"nothing", "branch", "vendor", "role_prompt", "allowed_commands", "cmd", "path",
               "gate"}
-----------------------------------------------------------------------------
\* What was started goes on as it was asked to: what led to it is looked at no more.
Forget(next) ==
  /\ stage' = next /\ cfg' = NoConfig /\ written' = {} /\ lacking' = {}
  /\ cmd' = NoCommand /\ flags' = {} /\ argument' = "none"
  /\ task' = NoTask /\ model' = NoModel

\* There may be nothing to take, and the forge may fail; or a task is claimed.
Take ==
  /\ stage = "ready"
  /\ \/ \E c \in {0, 1} : ExitWith(c) /\ UNCHANGED workVars
     \/ /\ task' \in Tasks
        /\ Proceed("taken") /\ UNCHANGED <<blame, model>>
  /\ UNCHANGED <<commandVars, callVars>>

\* BranchName and Executor.validate: no branch, or the one that it starts from.
branchStops(name) == branchProblem(name) \/ name = cfg.sinks[Lc.sink].base

\* The workspace of a run is on a branch of its own; of the others, on the pull request's.
Prepare ==
  /\ stage = "taken"
  /\ IF cmd = "run" /\ branchStops(BranchName(Lc.branch, task))
     THEN blame' = "branch" /\ Forget("heard") /\ UNCHANGED exit
     ELSE /\ UNCHANGED blame
          /\ IF MovesCommits THEN Forget("heard") /\ UNCHANGED exit
             ELSE Proceed("prepared") /\ UNCHANGED <<task, model>>
  /\ UNCHANGED <<commandVars, callVars>>

\* The steps of a command that runs agents: a review is answered without a plan.
StepsOf == IF cmd = "run" THEN {1, 2, 3} ELSE {2, 3}

\* The request of a step (lifecycle/steps.go, step).
RequestOf(s) ==
  [vendor |-> s.vendor, size |-> SizeOf(s.role), allowed |-> s.allowed_commands,
   cmd |-> cfg.providers[s.provider].cmd, timeout |-> Seconds[s.timeout]]

Ask(s) ==
  /\ AskAgent(RequestOf(s), Installed)
  /\ model' = [name |-> s.model, provider |-> s.provider]
  /\ LET bad == buildArgsRefuses(RequestOf(s)) IN
     blame' = CASE bad # {} -> CHOOSE part \in bad : TRUE
                [] bad = {} /\ RequestOf(s).cmd \notin Installed -> "cmd"
                [] bad = {} /\ RequestOf(s).cmd \in Installed \ Startable -> "path"
                [] OTHER -> "nothing"

\* A check whose command is not there can't be started.
Check(argv) ==
  /\ RunCheck
  /\ blame' = IF argv[1] \in Installed THEN "nothing" ELSE "gate"
  /\ UNCHANGED model

\* The first command that is run for a step.
Begin ==
  /\ stage = "prepared"
  /\ \/ \E i \in StepsOf : Ask(Lc.steps[i])
     \/ \E i \in StepsOf : \E j \in DOMAIN Lc.steps[i].gate : Check(Lc.steps[i].gate[j])
     \/ \E j \in DOMAIN Lc.publish_gates : Check(Lc.publish_gates[j])
  /\ Proceed("asked")
  /\ UNCHANGED task

\* A command that is not there is not started; one that is may fail to start.  What is there
\* is what a path leads to from the workspace.
Start ==
  /\ stage = "asked"
  /\ Enter /\ UNCHANGED <<callVars, blame>>
  /\ blame \in {"gate", "path"} => wait' = "none"
  /\ Forget("calling") /\ UNCHANGED exit

\* It runs; its context may end before it is started.
Underway ==
  /\ \/ stage = "calling" /\ CallNext
     \/ stage = "asked" /\ (Deadline \/ Cancel) /\ UNCHANGED callVars
  /\ UNCHANGED <<setupVars, workVars>>

\* A run that broke, whatever it broke on.
Broken == blame # "nothing" \/ answer \in Failures \cup Refusals \cup {"broken"}

\* describeRun, describeRevision and describeTidy: nothing is proposed by a run that broke;
\* otherwise something is, or there is a reason why not.
Report ==
  /\ stage = "heard" \/ answer # "nothing"
  /\ Forget("exited") /\ exit' \in IF Broken THEN {1} ELSE {0, 1}
  /\ CommandReset /\ kind' = "none" /\ answer' = "nothing"
  /\ UNCHANGED blame

Set ==
  /\ SetupNext
  /\ UNCHANGED <<commandVars, callVars, workVars>>

Over == stage = "exited" /\ UNCHANGED vars

Next == Set \/ Take \/ Prepare \/ Begin \/ Start \/ Underway \/ Report \/ Over

Spec == Init /\ [][Next]_vars

\* The stages at which loomlc waits for no command that it runs for a step.  Some step can
\* be taken at each of them, and whichever is leaves it.
Unhindered == Stages \ {"asked", "calling", "exited"}

Own == stage \in Unhindered /\ stage' \in Stages \ {stage}

Calling(A) == stage = "calling" /\ A /\ UNCHANGED <<callVars, setupVars, workVars>>

FairSpec ==
  /\ Spec
  /\ WF_stage(Own) /\ WF_vars(Start) /\ WF_vars(Report)
  /\ WF_vars(Underway /\ (HearAgent \/ HearCheck))
  /\ WF_vars(Underway /\ Run) /\ WF_vars(Calling(Wait)) /\ WF_vars(Calling(Deadline))
  /\ SF_vars(Calling(Tick))
-----------------------------------------------------------------------------
\* What stops the work once a task is taken is never a setting that could have been refused
\* before, but for four that are known: what claude's rules cannot say, a title or an id
\* that makes a bad branch, a check that is not installed, and an agent's command that is a
\* relative path, which is looked for where loomlc was started and then started in the
\* workspace (config.go:1-3, "so the rest of loomlc can trust what it reads"; preflight.go,
\* "before a task is claimed"; claude.go:96 and 122).
ConfigurationIsTrusted == blame \in {"nothing", "branch", "allowed_commands", "gate", "path"}

\* No agent is asked for a model that was meant for another provider (parse.go:134-135): the
\* preset's is asked of the preset's provider only.
ModelStaysWithProvider ==
  model # NoModel => (model.name = "sonnet" => model.provider = "claude")

\* A command line that was wrong takes nothing: it is exit code 2 and no task, and whatever
\* takes a task was typed as it should be (cli/run.go, "2  the command line was wrong").
MisuseTakesNothing ==
  /\ exit = 2 => task = NoTask
  /\ task # NoTask =>
       /\ flags \subseteq {"--config=loomlc.yml", "--lifecycle=sdlc", "--lifecycle=nightly",
                          "--max-iter=0"}
       /\ argument \in {"9", "own#9"} \cup IF cmd = "tidy" THEN {} ELSE {"none", "own#"}

\* In a configuration that loads, tasks have branches of their own: two tasks never share one
\* if the template sets the id apart, and a task shares the base only if that has its id
\* (validate.go:326-327, "different for every task, and never the base branch").
TasksHaveOwnBranches ==
  \A n \in IF cfg = NoConfig THEN {} ELSE DOMAIN cfg.lifecycles :
    LET lc == cfg.lifecycles[n]  base == BaseOf(cfg, lc) IN
    /\ Separated(lc.branch) =>
         \A t, u \in Tasks : BranchName(lc.branch, t) = BranchName(lc.branch, u) => t.id = u.id
    /\ \A t \in Tasks : BranchName(lc.branch, t) = base => ToSet(t.id) \subseteq ToSet(base)

\* How deep in the repository a path has come.
Depth(path) ==
  Cardinality({i \in DOMAIN path : path[i] \notin {".", ".."}})
    - Cardinality({i \in DOMAIN path : path[i] = ".."})

\* However a path of a configuration that loads is written, following it never leaves the
\* repository, where the user's other files are (validate.go:435-447).
PathsStayInside ==
  \A n \in IF cfg = NoConfig THEN {} ELSE DOMAIN cfg.lifecycles :
    LET lc == cfg.lifecycles[n]
        paths == {cfg.executors[e].root : e \in DOMAIN cfg.executors}
                   \cup {cfg.sinks[s].template : s \in DOMAIN cfg.sinks}
                   \cup {lc.steps[i].role : i \in DOMAIN lc.steps} \cup ToSet(lc.protected_paths)
    IN \A p \in paths : \A i \in DOMAIN p : p[1] # "/" /\ Depth(SubSeq(p, 1, i)) >= 0

\* Every invocation ends, whatever the commands that it runs for its steps do: a step has a
\* time limit, and so has a check (claude.go:101-105, gate.go:50-55).
Ends == <>(stage = "exited")
=============================================================================
