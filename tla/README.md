# loomlc in TLA+

loomlc takes a task (a GitHub issue with a trigger label), has coding agents
implement it in a git worktree, judges the work, and opens a pull request; it
also answers review comments on its pull requests, and folds the fixes those
answers leave behind. This directory specifies that program from its source,
model-checks it with TLC on small instances, and proves what matters most for
every instance with TLAPS.

Run everything from this directory:

    tlc -workers 2 -config MCEngine.cfg MCEngine     # any MC*.cfg with its MC module
    tlapm EngineProofs.tla                           # the proofs, and those of EngineCapProofs,
                                                     # PublisherProofs, ReviewProofs, InvocationProofs,
                                                     # Counting, BranchProofs and SettingsProofs

`PROJECT.json` lists the components, the runs, the mutants, which lines each
definition models, the hazards, the findings and the theorems.

## The system

| component | state | operations | talks to |
|---|---|---|---|
| **Engine** (`internal/run/engine.go`, `output.go`): `loomlc run` | the run's task, workspace, report | pick, get, claim, attempt, open, report a problem, release | forge, executor, lifecycle, publisher |
| **Lifecycle** (`internal/lifecycle`) | pass, findings, checks and verdict carried between passes, commits made | plan, change, take back, commit, check, judge | providers, gates, git, commit checker |
| **Commit checker** (`internal/commit`) | none | which commits an answer may ask for | lifecycle |
| **Publisher** (`run/publish.go`) | none; a decision | fold, read the history, protected paths, scan, policy, gates | git, gates |
| **GitHub forge** (`internal/forge/github`) | labels, comments, pull requests, on GitHub | next ready task, claim, transition, count, propose, feedback | `gh` |
| **Worktree executor** (`internal/executor/worktree`) | directories, git's registrations, a lock for each in one process | prepare, release, pushed, back up | git |
| **Reviser** (`run/revise.go`): `loomlc feedback` | labels, replies | pick, read feedback, work, decide, push, reply | forge, executor, lifecycle, publisher |
| **Tidier** (`run/tidy.go`): `loomlc tidy` | the branch's leased head | fold, check, force-push with a lease, tell | forge, executor, git |
| **Gates** (`internal/gate`) | none | run a check within its limit, hear how it ended | process runner |
| **Process runner** (`internal/proc`) | a running command, its process group, a goroutine that waits for it | run, stop within a grace period, clean up what is left | the operating system |
| **Providers, prompts** (`internal/provider`, `internal/prompt`) | none | ask an agent, parse its answer | process runner |
| **Redactor, scanner** (`internal/redact`, `run/scan.go`) | a line buffer | hide or find secrets | everything printed |
| **Configuration** (`internal/config`) | none | read, merge with the preset, validate; branch names | all |
| **Wiring, preflight** (`internal/app`) | none | choose a lifecycle, load what it names, refuse what cannot work before a task is claimed | all |
| **Command line** (`cmd/loomlc`, `internal/cli`) | the context | flags and argument, exit code; first signal cancels, second ends | engine, reviser, tidier |
| **Scripts** (`scripts/`) | none | commit policy, next version | publisher, releases |

What is hard, and what would make each component wrong:

* **Several processes, no lock between them.** Operators and cron start runs
  when they like. They meet in the issue's labels, in one branch and one workspace
  directory per task, and in a cap on open pull requests that is read and not
  reserved. Correct means: nothing published is rewritten, labels tell the
  truth about pull requests, a claim always has an owner or an explanation,
  the cap is overshot by a known amount at most.
* **Every call can fail, with or without having taken effect; a signal can come
  between any two; a second signal ends the process.** Correct means: a task
  that was told anything is not silently put back in the queue, one that was
  not is, and every run ends.
* **The agent is not trusted.** It edits any file, commits or rewrites commits
  on its own, and asks for commits that cannot be made. Correct means: only
  commits the engine made, with nothing uncommitted beside them, are judged,
  and only what was judged is published.
* **Passes.** Findings, checks and verdicts of one pass are carried to the next
  and into the report. Correct means: none is shown after the files it is about
  changed, and a pass is always told what was wrong with the one before.
* **Folding by subject.** git finds a fix's target by the subject of a commit. Correct
  means: a fix ends in the commit it was made for; a reviewer still sees the
  fixes of a revision.
* **Registrations, locks and backups** outlive the process that
  made them. Correct means: the next run recovers, or says why it cannot.
* **Commands start commands.** What an agent or a check starts can outlive it, ignore
  signals, keep its output open, leave the process group or come up while the group is
  being killed; a command can end in the instant its context does. Correct means: Run
  returns in time, kills nothing early, leaves nothing in the group, and never takes
  what was stopped for an answer.
* **A configuration is trusted once it is validated.** Whatever validation lets pass and a
  later part refuses costs a task its claim. Correct means: a wrong setting, tool or
  argument is refused before a task is taken, and a setting means what was written.

## The modules

| module | what it is |
|---|---|
| `Engine` | several `loomlc run` processes against the labels, pull requests, branches and checkout they share; one action per call |
| `TaskBoard` | what people can count on from runs, whatever fails: the abstract specification `Engine` implements |
| `EngineProofs` | theorems about `Engine` |
| `EngineCapProofs` | the theorem about the cap on open pull requests |
| `MCEngine` | `Engine` for TLC: symmetry of the runs |
| `CommitCheck` | the rules for commits an answer asks for, and how git folds fixes |
| `Lifecycle` | one run of a lifecycle: plan, passes, commits, checks, verdicts |
| `Publisher` | `Lifecycle` and the decision on its work, with the properties of both |
| `Attempt` | what an attempt may do to the branch it works on: the abstract specification `Publisher` implements |
| `Worktree` | the worktree executor's git commands, for one branch in one clone |
| `Review` | several `loomlc feedback` and `loomlc tidy` processes on one pull request, over `Worktree` |
| `Conversation` | what reviewers can count on from the runs that answer them: the abstract specification `Review` implements |
| `MCReview` | `Review` for TLC: symmetry of the processes, the branches under review |
| `ReviewProofs` | theorems about `Review`, and so about `Worktree` |
| `PublisherProofs` | theorems about `Publisher` and `Lifecycle` |
| `MCPublisher` | `Publisher` for TLC: the branches a revision starts from, the sets of configured checks |
| `Command` | the process runner: one external command, its process group and the operating system |
| `Agent` | what an agent's request or a check becomes a command with, and what is heard of its end |
| `Branch` | branch names from a template and a task |
| `Config` | the configuration: the preset, what is decoded from a file, merging, defaults |
| `Validation` | every rule a configuration is held to |
| `Setup` | the command line, loading, wiring and preflight, over `Validation` |
| `Invocation` | one invocation of loomlc, from its arguments to its exit code, over `Setup` and `Agent` |
| `InvocationProofs` | theorems about `Invocation`: of commands and what is heard of them, of what is taken |
| `Counting` | induction over numbers, and the functions that recursion over them defines |
| `BranchProofs` | which tasks a branch template tells apart |
| `SettingsProofs` | theorems about `Invocation`: of settings, over `Config`, `Validation`, `Setup` and `BranchProofs` |
| `MCInvocation` | `Invocation` for TLC: the settings, the tasks |

`Publisher` EXTENDS `Lifecycle`, which EXTENDS `CommitCheck`: a decision is
made about the state the lifecycle left. `Engine` and `Review` do not extend them. What
they need of a lifecycle and the decision on its work is `Attempt`, which `Publisher` implements:
`Attempt`'s stages are the outcomes that `Engine`'s `Implement` and `Check` can have, and
`Review`'s `Revise`, because what the other processes see of an attempt is the branch in the
checkout and how it ended. `Implement` and `Revise` add commits, also when they break part of the way
(`Commit`, `Break`); `Check` and the decision of a revision add none (`Decide`). The calls of an attempt are one
action each there, so that the calls between processes can be told apart. `Review` EXTENDS `Worktree`.
`Invocation` is the frame around all of them: what has to happen before a
task is taken, and how one command that a step runs is run and heard. It
EXTENDS `Setup` (over `Validation`, `Config` and `Branch`) and `Agent` (over `Command`).

### Engine

`run[r]` is a process: `pc` names the call it makes next, and the other fields
are the locals that outlive a call (`task`, the counted `outputs`, whether the
context is cancelled, whether there is a workspace, `Report.Settled`, whether
the task heard anything). `labels`, `live`, `pr` and `remote` are GitHub;
`local` and `dir` are the checkout. `lapse` is a history variable: the tasks on
which a label edit failed or went unreported, or whose run was killed. `shared` is another:
the tasks that were last claimed while another run had them, which the code can do because it reads
the labels and claims in two calls (`Meets`). Nothing reads either but the properties.

| action | code |
|---|---|
| `Start`, `OpenOutputs`, `InProgress`, `NextReady`, `Get` | `engine.go` Run and pick; `github.go` OpenOutputs, InProgress, NextReady, Get |
| `Claim`, `GiveBack` | `github.go` Claim and Transition; `engine.go` releaseClaim |
| `Pushed`, `Prepare`, `Release` | `worktree.go` Pushed, Prepare, Release, as attempt calls them |
| `Implement`, `Check` | the lifecycle's Run and the publisher's Prepare |
| `Push`, `Lookup`, `Create`, `Finish` | `output.go` Open; `github.go` Propose and Transition; `git/commit.go` Push |
| `Comment`, `Fail` | `engine.go` reportProblem |
| `Stop`, `Kill` | `cmd/loomlc/main.go`: the first and the second signal; also a machine going down |
| `Merge` ... `Delete` | people on GitHub, as far as the code reads what they change |

A call has one of three outcomes: it works; it is `refused` and changes nothing;
it is `lost`, which takes effect and is reported as a failure. A call on the
run's own context is refused once the run is stopped. The calls of
`reportProblem`, `release` and `releaseClaim` are on contexts that outlive a
stop (`context.WithoutCancel`), and so still work.

What a run proposes is one commit here, or none, by the run that made it: what
several processes can do to a branch depends on whose commits it has and not on
how many. A task has one branch; names are derived from titles, and a title edited
between two runs is a listed hazard.

### Lifecycle, CommitCheck, Publisher

Files are paths with the number of the pass whose agent last wrote them (`tree`, and
`committed` for HEAD), or `Rewritten` for a file as a check leaves it: enough to tell
whether a check, a verdict or a commit is about the files as they are. `Writers` are
the steps whose checks may write files that git tracks, as a formatter or a generator
does (`ChecksWrite`): writing twice leaves the same, and what such a check reports is
about the files it leaves. `branch` is the commits after the base, with who
made each, its subject, and, for a fix, the commit it was made for. `pc` is the
call made next, or how the run ended.

| action | code |
|---|---|
| `Init` | `lifecycle.go` Implement and Revise: a task on its base, or a branch with commits under review |
| `PlanGates`, `Plan` | `lifecycle.go` Implement; `steps.go` plan |
| `Change`, `Agent`, `TakeBack` | `lifecycle.go` loop; `steps.go` change, takeBack |
| `MakeCommits` | `steps.go` makeCommits; `commit.go` Check |
| `VerdictGates`, `Verdict` | `lifecycle.go` loop; `steps.go` check, verdict |
| `Again` | the loop's own end of a pass: the findings for the next, or exhausted |
| `Break` | any error on the way |
| `Unverified` | `publish.go` Prepare: work that no configured gate checks, where the configuration does not allow it |
| `Answer` | `revise.go`: a revision without commits has nothing to publish |
| `Fold`, `Keep` | `publish.go` Prepare; `git/commit.go` Autosquash |
| `Inspect`, `PublishGates`, `Fail` | `publish.go` Prepare, from reading the log on |

The agent leaves each file as it was, as it is at HEAD, or new; it commits on top,
rewrites the last commit, or does not touch git. Answers are every sequence of up
to `MaxAsked` commits over `Paths`, those that name no path, no commit to fix or every one, and those with a
subject that the policy refuses among them. A verdict that fails need not name a defect: only its word is checked
(`prompt/answer.go:89`), so what is carried to the next pass can be empty (`Verdict`, `Again`). One disjunct of `MakeCommits` takes those
that do not check out (nothing is committed and the pass starts again), the
other those that do; the second can still break after any of its commits.

A fold that is refused need not have left the branch alone: `Autosquash` looks for fixes that are left, and
compares the trees, once the rebase is done, and either look can fail. `Fold` has both. `Folded` keeps
a fix that has no target, as git does (`Stays`).

`Attempt` sees of this the commits (`Work`, which is what the change step began with until HEAD is back
there), the ids that are reported, and the stage. `Commit` adds the engine's commits, on top, and reports
every commit that was not there before, or breaks; `Fold` drops fixes, loses no other commit, and keeps those in
order; `Keep`: a revision is not folded; `Decide` clears nothing that is empty.

What a check of the verdict step writes is in the workspace, and not in the commits,
when the verdict is given. In a run that implements a task git refuses to fold over it,
so `ClearedWasJudged` holds whatever checks write. A revision folds nothing and does not
look, so what it pushes need not be what was judged: the property is stated
for revisions whose verdict's checks leave files alone, and this is the whole of its
exception.

### Worktree, Review

`tree` is what there is of each workspace directory: is it there, does git know it, has
git locked it. A revision works under the task's key and a tidy under the pull
request's, so `Keys` has two. `local` is the branch in the clone, `tracked` the
clone's remote-tracking ref, `remote` the branch on GitHub, `saved` the changes under
`refs/loomlc/attempts`. A commit is the changes it holds and whether it is a fix, so that a fold,
which rewrites commits, keeps their changes. `proc[p]` is a process: the call it
makes next and what it knows. `asks` is the pull request's labels; comments are
numbered as they are posted (`posted`), and `cut` is how many of them the last
reply hides. `heard`, `passed`, `bare` and `lapse` are history variables.

| action | code |
|---|---|
| `Start`, `Pick`, `Output` | `revise.go` Revise and pick, `tidy.go` Tidy; `github.go` NextFeedback, Output |
| `Feedback`, `ClaimFeedback` | `revise.go` Revise and subject; `github.go` Feedback, TaskFor, ClaimFeedback |
| `Fetch`, `RemoveOld`, `Save`, `AddNew` | `worktree.go` prepare, remove, registration, backUpAttempt |
| `Revise`, `Push` | `revise.go` attempt: the lifecycle with the decision, and the push |
| `Answer`, `Sorry`, `ReleaseFeedback` | `revise.go` answer, sayNothingWorked, releaseLabels; `github.go` CommentOn, ReleaseFeedback |
| `Log`, `Lease`, `Autosquash`, `ForcePush`, `Tell` | `tidy.go` fold, tell; `git/commit.go` Log, Head, Autosquash, ForcePushWithLease |
| `Release` | `revise.go` and `tidy.go` release; `worktree.go` Release |
| `Stop`, `Kill` | the first and the second signal; a killed `worktree add` or `remove` leaves part of its work |
| `Comment` ... `Unlock` | people, as far as the code reads what they change |

The code has two defers that matter here, and the model has their order: a
workspace is released when the attempt returns, before the reply of a run that broke
(`AfterError`, `Release`), and the labels come off last. A second run can replace the
workspace of a first one, which then works in the new directory or, when it is
gone, fails (`Workable`). git refuses to add a worktree of a branch that another
worktree has, which keeps a tidy and a revision apart (`Addable`).

### Command, Agent

`Command` is one call of `Exec.Run`. `pc` is where Run is, `wait` where the goroutine is that
waits for the command; `alive`, `grouped`, `holding` and `doomed` are processes: those that have
not ended, those in the command's group, those with its output open, those sent
SIGKILL. `foreign` says that the group's id belongs to someone else by now, as it may once the
group is empty and its leader was reaped. `asked`, `hushed` and `late` are history variables.

| action | code |
|---|---|
| `Enter` | `proc.go` Run, up to the start of the command; a command that cannot be started |
| `Select`, `Recheck` | the two selects: the command's end or the context's, either when both are there |
| `Terminate`, `AfterTerm`, `AfterKill` | the grace period after SIGTERM, SIGKILL, and giving up |
| `Clean`, `CleanTerminate`, `CleanPoll` | `cleanUpGroup`: ask what is left, look, kill |
| `Reap`, `Copied` | the goroutine: `cmd.Wait`, `WaitDelay` and output that is cut off |
| `Fork`, `LeaveGroup`, `CloseOutput`, `Exit`, `Reuse` | processes and the operating system |
| `Deadline`, `Cancel`, `Tick` | the limit of a step or check, a signal to loomlc, time |

`Agent` makes a call of it: `AskAgent` and `HearAgent` are the claude adapter (`claude.go` Ask: what is
refused before anything starts; timeouts, cancellation, failures, output that is
read or not, a transcript that cannot be written), `RunCheck` and `HearCheck` are `gate.go` one.

### Config, Validation, Branch, Setup, Invocation

A configuration is a record of sections of records; keys that are nested deeper in the file are
joined by `_`. A setting that a file writes (`Settings`) is a section, the name of an entry in it, and what it
says of the entry: values that code tells apart, such as an empty list, an unknown
field, a path with `..` in it. `Parsed` is `parse.go`: strict decoding, sections merged
with the preset's, steps merged by name and role, defaults. `Validation` has
one operator for each function of `validate.go`, each the set of problems it finds; a configuration
loads when there are none. `BranchName` is `branch.go`, with text as a sequence of words and marks.

| action | code |
|---|---|
| `ParseFlags`, `LoadConfig`, `PrintLifecycles` | `cli/run.go`, `feedback.go`, `tidy.go`, `lifecycles.go`; `config.Load` |
| `BuildLifecycle` | `app.go` Lifecycle: choosing it, roles, policy, scanner |
| `Preflight`, `BuildCommand` | `preflight.go`; `app.go` Engine, Reviser, Tidier; an argument that names another repository |
| `Take`, `Prepare` | the claim and the workspace, as far as a setting can make them fail |
| `Begin` (`Ask`, `Check`), `Start`, `Underway` | the first command a step runs, over `Agent` |
| `Report` | what describes the run, and the exit code |

`lacking` is what the machine, the repository or the file lacks (a tool, the file, access). A provider's command
can be a relative path (`Relative`): it is looked for in the directory loomlc was started in, and started in the
workspace, which need not have it ("path in workspace", `Startable`). `blame` is the
setting that stopped the work after a task was taken. When a command starts, what led to
it is forgotten (`Forget`), so that TLC does not multiply configurations with processes.

Taken as given:

* The comments of `Review` have an order. GitHub's times are in seconds, and a comment
  counts as hidden when its second is the reply's. Reviews and inline comments are
  read in two calls; one read, of the newest `MaxFeedbackItems` (100 in the code), stands for them.
* Removing a workspace is one action, though git's list, the look for the
  directory and the command are three steps.
* Over changes that nobody committed, git refuses to rebase: the operator's own git
  configuration does not stash them (`rebase.autoStash`).
* An agent cannot switch the branch: the provider's adapter denies `git checkout`
  and `git switch`.
* A person's commits on a proposed branch may share a subject, and properties
  about folding are then stated for branches whose subjects are told apart.

## Runs

| run | instance | shows |
|---|---|---|
| `engine_safety` | two runs, one task, every fault, every person | the types; `DoneMeansProposed`, `ClaimAccounted`, `HeardMeansNotRequeued`; `NoWorkOverPushed`, `PushedWasCleared`: what is pushed is what was cleared, and nobody works over it |
| `engine_cap` | two runs, three tasks, a cap of one, nothing fails | the cap is overshot by one task at most |
| `engine_visits` | two runs, one named task, signals | the runs implement `TaskBoard`; every run ends; every claim is let go of, or its label edit went wrong |
| `publisher` | two files, two passes, answers of up to two commits, three sets of checks of which the verdict's may write files, three proposed branches | the eight invariants of `Publisher` over both modes, that a run ends, and that it implements `Attempt` |
| `review` | two processes, three comments of which a run reads two, lost calls and signals, people who comment, ask and clear labels | `RequestAccounted`, `HiddenWasHeard`: what a reviewer can count on of the conversation; the runs implement `Conversation` |
| `review_branch` | two processes, a commit and a fix, one more change, kills, people who push, unlock and close | the types; `GrowsOrFolds`, `WorkIsKept`: what everyone can count on of the branch |
| `invocation` | every command, flags and argument, up to two of ~77 settings and lacks at once, four tasks; a command, one child, a grace period of two ticks | `NothingLeftBehind`, `ReturnsInTime`, `GraceIsGiven`, `StoppedIsNoAnswer`, `PassedIsWhole` of commands; `ConfigurationIsTrusted`, `ModelStaysWithProvider`, `MisuseTakesNothing`, `TasksHaveOwnBranches`, `PathsStayInside` of settings; every invocation ends |
| `engine_no_orphan`, `engine_stopped_failed`, `publisher_verified`, `publisher_blockers`, `review_asking_again` | the smallest instance of each | that the code does not do what a comment or a document says (below) |

**Why the bounds are enough.** Runs of `Engine` touch each other only through one task's
labels, branch and directory: two runs on one task have every interleaving in
which one overtakes the other, and people add what a third would. The cap
relates tasks, so its run has three of them and runs that take different ones; with
a cap of one, two runs and two tasks reach the overshoot, and the third task
shows that it goes no further. Two passes are a pass with one before it and a last pass, and
nothing is carried further than to the next pass but `result`, which keeps the last
verdict and the last checks and so can be one pass stale. Two files and answers of
two commits tell a commit that covers a change from one that does not, a path
that is asked for twice, and a second commit that fails after the first. Two
acceptable subjects and a refused one (a fix's) give two commits called the same.
Identifiers grow with the passes, which are bounded.
`Review` is split by what a fault can reach: comments and labels need lost calls and
signals but no change to the branch beyond the one proposed; the branch and the worktrees need kills and people who push. Two
processes of either kind are every pair of a revision and a tidy, and a person is a
third. A comment that is too old to be read, one read, one posted while it is answered: three. A commit, its
fix and one change made during either run: `MaxWork = 3`.
The checks of three sets of steps are: none; a step shown the results of others (the plan's and the
verdict's), with checks before the push; one with checks of its own. The verdict's are the ones that
write: what others write is committed by the pass after them or pushed by nobody.
In `Invocation`, two oddities (`Oddities = 2`) are a setting that is wrong only beside another;
rules that relate more are over fields of one section, which a setting gives together. A
template of four words and marks (`MaxSlug`) has room for both of a task's fields and what sets them
apart; the four tasks share ids, titles and slugs where they can. A second child does only
what the first may (the run was repeated once with two, at `Grace = 1`). A grace period
of two ticks has a beginning, a middle and an end.

**Fairness.** `Engine` has weak fairness of each run's next call: steps and
gates have time limits (`provider/claude/claude.go:103`, `gate/gate.go:76`);
calls of `git` and `gh` have none of their own and are taken to answer in the
end. Nothing is assumed of operators, signals or people. `Publisher` has
weak fairness of the run's next step, for the same reason. `Invocation` has weak fairness of its
own steps, of Run, of the goroutine that waits and of the limit of a step or check, and strong
fairness of time: while a group's id changes hands, `Tick` is disabled and enabled again
without end. Nothing is assumed of the processes, which may run for ever. `Own` is one
condition for all stages at which no command runs: some step can always be taken there
(deadlock is checked) and whichever is leaves the stage. `Review` states safety only. `Publisher` and `Lifecycle` have no deadlock: a run that is over stutters. In
`Engine` and `Review`, a new run can always be started.

**Mutants.** Every property has a definition beside the one it guards, named in
`PROJECT.json`, that changes the code the way a bug would: a cap off by one, a lookup that takes
any answer, a pushed branch that is worked on, a pass that does not count, a fold of a revision.
TLC finds the property violated with it.

## What the code does not do

Each is a run that TLC ends with a counterexample.

* **`NoClaimByNobody`.** "a run in flight releases its claim"
  (`cmd/loomlc/main.go:15`). The move to done is made on the run's own context: a signal
  after the pull request exists leaves the in-progress label, because the task
  counts as settled. `ClaimAccounted` is what holds instead.
* **`StoppedWorkIsRequeued`.** "the run was interrupted, so the task goes back in
  the queue" (`internal/task/task.go:74`). A cancelled check is a failed check, and a
  cancelled fold or policy check a refusal: the task is marked failed.
* **`VerifiedMeansChecked`.** "A lifecycle with neither is *unverified*"
  (`docs/config.md:187`). A gate on the plan step, which runs before anything is written, makes
  a lifecycle verified.
* **`BlockersAreOutstanding`.** "what was still outstanding when the passes ran out"
  (`internal/lifecycle/convert.go:135`). An earlier pass's verdict hides the last pass's failing checks.
* **`AskingAgainWorks`.** "A reviewer asks again by adding the label back"
  (`internal/run/revise.go:156`). A revision that breaks before it answers, say
  because the comments could not be read, apologises with the same marker a reply
  has (`revise.go:203`, `github.go:583`). The next run takes the apology for the last
  reply and finds "no review feedback loomlc hasn't already answered", though it
  answered none. `HiddenWasHeard` is what holds instead, with the comments such a reply
  hides as an exception, and those that come while a run is at work on earlier ones.

Others are not run:

* "Open publishes work a Decision allowed" (`internal/run/output.go:69`). Two runs that read the queue
  before either claimed share one workspace; one resets and rebuilds the branch between the
  other's decision and its push, which sends what it never read. `PushedWasCleared` is what holds: sharing a task is
  the only way to it, and whatever failed, stopped or was killed before, a run that has its task to itself pushes what was
  cleared, and only its own.
* "returns `pass` or `fail` with findings" (`docs/config.md:227`): a verdict that fails with none is taken
  (`internal/prompt/answer.go:89`), and the next change step is told nothing (`internal/lifecycle/lifecycle.go:223`).
  `EveryPassIsAnswered` is what holds, with this for its only exception.
* "every check below reads the history that will be pushed" (`internal/run/publish.go:102`): not in a
  revision whose verdict's checks wrote files (above).
* "different for every task, and never the base branch" (`internal/config/validate.go:326`): the template is tried
  with two made-up tasks. `{{.Slug}}{{.ID}}` can give two tasks one branch, `release-{{.ID}}` the
  base branch `release-7`. The exceptions of `TasksHaveOwnBranches` are, of templates that are made of words, marks, the id
  and the slug: one that is not `Separated`, and a base that has every digit of the task's id in it. Validation
  accepts any other action of a template too (`{{slice .ID 0 1}}`, `validate.go:366`), and what those make of two tasks is not modelled.
* "so the rest of loomlc can trust what it reads" (`internal/config/config.go:1`): `allowed_commands` that claude's rules
  cannot say are refused when the agent is asked. Preflight looks for the steps' providers and not for
  the commands of checks. And it looks from loomlc's own directory (`internal/app/preflight.go:41`): a provider whose `cmd` is "a
  path" (`docs/config.md:75`) that is relative is found there, started in the workspace
  (`internal/provider/claude/claude.go:122`), and fails after the task is taken where git does not track it. All three are exceptions of
  `ConfigurationIsTrusted`, as is a title that makes a bad branch.
* "this is the remote's own tip rather than whatever a local branch held" (`internal/run/tidy.go:162`). The
  lease is read from the local branch, after a workspace that another process shares: a tidy can lease what
  another has already folded there. If that other's push landed and was reported lost, and a third process that
  fetched before it resets the branch, the first one's push undoes the fold. Nobody's change is lost, and
  `GrowsOrFolds` says what is true: a step of a tidy leaves the remote with the same fold, not with fewer commits.
* A process that leaves its group (`setsid`) is not stopped, and one that no signal ends is given up on; the
  group's id may be another's between the look and the signal (`internal/proc/proc.go:113`).
* A check that passes and leaves its output open is an error and breaks the run
  (`internal/gate/gate.go:93`); with a non-zero exit code the same is only a failed check.
* `loomlc run github#` takes the next task; `--max-iter 0` is accepted where the message says at least 1
  (`internal/cli/run.go:72`); an unknown `--lifecycle` is exit code 1 and not 2.

One more: the loop reads only whether a change step is
`blocked`, so one that answers `needs_more` on the last pass is judged and can be
proposed, where `implement_change.md.tmpl:75` says it "ends the run with nothing
proposed". And `WorkIsKept` needs its exception, `bare`: the branch is reset by a command
after the one that backs it up, so what another process commits in between is
reset away unsaved (`worktree.go:165`, `:183`).

## Proofs

### EngineProofs

It proves, for any runs, tasks, cap, faults and people that satisfy
`EngineAssumption` (tasks are positive numbers, tasks and runs are finite, the value
for a missing branch is no branch), and nothing else:

* `TypeCorrect`, `DoneHasAPullRequest`, `EveryClaimIsAccountedFor`,
  `AnsweredStaysOutOfTheQueue`: the types, and what labels and pull requests say;
* `PushedStands`: `NoWorkOverPushed`, and `PushesWhatWasCleared`: `PushedWasCleared`, of branches;
* `Refinement`: `Spec => KeepsTheBoard`, that every run implements `TaskBoard`.

None of the invariants is inductive by itself, and `IInv` is

    TypeOK /\ RunInv /\ DoneMeansProposed /\ Owed

`RunInv` says what a process knows at each point: past the pick it has a task
(`KnowsTask`); what it remembers having told fits the call it is about to make, so that it
is not `settled` before `finish` nor `told` before `fail` (`Remembers`); and from
`finish` on, its task's pull request was opened, by whomever. `Owed` is `ClaimAccounted` with its
reason: a claimed task has a run that still holds it, or is in `lapse`. It is needed with
`RunInv` because a process that lets go of the workspace keeps the claim exactly
when it is not settled. `Init` establishes `IInv`; `StepTyped`, `StepOwn` and the
lemmas after them treat the actions of `Step` one by one; `OthersKeep` says a step of one run
leaves the others' state alone; `OpenedStays` says a pull request that was opened stays so
whatever people do. `Refinement` maps each action to the board's step it takes, or a
stutter: `Claim` to `Take`, `Create` to `Propose`, `Lookup` and `Comment` to
`Tell`, `Fail` to `Report`, `GiveBack` to itself. Updates of a process's
record are operators with a lemma for their fields each (`AtFields`, `ToldFields`, ...), so that no
leaf has to expand them.

The two about branches have an invariant of their own, `OwnInv` (`OwnWork`), over `IInv`: of a run and a task that
it has and that is not in `shared`, no other run has the task (`Own`); while the run works the remote has no branch of
it; the checkout's branch has only that run's commits once it was prepared; and what was cleared is what is there.
That is what the check of a pushed branch, the reset of `Prepare` and the reading of `Check` are for, and each
is needed. A step of another run cannot disturb it, because no other run has the task
(`StepReach`, `StepHolds`: what a step of a run can change is its own task's; `OwnOthers`).

### EngineCapProofs

`CapIsNearlyKept`: `CapOvershootBounded` holds for any runs, tasks, cap and faults, with every signal and
whatever people do, given that no run is named a task (`Named = {}`) and nobody reopens an issue. Both are needed: a task that is named
is taken whatever the cap (`engine.go` pick), and an issue that is reopened brings back a pull request or a
claim that no run counted. That is wider than the run that shows it, in which nothing fails.

A run reads the cap in two calls and claims in a third, so what it saw is out of date when it
matters. What is inductive is how often that can happen:

    CapInv == RoomFor(Unspent) /\ \A s \in Counting : MayPass(s)

`Unspent` are the runs past the cap's check, each of which may still add one task to those that count; there
is room for all of them below the cap plus the number of runs. `MayPass` is what makes that true of a run
between its two reads: if the numbers that it adds up stay below the cap, then either each pull request opened
since its first read came from a run that is spent, or another that counted later has passed,
and there is room for this one too. Each step of the engine is one of four: it can only ease
(`Easing`), it spends what the run had (`Spending`), it reads the first number (`Reading`), or passes
the check (`Passing`).

### PublisherProofs

For any paths, passes, answers, sets of checks, writing checks and proposed branches that satisfy
`LifecycleAssumption` (at least one pass; the numbers are numbers, the checks those of steps) and
`ProposalsAssumption` (a proposed branch is a sequence of commits, each with its position for an
identifier, by a person):

* `TypeCorrect`: the types;
* `EveryCommitIsReported`, `PromptsShowTheFiles`, `PassesAreTold`, `ClearedIsWhatWasJudged`,
  `CommittedWorkIsJudged`: what the report, the prompts and the verdict are about;
* `FixesReachReviewers`, `FixesFindTheirTargets`: what becomes of fixes;
* `AttemptKept`: `Spec => KeepsToTheAttempt`, that a run implements `Attempt`.

The first eight are all eight invariants of `publisher`. The inductive invariant is
`PubInv == Shapes /\ Commitments /\ Prompts /\ Judgements`, with `TypeOK`, `Histories` and `Heads` beside it for the later theorems.
`Commitments` says of which sequence the result's commits are the account: of the branch between
passes, and of what the pass began with (`start`) while the agent may do as it likes to the
branch; that HEAD goes back to it is what makes `TakeBack` restore it. `Prompts` says from where to where the checks
that are carried are about the files. `Judgements` says when the files are what is committed: after
the commits until the checks of the verdict write, and again, in a run that implements a
task, once it folded. `Covered` is the lemma behind the first: commits that check out cover every
change. `Histories` says whose the commits on the branch are: the agent's are seen in a change step only; else
it is `Own`, the commits from before the run and then the engine's, numbered in order, and each of the engine's fixes has the
commit that it was made for as its target, if the subjects of those before could be told apart (`Aimed`).
Each part has its own lemma, with a step for each action.

`AttemptKept` maps each action to the step of an attempt that it takes, or to a stutter: `MakeCommits` to `Commit`,
`Again` and the end of a lifecycle to `Stop`, `Change` and `Agent` to nothing that is seen. What it needs of the invariant is
`Commitments`, for what is reported; and `Heads`: HEAD is where the pass began or has one commit of the agent's on it or
for its last (`Strayed`), which is all that a run that breaks there leaves; and the gates have something to decide on.

A branch that is folded is its commits that stay, in order. The library's `SelectSeq` is
recursive, and so out of reach: `Folded` is written by rank, its n-th commit being the one with n
kept ones up to it (`Kept`), and `KeptCounts` and `KeptAt`, by an argument about the least number, say that there
is such a commit. `KeptRises` says that the rank grows with every commit that stays, so `FoldedElements`: the folded
branch is made of these, of every one of them, and in their order.

### ReviewProofs

For any processes, bounds on comments, on feedback read and on changes, proposed branch, faults and people
that satisfy `ReviewAssumption` (the two keys are a task's and a pull request's; the bounds are numbers, and a
run reads at least one comment; a proposed branch has commits, begins with one that is not a fix, and its changes are numbered from one):

* `TypeCorrect`: the types;
* `RequestsAccounted`, `CommentsHeard`: of the conversation;
* `ConversationKept`: `Spec => KeepsTheConversation`, that the runs implement `Conversation`;
* `WorkKept`, and `RemoteGrowsOrFolds`, an action property: of the branch.

The inductive invariant is

    IInv == TypeOK /\ (\A p \in Procs : Knows(p)) /\ Checkouts /\ Descent /\ Coherent
              /\ WorkIsKept /\ BackedUp /\ RequestAccounted /\ HiddenWasHeard /\ AnswersCover

`Knows`: what a process is by where it is; that one which replied has let go of nothing but its workspace and labels.
`Checkouts`: a branch begins with a commit that is no fix, and is checked out in one place at most, which is git's rule (`Addable`).
`Descent`: whose changes are whose; the clone tracks no change that the remote lacks, and what a
tidy has leased or folds has only changes that were pushed. `Coherent`: two of the three branches with the same
changes are the same but for fixes that are folded; so a fold that is pushed
over the lease is a fold of what it replaces. `BackedUp` is what makes `WorkIsKept` inductive: between the backup
and the reset, what the branch holds is saved, on the remote, or in `bare`. `AnswersCover`
is `HiddenWasHeard` one step early: of a run that has read its comments, that those it did not read were heard, passed or
made way for as many newer ones as are read at once.

Every step of the specification has one of about ten effects on the branches (`Fetched`,
`Removed`, `Saved`, `Reset`, `Committed`, `Pushed`, `Leased`, `Squashed`, `Forced`, or none: `Quiet`), and
the parts about branches are proved of the effects; `Labelled` and `Spoke` are the same for labels and comments.

`ConversationKept` has a process in one of the stages of a conversation by the call it makes next (`Stage`, in `Review`):
"working" until it has replied, "sorry" when it broke before that, "leaving" when only labels are left. `ToTell` is what
makes the stage of a process that broke the right one: a revision that broke has let go of nothing but its workspace before it
says so, and it keeps what it read only as long as a reply is to come. `Conversation` lets a reply hide only what was read, excused or made way for newer ones: that is `AnswersCover`, at the
reply. Every other step is silent (`SilentTurns`) and moves one process to another stage, forgets what it read, or does nothing
that is seen; a tidy is never seen at all.

### InvocationProofs

For any settings, tasks, oddities, processes and grace period that satisfy
`CommandAssumption` (finitely many processes; a grace period of at least a tick):

* `TypeCorrect`: the types;
* `NothingIsLeftBehind`, `RunReturnsInTime`, `GraceWasGiven`: of the process runner;
* `StoppedNeverAnswers`, `PassedWasWhole`: of what is heard of a command;
* `WrongLinesTakeNothing`: of what is taken.

`IInv == TypeOK /\ CommandInv /\ Looked`. `CommandInv` is what Run and the
goroutine know of the operating system at each point: `Fresh`, that nothing was started before
`Enter`; `Knows`, what it can have told at which point, and when the context must be over;
`Reaped`, that a leader that was waited for is not alive; `Killed`, that what was sent SIGKILL starts
nothing, so that a group that was killed stays so; `Asked`, that the time since the group was asked to
end and what is left of the grace period add up to more than one; `Timely`, that `late` and what is left of the timers are bounded
at each point, by one, two or three grace periods: the potential that makes `ReturnsInTime`
inductive. `Looked` says what the stages before a task have already refused.

### Counting, BranchProofs, SettingsProofs

`Counting` has what the other two need of recursion: a set of numbers that is not empty has a least one; what
holds of zero and of the next number each time holds up to `n`, for a property given as a set, since the provers cannot
instantiate one given as an operator; and a function defined by recursion up to `n` exists and is that one.

`SettingsProofs` proves, under `BranchAssumption` (titles and ids are texts, and a task's id has no marks
in it: GitHub's are numbers) and `SettingsAssumption` (what a setting gives is typed, as
strict decoding has it; finitely many usual ones; no setting of a step asks for the preset's own model by itself), for
any settings, tasks and oddities:

* `NothingElseStopsTheWork`: once a task is taken, only what `ConfigurationIsTrusted` excepts can refuse the work;
* `ModelsAreNotMixedUp`: a model goes to the provider it was written for;
* `NoPathLeadsOut`: following a path of a configuration that loads never leaves the repository;
* `BranchesTellTasksApart`: `TasksHaveOwnBranches`.

The last condition of `SettingsAssumption` keeps `ModelStaysWithProvider` about mixing: that one recognises the
preset's model by its name, which a user may write for another provider.

*Branches.* `IdsAreTold`: if two tasks have one branch under a template that sets ids apart, the ids are the same. One of
the two slugs is no shorter than the other. At the first id that ends no further on in the task with the longer
slug, that id begins no earlier and so lies within the other's id; the mark beside it, which no id has in it, leaves it no room to be
smaller. The names are the same there, and so are the ids. `IdIsInName`: every digit of the id is in the name,
which is what is left of "never the base branch".

*Settings.* Settings that are typed stay so when they are read, joined, merged with the
preset's and given defaults (`Fitting`, `TypedStep`); merging keeps every model with its provider.
A configuration without problems is `Sound`: what each rule of `Validation` refuses is not there. Of a path that
`escapes` does not refuse, `Leads` follows the cleaning part by part: its depth is the length of what is left after each part, so
`..` never leads below the start. Then the invariant:

    SettingsInv == IsFiniteSet(written) /\ Trusted /\ ConfigurationIsTrusted /\ ModelStaysWithProvider

`Trusted` is what has been made sure of at each stage: a configuration that is valid once it is loaded, a
lifecycle that was picked and steps that build once it is built, commands that are installed once they were looked for, and
three steps unless the command is a tidy. Nothing of it is wanted when the work is stopped, but without it a step of
the work could be stopped by anything.

### What is only model-checked

Liveness, since fairness is out of the prover's reach: `RunsEnd` and `ClaimsAreGivenBack` of `Engine`, `Ends` of
`Publisher` and of `Invocation`. `Review` states no liveness: its graph without symmetry is too large to check.
Every other property of a passing run is a theorem.

## Not modelled

* Rendering: prompts, the records written of each step, everything printed. They are inputs, or
  failures (`Break`). The commands `version`, `help` and `providers` only print.
* Of the configuration: drafts, the sections of a template and of a body, and `since_last_reply`, which are passed
  on; the words of a problem. YAML itself is taken to decode into the settings that it says.
* Of the claude adapter: the command line it makes, the transcript, resuming a session.
* `scripts/`: shell for the release of loomlc itself, but for the policy on fixes.
* Secrets: redaction and scanning are text processing. `Inspect` has the scanner's refusal.
* The text of comments, descriptions and commit messages, and whether the policy accepts it,
  but for fixes.
* Symbolic links: `PathsStayInside` is about paths as they are written, as is the code's own check.
* Template actions in a branch's name other than the id and the slug.
* Limits on list lengths of `gh`, far above the caps in use.
* In `Review`, an agent that rewrites the last commit of the branch: `Publisher` has it and
  `Attempt` says what may come of it. In `Review` a lifecycle adds a commit or leaves the branch.

## Plan

1. *Engine, TaskBoard, EngineProofs*: done.
2. *CommitCheck, Lifecycle, Publisher*: done.
3. *Worktree, Review, Conversation, ReviewProofs*: done, except liveness (a request for changes is answered or
   explained in the end), which needs a smaller instance than these.
4. *EngineCapProofs*: done. The cap with tasks that are named or reopened, each of which adds one.
5. *Command, Agent, Branch, Config, Validation, Setup, Invocation*: done.
6. *PublisherProofs*, *InvocationProofs*, *Counting*, *BranchProofs*, *SettingsProofs*: done.
7. *Checks that write files*, in `Lifecycle`: done. A task whose title
   is edited between runs and a queue with a task that always fails, in `Engine`, with their proofs.
8. *Attempt*: done. `Engine` and `Review` with `Attempt`'s actions in the place of their own, for which an
   attempt would have to be one variable for each run.
9. The commit checker against a reference definition with the spelling of paths.
