------------------------------ MODULE Validation ------------------------------
(***************************************************************************)
(* What is wrong with a configuration (internal/config/validate.go): every *)
(* problem, each by the entry and the key it is about.                     *)
(*                                                                         *)
(* A text that a pattern decides on is in a set of those it refuses.       *)
(***************************************************************************)
EXTENDS Config, Branch

\* The refused among the names, repositories, logins and commands that a file may hold.
Misnamed == {"", "Fast", "fast one"}
NotARepository == {"widgets", "acme/widgets/main"}
NotALogin == {"-octocat", "octo cat"}
Spaced == {"claude --fast"}

minWatchInterval == 30
maxStepTimeout == 4 * 3600
maxLoopIterations == 20

Problem(at, wrong) == IF wrong THEN {at} ELSE {}

checkName(n) == Problem(<<n, "name">>, n \in Misnamed)

\* path.Clean: what is left of a path once "." and what ".." takes back are gone.
followed(out, part) ==
  CASE part = "." -> out
    [] part = ".." /\ out # <<>> /\ Last(out) # ".." -> Front(out)
    [] OTHER -> Append(out, part)

Cleaned(path) ==
  LET cleaned[i \in 0..Len(path)] ==
        IF i = 0 THEN <<>> ELSE followed(cleaned[i - 1], path[i])
  IN cleaned[Len(path)]

\* Mutant: a path is looked at as it is written.
escapesAtFirst(path) == path[1] = "/" \/ path[1] = ".."

escapes(path) == path[1] = "/" \/ ".." \in ToSet(Cleaned(path))

checkRelativePath(at, path, required) ==
  Problem(at, IF path = <<>> THEN required ELSE escapes(path))

\* A label that is missing, or that a setting before it uses.
checkLabels(n, e, keys) ==
  UNION {Problem(<<n, keys[i]>>,
           e[keys[i]] = "" \/ \E j \in 1..i - 1 : e[keys[j]] = e[keys[i]]) : i \in DOMAIN keys}
-----------------------------------------------------------------------------
validateProvider(n, p) ==
  checkName(n)
    \cup Problem(<<n, "adapter">>, p.adapter \notin {"claude", "codex", "pi"})
    \cup Problem(<<n, "cmd">>, p.cmd \in Spaced)
    \cup Problem(<<n, "permission_mode">>,
           /\ p.permission_mode # ""
           /\ \/ p.adapter # "claude"
              \/ p.permission_mode \notin {"acceptEdits", "auto", "bypassPermissions",
                                           "dontAsk", "manual", "plan"})

validateExecutor(n, e) ==
  checkName(n)
    \cup Problem(<<n, "type">>, e.type # "worktree")
    \cup checkRelativePath(<<n, "root">>, e.root, TRUE)
    \cup Problem(<<n, "root">>,
           e.root # <<>> /\ (Cleaned(e.root) = <<>> \/ Cleaned(e.root)[1] = ".git"))
    \cup Problem(<<n, "remote">>, e.remote = "")

validateSource(n, s) ==
  checkName(n)
    \cup Problem(<<n, "type">>, s.type # "github")
    \cup Problem(<<n, "repo">>, s.repo \in NotARepository)
    \cup checkLabels(n, s,
           <<"labels_done", "labels_failed", "labels_in_progress", "trigger_label">>)

authorAssociations ==
  {"OWNER", "MEMBER", "COLLABORATOR", "CONTRIBUTOR", "FIRST_TIME_CONTRIBUTOR", "FIRST_TIMER",
   "MANNEQUIN", "NONE"}

validateFeedbackFrom(at, from) ==
  Problem(at, from = <<>> \/ ~(ToSet(from) \subseteq authorAssociations))

validateSink(n, s) ==
  checkName(n)
    \cup Problem(<<n, "type">>, s.type # "github-pr")
    \cup Problem(<<n, "base">>, branchProblem(s.base))
    \cup Problem(<<n, "reviewer">>, s.reviewer \in NotALogin)
    \cup checkRelativePath(<<n, "template">>, s.template, FALSE)
    \cup validateFeedbackFrom(<<n, "feedback_from">>, s.feedback_from)
    \cup checkLabels(n, s, <<"feedback_in_progress", "feedback_label", "label">>)
-----------------------------------------------------------------------------
validateRole(s) ==
  IF s.role = <<>> THEN {<<s.name, "role">>}
  ELSE IF roleOutput(s.role) # "" THEN Problem(<<s.name, "output">>, s.output # roleOutput(s.role))
  ELSE IF Last(s.role) \in {"own.md", "huge.md", "blank.md"}
  THEN checkRelativePath(<<s.name, "role">>, s.role, TRUE)
         \cup Problem(<<s.name, "output">>, s.output \notin {"plan", "change", "verdict"})
  ELSE {<<s.name, "role">>}

\* Mutant: a vendor is looked at only where there must be one.
validateStepProviderNeeds(c, s) ==
  IF s.provider \notin DOMAIN c.providers THEN {<<s.name, "provider">>}
  ELSE IF c.providers[s.provider].adapter = "pi"
  THEN Problem(<<s.name, "vendor">>, s.vendor = "") \cup Problem(<<s.name, "model">>, s.model = "")
  ELSE {}

\* The provider a step names, and what that one needs.
validateStepProvider(c, s) ==
  IF s.provider \notin DOMAIN c.providers THEN {<<s.name, "provider">>}
  ELSE IF c.providers[s.provider].adapter = "pi"
  THEN Problem(<<s.name, "vendor">>, s.vendor = "") \cup Problem(<<s.name, "model">>, s.model = "")
  ELSE Problem(<<s.name, "vendor">>, s.vendor # "")

\* Mutant: any time limit is one.
validateTimeoutLong(s) == Problem(<<s.name, "timeout">>, Seconds[s.timeout] > maxStepTimeout)

validateTimeout(s) ==
  Problem(<<s.name, "timeout">>, Seconds[s.timeout] <= 0 \/ Seconds[s.timeout] > maxStepTimeout)

validateStep(c, s) ==
  checkName(s.name)
    \cup validateStepProvider(c, s)
    \cup validateRole(s)
    \cup Problem(<<s.name, "readonly">>,
           \/ s.output = "change" /\ s.readonly
           \/ s.output \in {"plan", "verdict"} /\ ~s.readonly)
    \cup validateTimeout(s)
    \cup Problem(<<s.name, "max_iter">>,
           IF s.loop_with = "" THEN s.max_iter # 0 ELSE s.max_iter \notin 1..maxLoopIterations)

\* A plan step, a change step that loops with the verdict step after it, and feedback runs
\* that use that loop.
validateShape(n, lc) ==
  IF Len(lc.steps) # 3 THEN {<<n, "steps">>}
  ELSE LET plan == lc.steps[1]  change == lc.steps[2]  verdict == lc.steps[3] IN
    Problem(<<n, "steps">>,
        \/ <<plan.output, change.output, verdict.output>> # <<"plan", "change", "verdict">>
        \/ change.loop_with # verdict.name
        \/ plan.loop_with # "" \/ verdict.loop_with # "")
      \cup Problem(<<n, "feedback_steps">>, lc.feedback_steps # <<change.name, verdict.name>>)

verified(lc) ==
  lc.publish_gates # <<>> \/ \E i \in DOMAIN lc.steps : lc.steps[i].gate # <<>>

validatePublish(n, lc) ==
  Problem(<<n, "publish_allow_unverified">>, lc.publish_allow_unverified /\ verified(lc))

\* The base of a sink that is not there is empty.
BaseOf(c, lc) == IF lc.sink \in DOMAIN c.sinks THEN c.sinks[lc.sink].base ELSE <<>>

validateLifecycle(c, n, lc) ==
  checkName(n)
    \cup Problem(<<n, "executor">>, lc.executor \notin DOMAIN c.executors)
    \cup Problem(<<n, "source">>, lc.source \notin DOMAIN c.sources)
    \cup Problem(<<n, "sink">>,
           \/ lc.sink \notin DOMAIN c.sinks
           \/ /\ lc.source \in DOMAIN c.sources
              /\ c.sinks[lc.sink].type = "github-pr" /\ c.sources[lc.source].type # "github")
    \cup Problem(<<n, "concurrency">>, lc.concurrency < 1)
    \cup Problem(<<n, "max_open_outputs">>, lc.max_open_outputs < 1)
    \cup Problem(<<n, "watch_interval">>, Seconds[lc.watch_interval] < minWatchInterval)
    \cup Problem(<<n, "branch">>, validateBranchTemplate(lc.branch, BaseOf(c, lc)))
    \cup (UNION {checkRelativePath(<<n, "protected_paths">>, lc.protected_paths[i], TRUE)
                   : i \in DOMAIN lc.protected_paths})
    \cup (UNION {validateStep(c, lc.steps[i]) : i \in DOMAIN lc.steps})
    \cup Problem(<<n, "name">>,
           \E i, j \in DOMAIN lc.steps :
             i # j /\ lc.steps[i].name # "" /\ lc.steps[i].name = lc.steps[j].name)
    \cup validatePublish(n, lc)
    \cup validateShape(n, lc)

validate(c) ==
  Problem(<<"top", "version">>, c.top["config"].version # 1)
    \cup (UNION {validateProvider(n, c.providers[n]) : n \in DOMAIN c.providers})
    \cup (UNION {validateExecutor(n, c.executors[n]) : n \in DOMAIN c.executors})
    \cup (UNION {validateSource(n, c.sources[n]) : n \in DOMAIN c.sources})
    \cup (UNION {validateSink(n, c.sinks[n]) : n \in DOMAIN c.sinks})
    \cup (UNION {validateLifecycle(c, n, c.lifecycles[n]) : n \in DOMAIN c.lifecycles})
=============================================================================
