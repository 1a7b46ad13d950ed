-------------------------------- MODULE Setup ---------------------------------
(***************************************************************************)
(* A command of loomlc's, from its command line to the work: the flags     *)
(* (internal/cli), the configuration, the parts that are built from it     *)
(* (internal/app/app.go), and what the machine lacks (preflight.go).       *)
(***************************************************************************)
EXTENDS Validation

CONSTANTS
  Settings, \* what a loomlc.yml may say besides the usual
  Oddities  \* how many unusual things there may be at once

Commands == {"run", "feedback", "tidy", "lifecycles"}

\* A path that is found from the directory in which loomlc was started.
Relative == {"./claude"}

\* How a command may be typed, and what a machine or a checkout may lack: a path that git
\* does not track is not in a workspace either.
Flags == {"--help", "--nonsense", "two arguments", "--config=", "--config=loomlc.yml",
          "--lifecycle=sdlc", "--lifecycle=nightly", "--max-iter=-1", "--max-iter=0"}
Arguments == {"none", "9", "own#9", "other#9", "own#", "-9"}
Tools == {"git", "gh", "claude", "codex", "pi", "make"} \cup Relative
Lacking == Tools \cup {"loomlc.yml", "access to loomlc.yml", "content", "policy script",
                       "template", "role", "repository", "root", "remote", "path in workspace"}

\* A step is written with a role that is a text, and the preset's model, "sonnet", with the
\* provider that it is meant for, or with an empty one, which validation refuses.
TypedStep(s) ==
  /\ s = [k \in DOMAIN s |-> s[k]]
  /\ "role" \in DOMAIN s => IsText(s.role)
  /\ "model" \in DOMAIN s /\ s.model = "sonnet" =>
       "provider" \in DOMAIN s /\ s.provider \in {"claude", ""}

\* Branches and paths are texts, and so are lists.
Typed(key, value) ==
  /\ key \in {"root", "template", "branch", "role"} => IsText(value)
  /\ key = "protected_paths" => \A i \in DOMAIN value : IsText(value[i])
  /\ key = "steps" => IsText(value) /\ \A i \in DOMAIN value : TypedStep(value[i])

\* The preset's model is not one that a setting of a step asks for by itself.
ASSUME SettingsAssumption ==
  /\ Oddities \in Nat /\ IsFiniteSet(Usual)
  /\ \A s \in Settings \cup Usual :
       /\ \A k \in DOMAIN s.entry : Typed(k, s.entry[k])
       /\ s.section = "steps" => "model" \notin DOMAIN s.entry \/ s.entry.model # "sonnet"

VARIABLES
  stage,    \* how far the command has come
  cmd,      \* which command it is
  flags,    \* the flags that were typed
  argument, \* and the argument
  lacking,  \* what the machine or the checkout lacks
  written,  \* what loomlc.yml says
  cfg,      \* the configuration, once it is loaded
  exit      \* the exit code, or -1 before there is one

typedVars == <<cmd, flags, argument>>
setupVars == <<stage, typedVars, lacking, written, cfg, exit>>

NoConfig == <<>>

\* The sets of at most n of S.
AtMost(n, S) == {ToSet(s) : s \in [1..n -> S]}

SetupInit ==
  /\ stage = "flags" /\ cfg = NoConfig /\ exit = -1
  /\ cmd \in Commands /\ argument \in Arguments
  /\ LET n == Oddities - IF argument = (IF cmd = "tidy" THEN "9" ELSE "none") THEN 0 ELSE 1 IN
     \E f \in 0..n : \E l \in 0..n - f :
       /\ flags \in AtMost(f, Flags)
       /\ lacking \in AtMost(l, Lacking)
       /\ written \in AtMost(n - f - l, Settings)
-----------------------------------------------------------------------------
\* What came before is forgotten once it has been acted on.
ExitWith(c) ==
  /\ stage' = "exited" /\ exit' = c
  /\ cfg' = NoConfig /\ written' = {} /\ lacking' = {}
  /\ UNCHANGED typedVars

Proceed(next) ==
  /\ stage' = next
  /\ UNCHANGED <<typedVars, lacking, written, cfg, exit>>

Id == IF argument \in {"none", "own#"} THEN "" ELSE IF argument = "-9" THEN "-9" ELSE "9"

\* A flag that the command does not have.
Unparsed ==
  \/ "--nonsense" \in flags
  \/ cmd \notin {"run", "feedback"} /\ flags \cap {"--max-iter=-1", "--max-iter=0"} # {}
  \/ cmd = "lifecycles" /\ flags \cap {"--lifecycle=sdlc", "--lifecycle=nightly"} # {}

\* How many arguments there are, an empty --config, what is no id, a negative number of passes.
Misused ==
  \/ "two arguments" \in flags
  \/ cmd = "lifecycles" /\ argument # "none"
  \/ cmd = "tidy" /\ argument = "none"
  \/ "--config=" \in flags
  \/ Id = "-9" \/ (cmd = "tidy" /\ Id = "")
  \/ "--max-iter=-1" \in flags

\* Help and an unknown flag: whichever comes first.
ParseFlags ==
  /\ stage = "flags"
  /\ \/ "--help" \in flags /\ ExitWith(0)
     \/ Unparsed /\ ExitWith(2)
     \/ {"--help"} \cap flags = {} /\ ~Unparsed /\ IF Misused THEN ExitWith(2) ELSE Proceed("load")
-----------------------------------------------------------------------------
(***************************************************************************)
(* The configuration (internal/cli/lifecycles.go, loadConfig).             *)
(***************************************************************************)
Explicit == "--config=loomlc.yml" \in flags

\* There is a file and it can be read, or there need not be one.
FileReads ==
  /\ "access to loomlc.yml" \notin lacking
  /\ "loomlc.yml" \in lacking => ~Explicit

Empty == lacking \cap {"loomlc.yml", "content"} # {}

\* Parse: what the configuration comes to, and that it is one.
Parse == IF Empty THEN ParsedPreset ELSE Parsed(written)

LoadConfig ==
  /\ stage = "load"
  /\ IF FileReads /\ (Empty \/ Decodes(File(written)))
     THEN \E c \in {Parse} :
            IF validate(c) = {}
            THEN cfg' = c /\ stage' = "loaded" /\ UNCHANGED <<typedVars, lacking, written, exit>>
            ELSE ExitWith(1)
     ELSE ExitWith(1)

\* loomlc lifecycles ends here: it prints what was loaded.
PrintLifecycles ==
  /\ stage = "loaded" /\ cmd = "lifecycles"
  /\ ExitWith(0)
-----------------------------------------------------------------------------
(***************************************************************************)
(* The parts of a lifecycle (app.go).                                      *)
(***************************************************************************)
Names == DOMAIN cfg.lifecycles

\* The lifecycles that a name stands for: one, or none.
pick ==
  CASE "--lifecycle=sdlc" \in flags -> Names \cap {"sdlc"}
    [] "--lifecycle=nightly" \in flags -> Names \cap {"nightly"}
    [] OTHER -> IF Cardinality(Names) = 1 THEN Names ELSE {}

Lc == cfg.lifecycles[CHOOSE n \in pick : TRUE]

Remote == cfg.executors[Lc.executor].remote

\* forge: a repository, and a label for every purpose.
forgeBuilds ==
  LET source == cfg.sources[Lc.source]  sink == cfg.sinks[Lc.sink] IN
  /\ source.repo # "" /\ source.repo \notin NotARepository
  /\ "" \notin {source.trigger_label, source.labels_in_progress, source.labels_done,
                source.labels_failed, sink.label, sink.feedback_label,
                sink.feedback_in_progress}

DefaultMaxRole == 64 \* KiB

\* The size of a role's text, in KiB.
SizeOf(role) ==
  CASE Last(role) = "huge.md" -> DefaultMaxRole + 1
    [] Last(role) = "blank.md" -> 0
    [] OTHER -> 1

\* Loader.Role: a role that is built in, or a prompt in the repository.
RoleLoads(role) ==
  \/ roleOutput(role) # ""
  \/ ~escapes(role) /\ "role" \notin lacking /\ SizeOf(role) \in 1..DefaultMaxRole

\* steps: an adapter that is written, and a role, for every step.
stepsBuild ==
  \A i \in DOMAIN Lc.steps :
    /\ cfg.providers[Lc.steps[i].provider].adapter = "claude"
    /\ RoleLoads(Lc.steps[i].role)

\* template: the repository's own.
templateReads == cfg.sinks[Lc.sink].template # <<>> /\ "template" \notin lacking

\* App.Lifecycle.
BuildLifecycle ==
  /\ stage = "loaded" /\ cmd # "lifecycles"
  /\ IF /\ pick # {}
        /\ forgeBuilds
        /\ Remote # ""
        /\ "policy script" \notin lacking
        /\ stepsBuild
        /\ templateReads
     THEN Proceed("built") ELSE ExitWith(1)
-----------------------------------------------------------------------------
(***************************************************************************)
(* What the machine lacks (preflight.go).                                  *)
(***************************************************************************)
MovesCommits == cmd = "tidy"

Installed == Tools \ lacking

\* What can be started with the workspace for its directory.
Startable == IF "path in workspace" \in lacking THEN Installed \ Relative ELSE Installed

commands ==
  {"git", "gh"} \cup
    IF MovesCommits THEN {} ELSE {cfg.providers[Lc.steps[i].provider].cmd : i \in DOMAIN Lc.steps}

\* Nothing would build or test the work, and nobody said that this is meant.
Unchecked == ~MovesCommits /\ ~verified(Lc) /\ ~Lc.publish_allow_unverified

Preflight ==
  /\ stage = "built"
  /\ IF /\ ~Unchecked
        /\ commands \subseteq Installed
        /\ lacking \cap {"repository", "root", "remote"} = {}
     THEN Proceed("checked") ELSE ExitWith(1)
-----------------------------------------------------------------------------
\* Mutant: what a task is called by is not looked at.
NamesAnotherNever == FALSE

\* A task or an output that is printed with the name of another source or sink.
NamesAnother == argument = "other#9"

\* The engine, the reviser or the tidier is built, for the source or the sink it was named by.
BuildCommand ==
  /\ stage = "checked"
  /\ IF ~MovesCommits /\ Len(Lc.steps) # 3 THEN ExitWith(1)
     ELSE IF NamesAnother THEN ExitWith(2)
     ELSE Proceed("ready")

SetupNext ==
  ParseFlags \/ LoadConfig \/ PrintLifecycles \/ BuildLifecycle \/ Preflight \/ BuildCommand
=============================================================================
