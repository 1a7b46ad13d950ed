-------------------------------- MODULE Config --------------------------------
(***************************************************************************)
(* A configuration: the built-in preset, the loomlc.yml that is merged     *)
(* over it, and the values it leaves out (internal/config/parse.go,        *)
(* values.go, config.go and preset/sdlc.yml).                              *)
(*                                                                         *)
(* A file is a set of settings: records of a section, a name in it, and an *)
(* entry, a function from keys to values.  Nested keys are joined by "_".   *)
(* The section "steps" holds the steps of the preset's own lifecycle, and  *)
(* "text" what is wrong with the file as text.  Text that the checks look  *)
(* into, such as a path, is a sequence of its parts.                       *)
(***************************************************************************)
EXTENDS Integers, SequencesExt

CONSTANT Usual \* the settings that a repository makes: its own name, and what checks its code

Sections == {"top", "providers", "executors", "sources", "sinks", "lifecycles"}

Preset ==
  [top |-> [config |-> [version |-> 1]],
   providers |->
     [claude |-> [cmd |-> "claude", permission_mode |-> "acceptEdits"],
      codex |-> [cmd |-> "codex"], pi |-> [cmd |-> "pi"]],
   executors |->
     [local |-> [type |-> "worktree", root |-> <<".loomlc", "worktrees">>, remote |-> "origin"]],
   sources |->
     [github |->
       [type |-> "github", trigger_label |-> "agent-ready",
        labels_in_progress |-> "agent-in-progress", labels_done |-> "agent-done",
        labels_failed |-> "agent-failed"]],
   sinks |->
     [n \in {"github-pr"} |->
       [type |-> "github-pr", base |-> <<"main">>, label |-> "agent-pr",
        template |-> <<".github", "pull_request_template.md">>,
        feedback_label |-> "agent-revise", feedback_in_progress |-> "agent-revise-in-progress",
        feedback_from |-> <<"OWNER", "MEMBER", "COLLABORATOR">>]],
   lifecycles |->
     [sdlc |->
       [executor |-> "local", source |-> "github", sink |-> "github-pr", concurrency |-> 3,
        max_open_outputs |-> 5, watch_interval |-> "5m",
        branch |-> <<"feat", "/", "issue", "-", "{{.ID}}", "-", "{{.Slug}}">>,
        protected_paths |-> <<<<"loomlc.yml">>, <<"prompts">>>>,
        feedback_steps |-> <<"engineer", "qa">>,
        publish_gates |-> <<>>, publish_allow_unverified |-> FALSE,
        steps |->
          <<[name |-> "plan", provider |-> "claude", model |-> "sonnet", role |-> <<"planner">>,
             readonly |-> TRUE, timeout |-> "30m"],
            [name |-> "engineer", provider |-> "claude", model |-> "sonnet",
             role |-> <<"engineer">>, loop_with |-> "qa", max_iter |-> 5, timeout |-> "60m"],
            [name |-> "qa", provider |-> "claude", model |-> "sonnet", role |-> <<"qa">>,
             readonly |-> TRUE, timeout |-> "30m"]>>]]]
-----------------------------------------------------------------------------
(***************************************************************************)
(* Values.                                                                 *)
(***************************************************************************)
\* The durations that time.ParseDuration reads, in seconds.
Seconds ==
  "-1m" :> -60 @@ "0s" :> 0 @@ "10s" :> 10 @@ "30s" :> 30 @@ "5m" :> 300 @@ "30m" :> 1800
    @@ "60m" :> 3600 @@ "4h" :> 14400 @@ "5h" :> 18000

shellSyntax == {"|", "&&", ";", "*.go", "$HOME", "(x)"}

\* A command is a list of arguments, or a string, split on its spaces.
CommandUnmarshals(c) ==
  /\ c.list \/ ToSet(c.words) \cap shellSyntax = {}
  /\ c.words # <<>> /\ c.words[1] # ""

CommandLists == {"gate", "allowed_commands", "publish_gates"}

Unmarshals(key, value) ==
  /\ key \in {"timeout", "watch_interval"} => value \in DOMAIN Seconds
  /\ key \in CommandLists => \A i \in 1..Len(value) : CommandUnmarshals(value[i])

\* The arguments of the commands among an entry's values.
Unmarshalled(entry) ==
  [k \in DOMAIN entry |->
    IF k \in CommandLists THEN [i \in 1..Len(entry[k]) |-> entry[k][i].words] ELSE entry[k]]
-----------------------------------------------------------------------------
(***************************************************************************)
(* Reading and merging.                                                    *)
(***************************************************************************)
\* A file of one document, whose keys are known and whose values can be read.
Decodes(written) ==
  \A s \in written :
    s.section # "text" /\ \A k \in DOMAIN s.entry : Unmarshals(k, s.entry[k])

\* What over says, and what it does not say as base has it: TLC's @@, as a definition.
Overlaid(over, base) ==
  [k \in DOMAIN over \cup DOMAIN base |-> IF k \in DOMAIN over THEN over[k] ELSE base[k]]

\* The settings of one name, together.
Entry(settings) ==
  [k \in UNION {DOMAIN s.entry : s \in settings} |->
    (CHOOSE s \in settings : k \in DOMAIN s.entry).entry[k]]

WrittenSteps(written) ==
  LET steps == {s \in written : s.section = "steps"}
      names == SetToSeq({s.name : s \in steps})
  IN [i \in DOMAIN names |->
       Overlaid([name |-> names[i]], Entry({s \in steps : s.name = names[i]}))]

decodeDocument(written) ==
  [section \in Sections |->
    LET here == {s \in written : s.section = section}
        lists == IF section = "lifecycles" /\ WrittenSteps(written) # <<>> THEN {"sdlc"} ELSE {}
    IN [n \in {s.name : s \in here} \cup lists |->
         Overlaid(Entry({s \in here : s.name = n}),
              IF n \in lists THEN [steps |-> WrittenSteps(written)] ELSE <<>>)]]

\* What a step says of a key, or nothing.
scalarValue(step, key) == IF key \in DOMAIN step THEN step[key] ELSE ""

\* Mutant: a step keeps its model whoever runs it.
withoutProviderSettingsKept(base, over) == base

\* A model and a vendor go with the provider that they were meant for.
withoutProviderSettings(base, over) ==
  IF scalarValue(over, "provider") \in {"", scalarValue(base, "provider")} THEN base
  ELSE [k \in DOMAIN base \ {"model", "vendor"} |-> base[k]]

\* A step is merged into the first one of its name, or follows the others.
mergeStep(out, step) ==
  LET name == scalarValue(step, "name")
      same == {i \in DOMAIN out : name # "" /\ scalarValue(out[i], "name") = name}
      first == CHOOSE i \in same : \A j \in same : i <= j
  IN IF same = {} THEN Append(out, step)
     ELSE [out EXCEPT ![first] = Overlaid(step, withoutProviderSettings(@, step))]

mergeSteps(base, over) ==
  LET merged[i \in 0..Len(over)] ==
        IF i = 0 THEN base ELSE mergeStep(merged[i - 1], over[i])
  IN merged[Len(over)]

mergeMapping(base, over) ==
  Overlaid(IF {"steps"} \subseteq DOMAIN base \cap DOMAIN over
       THEN [steps |-> mergeSteps(base.steps, over.steps)] ELSE <<>>,
       Overlaid(over, base))

mergeNode(base, over) ==
  [section \in Sections |->
    LET b == base[section]  o == over[section] IN
    [n \in DOMAIN b \cup DOMAIN o |->
      CASE n \notin DOMAIN o -> b[n]
        [] n \notin DOMAIN b -> o[n]
        [] OTHER -> mergeMapping(b[n], o[n])]]
-----------------------------------------------------------------------------
(***************************************************************************)
(* What a configuration leaves out.                                        *)
(***************************************************************************)
Zero ==
  [top |-> [version |-> 0],
   providers |-> [adapter |-> "", cmd |-> "", permission_mode |-> ""],
   executors |-> [type |-> "", root |-> <<>>, remote |-> ""],
   sources |->
     [type |-> "", repo |-> "", trigger_label |-> "", labels_in_progress |-> "",
      labels_done |-> "", labels_failed |-> ""],
   sinks |->
     [type |-> "", base |-> <<>>, label |-> "", reviewer |-> "", template |-> <<>>,
      feedback_label |-> "", feedback_in_progress |-> "", feedback_from |-> <<>>],
   lifecycles |->
     [executor |-> "", source |-> "", sink |-> "", concurrency |-> 0, max_open_outputs |-> 0,
      watch_interval |-> "0s", branch |-> <<>>, protected_paths |-> <<>>,
      feedback_steps |-> <<>>, publish_gates |-> <<>>, publish_allow_unverified |-> FALSE,
      steps |-> <<>>],
   steps |->
     [name |-> "", provider |-> "", vendor |-> "", model |-> "", role |-> <<>>, output |-> "",
      readonly |-> FALSE, loop_with |-> "", max_iter |-> 0, timeout |-> "0s",
      allowed_commands |-> <<>>, gate |-> <<>>]]

\* What a role that is built in produces.
roleOutput(role) ==
  CASE role = <<"planner">> -> "plan"
    [] role = <<"engineer">> -> "change"
    [] role = <<"qa">> -> "verdict"
    [] OTHER -> ""

Or(value, default) == IF value = "" THEN default ELSE value

upperCase(association) == IF association = "owner" THEN "OWNER" ELSE association

\* A step with a role that is built in need not say what comes of it.
withOutput(s) == [s EXCEPT !.output = Or(@, roleOutput(s.role))]

\* The defaults of one entry, whose name is n.
applyDefaults(section, n, e) ==
  CASE section = "providers" ->
         [e EXCEPT !.adapter = Or(@, n), !.cmd = Or(@, Or(e.adapter, n))]
    [] section = "sinks" ->
         [e EXCEPT !.feedback_from = [i \in DOMAIN @ |-> upperCase(@[i])]]
    [] section = "lifecycles" ->
         [e EXCEPT !.steps = [i \in DOMAIN @ |-> withOutput(@[i])]]
    [] OTHER -> e

\* An entry with all of its keys.
Decoded(section, entry) ==
  LET e == Overlaid(Unmarshalled(entry), Zero[section])
  IN IF section # "lifecycles" THEN e
     ELSE [e EXCEPT !.steps = [i \in DOMAIN @ |-> Overlaid(Unmarshalled(@[i]), Zero.steps)]]

Resolved(merged) ==
  [section \in Sections |->
    [n \in DOMAIN merged[section] |->
      applyDefaults(section, n, Decoded(section, merged[section][n]))]]

\* What a repository writes over its usual settings replaces them.
File(written) ==
  {s \in Usual : \A w \in written :
     w.section # s.section \/ w.name # s.name \/ DOMAIN w.entry \cap DOMAIN s.entry = {}}
    \cup written

Parsed(written) == Resolved(mergeNode(Preset, decodeDocument(File(written))))

\* The preset on its own.
ParsedPreset == Resolved(Preset)
=============================================================================
