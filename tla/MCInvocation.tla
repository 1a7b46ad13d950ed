----------------------------- MODULE MCInvocation -----------------------------
EXTENDS Invocation

At(section, name, key, value) == [section |-> section, name |-> name, entry |-> key :> value]
Words(words) == [list |-> FALSE, words |-> words]
List(words) == [list |-> TRUE, words |-> words]

MCUsual ==
  {At("sources", "github", "repo", "acme/widgets"),
   At("steps", "qa", "gate", <<Words(<<"make">>)>>)}

MCTasks ==
  {[id |-> <<"7">>, title |-> <<"fix", " ", "it", "!">>],
   [id |-> <<"1", "2">>, title |-> <<"fix", " ", "it">>],
   [id |-> <<"2">>, title |-> <<"fix", " ", "it", ".", "1">>],
   [id |-> <<"9">>, title |-> <<"lock">>]}

Values ==
  {At("text", "file", "unknown key", TRUE), At("top", "config", "version", 2),
   At("providers", "claude", "adapter", "codex"), At("providers", "claude", "cmd", "claude --fast"),
   At("providers", "claude", "permission_mode", "yolo"), At("providers", "Fast", "adapter", "claude"),
   At("providers", "mine", "adapter", "claude"), At("providers", "mine", "cmd", "claude"),
   At("providers", "claude", "cmd", "./claude"),
   At("executors", "local", "type", "docker"), At("executors", "local", "remote", ""),
   At("executors", "local", "root", <<"a", "..", ".">>),
   At("executors", "local", "root", <<"a", "..", "..", "b">>),
   At("executors", "local", "root", <<".git", "x">>), At("executors", "local", "root", <<>>),
   At("sources", "github", "repo", ""), At("sources", "github", "repo", "widgets"),
   At("sources", "github", "type", "gitlab"),
   At("sources", "github", "labels_done", "agent-failed"),
   At("sources", "github", "trigger_label", ""),
   At("sinks", "github-pr", "base", <<"release", "-", "7">>),
   At("sinks", "github-pr", "base", <<"a", " ", "b">>),
   At("sinks", "github-pr", "reviewer", "octo cat"), At("sinks", "github-pr", "type", "mail"),
   At("sinks", "github-pr", "template", <<>>),
   At("sinks", "github-pr", "template", <<"/", "etc">>),
   At("sinks", "github-pr", "label", "agent-revise"),
   At("sinks", "github-pr", "feedback_from", <<"owner">>),
   At("sinks", "github-pr", "feedback_from", <<"FRIEND">>)}

Lifecycles ==
  {At("lifecycles", "sdlc", "executor", "remote"), At("lifecycles", "sdlc", "sink", "mail"),
   At("lifecycles", "sdlc", "concurrency", 0), At("lifecycles", "sdlc", "max_open_outputs", 0),
   At("lifecycles", "sdlc", "watch_interval", "10s"),
   At("lifecycles", "sdlc", "watch_interval", "soon"),
   At("lifecycles", "sdlc", "branch", <<>>), At("lifecycles", "sdlc", "branch", <<"{{.Title}}">>),
   At("lifecycles", "sdlc", "branch", <<"{{.Slug}}">>),
   At("lifecycles", "sdlc", "branch", <<"release", "-", "{{.ID}}">>),
   At("lifecycles", "sdlc", "branch", <<"{{.Slug}}", "{{.ID}}">>),
   At("lifecycles", "sdlc", "branch", <<"{{.ID}}", ".", "{{.Slug}}", "/", "x">>),
   At("lifecycles", "sdlc", "branch", <<"{{.Slug}}", "-", "{{.ID}}">>),
   At("lifecycles", "sdlc", "protected_paths", <<<<"..", "x">>>>),
   At("lifecycles", "sdlc", "feedback_steps", <<"engineer">>),
   At("lifecycles", "sdlc", "publish_gates", <<List(<<"make", "all">>)>>),
   At("lifecycles", "sdlc", "publish_allow_unverified", TRUE),
   [section |-> "lifecycles", name |-> "nightly",
    entry |-> [Preset.lifecycles.sdlc EXCEPT !.publish_gates = <<List(<<"make">>)>>]],
   [section |-> "lifecycles", name |-> "nightly",
    entry |-> [Preset.lifecycles.sdlc EXCEPT !.steps = <<@[1], @[2], @[2]>>]]}

StepValues ==
  {At("steps", "engineer", "provider", "mine"), At("steps", "qa", "provider", "codex"),
   At("steps", "qa", "provider", "pi"), At("steps", "engineer", "provider", "nobody"),
   At("steps", "engineer", "provider", ""),
   At("steps", "engineer", "model", "opus"), At("steps", "engineer", "vendor", "anthropic"),
   At("steps", "engineer", "role", <<"prompts", "own.md">>),
   At("steps", "engineer", "output", "change"), At("steps", "qa", "output", "plan"),
   At("steps", "plan", "role", <<"poet">>), At("steps", "plan", "readonly", FALSE),
   At("steps", "engineer", "readonly", TRUE), At("steps", "engineer", "timeout", "5h"),
   At("steps", "engineer", "timeout", "0s"), At("steps", "engineer", "max_iter", 21),
   At("steps", "plan", "max_iter", 1), At("steps", "engineer", "loop_with", "plan"),
   At("steps", "qa", "gate", <<>>), At("steps", "qa", "gate", <<Words(<<"make", "|">>)>>),
   At("steps", "qa", "gate", <<List(<<"">>)>>), At("steps", "engineer", "gate", <<List(<<"make">>)>>),
   At("steps", "qa", "gate", <<Words(<<"lint">>)>>),
   At("steps", "engineer", "allowed_commands", <<List(<<"make", "a,b">>)>>),
   At("steps", "engineer", "allowed_commands", <<List(<<"make", "">>)>>),
   At("steps", "engineer", "allowed_commands", <<List(<<"make">>)>>),
   At("steps", "extra", "role", <<"qa">>), At("steps", "", "role", <<"qa">>),
   [section |-> "steps", name |-> "engineer",
    entry |-> [role |-> <<"prompts", "huge.md">>, output |-> "change"]],
   [section |-> "steps", name |-> "engineer",
    entry |-> [role |-> <<"prompts", "blank.md">>, output |-> "change"]]}

MCSettings == Values \cup Lifecycles \cup StepValues
=============================================================================
