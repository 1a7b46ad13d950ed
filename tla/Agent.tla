-------------------------------- MODULE Agent ---------------------------------
(***************************************************************************)
(* The callers of Exec.Run that carry a step: the claude adapter           *)
(* (internal/provider/claude/claude.go), which asks an agent, and the      *)
(* checks (internal/gate/gate.go).  A step always asks for an answer that  *)
(* matches its schema (internal/lifecycle/steps.go, step).                 *)
(***************************************************************************)
EXTENDS Command, Sequences

VARIABLES
  kind,  \* what the command is run for: nothing yet, an agent, or a check
  answer \* what came of it

callVars == <<kind, answer>>

Failures == {"timeout", "canceled", "failed", "reported", "badoutput"}
Refusals == {"invalid", "notinstalled"}
Answers == {"nothing", "answered", "passed", "failing", "broken"} \cup Failures \cup Refusals

CallTypeOK == kind \in {"none", "agent", "check"} /\ answer \in Answers

CallInit == CommandInit /\ kind = "none" /\ answer = "nothing"
-----------------------------------------------------------------------------
(***************************************************************************)
(* What a request can't say to claude.                                     *)
(***************************************************************************)
Listed == {"a,b", "(x)"}       \* arguments with what separates claude's rules
Split == {"make test"}         \* and those with a space

bashRuleRefuses(argv) ==
  \/ argv = <<>> \/ argv[1] = ""
  \/ \E i \in DOMAIN argv : argv[i] = "" \/ argv[i] \in Listed \cup Split

\* The sizes of a role, in KiB, and the limit of an argument.
maxArg == 100

\* The parts of a request that no claude command line holds.
buildArgsRefuses(r) ==
  {part \in {"vendor", "role_prompt", "allowed_commands"} :
    CASE part = "vendor" -> r.vendor # ""
      [] part = "role_prompt" -> r.size > maxArg
      [] OTHER -> \E i \in DOMAIN r.allowed : bashRuleRefuses(r.allowed[i])}
-----------------------------------------------------------------------------
\* A call of Run, limited or not.
Call(for, limited) ==
  /\ pc' = "enter" /\ limit' = limited /\ kind' = for
  /\ UNCHANGED <<told, timer, ctx, waitVars, osVars, signalVars, late, answer>>

Refuse(how) ==
  /\ answer' = how /\ kind' = "agent"
  /\ UNCHANGED commandVars

\* Provider.Run, up to the command, which is looked for in the directory that loomlc runs in.
AskAgent(r, installed) ==
  /\ pc = "off" /\ answer = "nothing"
  /\ IF buildArgsRefuses(r) # {} THEN Refuse("invalid")
     ELSE IF r.cmd \notin installed THEN Refuse("notinstalled")
     ELSE Call("agent", r.timeout > 0)

\* A check has a limit whatever the configuration says.
RunCheck ==
  /\ pc = "off" /\ answer = "nothing"
  /\ Call("check", TRUE)

\* What a command of claude's can print: its result or something else, with the structured
\* answer or none, and in the text the fenced blocks, of which some hold JSON.
Outputs ==
  [readable : BOOLEAN, isError : BOOLEAN, structured : BOOLEAN,
   fenced : {<<>>, <<"text">>, <<"json", "text">>}]

FencedJSON(blocks) == \E i \in DOMAIN blocks : blocks[i] = "json"

structuredAnswer(out) == out.structured \/ FencedJSON(out.fenced)

parse(out) ==
  CASE ~out.readable -> IF code = "zero" THEN "badoutput" ELSE "failed"
    [] out.readable /\ (out.isError \/ code # "zero") -> "reported"
    [] OTHER -> IF structuredAnswer(out) THEN "answered" ELSE "badoutput"

\* Provider.Run, from what the command ended with.  What was printed by a command whose
\* output was left open is still read; a transcript that cannot be written fails the step.
HearAgent ==
  /\ kind = "agent" /\ pc = "returned"
  /\ \/ told \in {"stopped", "stuck"}
        /\ answer' = IF ctx = "deadline" THEN "timeout" ELSE "canceled"
     \/ told = "unstarted" /\ answer' = "failed"
     \/ told = "ended" /\ answer' \in {parse(out) : out \in Outputs}
     \/ told = "ended" /\ code = "zero" /\ answer' = "failed"
  /\ pc' = "off"
  /\ UNCHANGED <<told, timer, limit, ctx, waitVars, osVars, signalVars, late, kind>>

\* Mutant: only the exit code of a check is looked at.
HearCheckCode ==
  /\ kind = "check" /\ pc = "returned"
  /\ answer' = IF ctx # "live" THEN "failing"
               ELSE IF told = "unstarted" THEN "broken"
               ELSE IF code = "zero" THEN "passed" ELSE "failing"
  /\ pc' = "off"
  /\ UNCHANGED <<told, timer, limit, ctx, waitVars, osVars, signalVars, late, kind>>

\* Runner.one: a check that was out of time, or cancelled, is one that failed; one that
\* could not be started or left its output open breaks the run.
HearCheck ==
  /\ kind = "check" /\ pc = "returned"
  /\ answer' = IF ctx # "live" THEN "failing"
               ELSE IF told = "unstarted" \/ leftOpen THEN "broken"
               ELSE IF code = "zero" THEN "passed" ELSE "failing"
  /\ pc' = "off"
  /\ UNCHANGED <<told, timer, limit, ctx, waitVars, osVars, signalVars, late, kind>>

CallNext == HearAgent \/ HearCheck \/ (CommandNext /\ UNCHANGED callVars)
-----------------------------------------------------------------------------
\* A command that was asked to end while it ran never counts as an agent's answer or as a
\* check that passed: not when it ends as if nothing had happened, nor when it ends in the
\* same instant (proc.go:113-120; claude.go:132-138, gate.go:89-92).
StoppedIsNoAnswer ==
  answer \in {"answered", "passed"} => ~hushed /\ told = "ended"

\* A check that passed ended by itself and in time, with exit code zero, and all that it
\* had to say was read (gate.go:75-97, proc.go, finish).
PassedIsWhole ==
  answer = "passed" =>
    /\ code = "zero" /\ ~cut /\ ctx = "live"
    /\ Leader \notin alive /\ Group \subseteq doomed
=============================================================================
