------------------------------- MODULE Command -------------------------------
(***************************************************************************)
(* One external command: Exec.Run (internal/proc/proc.go) with the process *)
(* group it starts the command in (proc_unix.go), the goroutine that waits *)
(* for the command, and the operating system's part: what the command      *)
(* starts, what leaves the group, what keeps the output open, and who gets *)
(* the group's id once nothing has it.                                     *)
(*                                                                         *)
(* Time passes in ticks, Grace of them to a grace period, and only while   *)
(* neither goroutine has anything to do: their steps take no time.         *)
(***************************************************************************)
EXTENDS Naturals, FiniteSets

CONSTANTS
  Children, \* the processes that the command, or what it started, may start
  Grace     \* KillGrace in ticks

Leader == "leader"
Processes == {Leader} \cup Children

ASSUME CommandAssumption ==
  /\ Leader \notin Children
  /\ IsFiniteSet(Children)
  /\ Grace \in Nat \ {0}

VARIABLES
  pc,      \* where Run is
  told,    \* what it will report: how the command ended, or that ctx ended
  timer,   \* the ticks left of the grace period it waits out
  limit,   \* its context has a deadline of its own
  ctx,     \* its context: live, past its deadline, or cancelled by the caller
  wait,    \* where the goroutine that waits is
  delay,   \* the ticks left of cmd.WaitDelay
  cut,     \* the output was cut off at the end of that
  code,    \* the command's exit code
  born,    \* the processes that were started
  alive,   \* those that have not ended
  grouped, \* those that have not left the command's group
  holding, \* those that have the command's output open
  doomed,  \* those that were sent SIGKILL
  foreign, \* the group's id is another group's by now
  asked,   \* history: the ticks since the group was sent SIGTERM, from 1; 0 before
  hushed,  \* history: the command was running when it was
  late     \* history: the ticks since ctx ended or the command did

runVars == <<pc, told, timer>>
waitVars == <<wait, delay, cut>>
osVars == <<code, born, alive, grouped, holding, foreign>>
signalVars == <<doomed, asked, hushed>>
commandVars == <<runVars, limit, ctx, waitVars, osVars, signalVars, late>>

CommandTypeOK ==
  /\ pc \in {"off", "enter", "select", "recheck", "terminate", "term", "kill", "clean",
             "ask", "poll", "returned"}
  /\ told \in {"nothing", "unstarted", "ended", "stopped", "stuck"}
  /\ timer \in 0..Grace /\ delay \in 0..Grace
  /\ limit \in BOOLEAN /\ ctx \in {"live", "deadline", "canceled"}
  /\ wait \in {"none", "waiting", "copying", "done"}
  /\ cut \in BOOLEAN /\ foreign \in BOOLEAN /\ hushed \in BOOLEAN
  /\ code \in {"zero", "other", "signal"}
  /\ born \subseteq Processes /\ alive \subseteq born
  /\ grouped \subseteq born /\ holding \subseteq born /\ doomed \subseteq born
  /\ asked \in 0..3 * Grace + 1 /\ late \in 0..3 * Grace + 1

CommandInit ==
  /\ pc = "off" /\ told = "nothing" /\ timer = 0 /\ limit = FALSE /\ ctx = "live"
  /\ wait = "none" /\ delay = 0 /\ cut = FALSE
  /\ code = "zero" /\ born = {} /\ alive = {} /\ grouped = {} /\ holding = {}
  /\ doomed = {} /\ foreign = FALSE
  /\ asked = 0 /\ hushed = FALSE /\ late = 0

\* The command is of no more interest.
CommandReset ==
  /\ pc' = "off" /\ told' = "nothing" /\ timer' = 0 /\ limit' = FALSE /\ ctx' = "live"
  /\ wait' = "none" /\ delay' = 0 /\ cut' = FALSE
  /\ code' = "zero" /\ born' = {} /\ alive' = {} /\ grouped' = {} /\ holding' = {}
  /\ doomed' = {} /\ foreign' = FALSE
  /\ asked' = 0 /\ hushed' = FALSE /\ late' = 0
-----------------------------------------------------------------------------
(***************************************************************************)
(* The process group.  Its id stays reserved while it has members, or its  *)
(* leader has not been waited for.                                         *)
(***************************************************************************)
Group == alive \cap grouped

Reserved == Group # {} \/ wait = "waiting"

\* A signal 0 reaches the group that has the id, whoever's that is.
groupAlive == Reserved \/ foreign

terminateGroup ==
  /\ asked' = IF Reserved /\ asked = 0 THEN 1 ELSE asked
  /\ hushed' = (hushed \/ Leader \in alive)
  /\ UNCHANGED doomed

killGroup ==
  /\ doomed' = doomed \cup Group
  /\ UNCHANGED <<asked, hushed>>

noSignal == UNCHANGED signalVars
-----------------------------------------------------------------------------
(***************************************************************************)
(* Run.                                                                    *)
(***************************************************************************)
Goto(next) == pc' = next /\ UNCHANGED <<told, timer>>

\* The rest of Run waits out a grace period at most.
WaitAt(next) == pc' = next /\ timer' = Grace /\ UNCHANGED told

Finish(how) == pc' = "clean" /\ told' = how /\ timer' = 0

Return == pc' = "returned" /\ timer' = 0 /\ UNCHANGED told

\* A context that has ended, or a command that cannot be started; or it starts, in a group
\* of its own.
Enter ==
  /\ pc = "enter"
  /\ \/ /\ ctx # "live"
        /\ pc' = "returned" /\ told' = "stopped"
        /\ UNCHANGED <<timer, waitVars, osVars>>
     \/ /\ ctx = "live"
        /\ pc' = "returned" /\ told' = "unstarted"
        /\ UNCHANGED <<timer, waitVars, osVars>>
     \/ /\ ctx = "live"
        /\ Goto("select")
        /\ wait' = "waiting"
        /\ born' = {Leader} /\ alive' = {Leader} /\ grouped' = {Leader} /\ holding' = {Leader}
        /\ UNCHANGED <<delay, cut, code, foreign>>
  /\ noSignal /\ UNCHANGED <<limit, ctx, late>>

\* The command ended, or the context did: whichever the select takes when both have.
Select ==
  /\ pc = "select"
  /\ \/ wait = "done" /\ Finish("ended")
     \/ ctx # "live" /\ Goto("recheck")
  /\ noSignal /\ UNCHANGED <<limit, ctx, waitVars, osVars, late>>

\* The command may have ended in the same instant.
Recheck ==
  /\ pc = "recheck"
  /\ IF wait = "done" THEN Finish("stopped") ELSE Goto("terminate")
  /\ noSignal /\ UNCHANGED <<limit, ctx, waitVars, osVars, late>>

Terminate ==
  /\ pc = "terminate"
  /\ WaitAt("term") /\ terminateGroup
  /\ UNCHANGED <<limit, ctx, waitVars, osVars, late>>

\* Mutant: a command that ends when it is asked to is reported as any other.
AfterTermEnded ==
  /\ pc = "term"
  /\ \/ wait = "done" /\ Finish("ended") /\ noSignal
     \/ timer = 0 /\ WaitAt("kill") /\ killGroup
  /\ UNCHANGED <<limit, ctx, waitVars, osVars, late>>

\* It ends within the grace period, or is killed with its group.
AfterTerm ==
  /\ pc = "term"
  /\ \/ wait = "done" /\ Finish("stopped") /\ noSignal
     \/ timer = 0 /\ WaitAt("kill") /\ killGroup
  /\ UNCHANGED <<limit, ctx, waitVars, osVars, late>>

\* Mutant: what cannot be killed is waited for until it can.
AfterKillAgain ==
  /\ pc = "kill"
  /\ \/ wait = "done" /\ Finish("stopped") /\ noSignal
     \/ timer = 0 /\ WaitAt("kill") /\ killGroup
  /\ UNCHANGED <<limit, ctx, waitVars, osVars, late>>

\* What cannot be killed is not waited for twice.
AfterKill ==
  /\ pc = "kill"
  /\ \/ wait = "done" /\ Finish("stopped")
     \/ timer = 0 /\ pc' = "returned" /\ told' = "stuck" /\ UNCHANGED timer
  /\ noSignal /\ UNCHANGED <<limit, ctx, waitVars, osVars, late>>

\* Mutant: a command that ended is taken for gone.
CleanNothing ==
  /\ pc = "clean"
  /\ Return
  /\ noSignal /\ UNCHANGED <<limit, ctx, waitVars, osVars, late>>

\* cleanUpGroup: anything the command left running in its group is stopped too.
Clean ==
  /\ pc = "clean"
  /\ IF groupAlive THEN Goto("ask") ELSE Return
  /\ noSignal /\ UNCHANGED <<limit, ctx, waitVars, osVars, late>>

CleanTerminate ==
  /\ pc = "ask"
  /\ WaitAt("poll") /\ terminateGroup
  /\ UNCHANGED <<limit, ctx, waitVars, osVars, late>>

\* Mutant: the group is killed as soon as it is seen.
CleanPollImpatient ==
  /\ pc = "poll"
  /\ Return /\ killGroup
  /\ UNCHANGED <<limit, ctx, waitVars, osVars, late>>

CleanPoll ==
  /\ pc = "poll"
  /\ IF timer = 0 THEN Return /\ killGroup ELSE ~groupAlive /\ Return /\ noSignal
  /\ UNCHANGED <<limit, ctx, waitVars, osVars, late>>

Run ==
  \/ Enter \/ Select \/ Recheck \/ Terminate \/ AfterTerm \/ AfterKill
  \/ Clean \/ CleanTerminate \/ CleanPoll
-----------------------------------------------------------------------------
(***************************************************************************)
(* The goroutine in cmd.Wait: it waits for the command, and then for its   *)
(* output to be closed, at most WaitDelay.  It reports an output cut off   *)
(* only of a command that exited zero.                                     *)
(***************************************************************************)
Reap ==
  /\ wait = "waiting" /\ Leader \notin alive
  /\ wait' = "copying" /\ delay' = Grace
  /\ UNCHANGED cut

Copied ==
  /\ wait = "copying"
  /\ \/ alive \cap holding = {} /\ UNCHANGED cut
     \/ alive \cap holding # {} /\ delay = 0 /\ cut' = TRUE
  /\ wait' = "done" /\ delay' = 0

Wait ==
  /\ pc # "returned"
  /\ Reap \/ Copied
  /\ UNCHANGED <<runVars, limit, ctx, osVars, signalVars, late>>

leftOpen == cut /\ code = "zero"
-----------------------------------------------------------------------------
(***************************************************************************)
(* The operating system, the command, and the caller.                      *)
(***************************************************************************)
Running == pc \notin {"off", "enter", "returned"}

\* A process that was not killed starts another, in its group and with its output.
Fork(m) ==
  /\ m \in Children \ born
  /\ \E p \in alive \ doomed :
       /\ born' = born \cup {m} /\ alive' = alive \cup {m}
       /\ grouped' = IF p \in grouped THEN grouped \cup {m} ELSE grouped
       /\ holding' = IF p \in holding THEN holding \cup {m} ELSE holding
  /\ UNCHANGED <<code, foreign>>

\* One other than the leader becomes a session of its own.
LeaveGroup(m) ==
  /\ m \in Group \ ({Leader} \cup doomed)
  /\ grouped' = grouped \ {m}
  /\ UNCHANGED <<code, born, alive, holding, foreign>>

CloseOutput(m) ==
  /\ m \in (alive \cap holding) \ doomed
  /\ holding' = holding \ {m}
  /\ UNCHANGED <<code, born, alive, grouped, foreign>>

\* A process that was killed ends, unless it is stuck in the kernel; any other may.
Exit(m) ==
  /\ m \in alive
  /\ alive' = alive \ {m}
  /\ IF m = Leader THEN code' \in IF m \in doomed THEN {"signal"} ELSE {"zero", "other", "signal"}
     ELSE UNCHANGED code
  /\ UNCHANGED <<born, grouped, holding, foreign>>

\* The id of a group that nothing is left of is given out again, and given back.
Reuse ==
  /\ born # {} /\ ~Reserved
  /\ foreign' = ~foreign
  /\ UNCHANGED <<code, born, alive, grouped, holding>>

System ==
  /\ Running
  /\ \/ \E m \in Processes : Fork(m) \/ LeaveGroup(m) \/ CloseOutput(m) \/ Exit(m)
     \/ Reuse
  /\ UNCHANGED <<runVars, limit, ctx, waitVars, signalVars, late>>

\* The time limit of the call passes, or the run that makes it is cancelled.  The caller
\* can look at its context after Run has returned.
EndContext(how) ==
  /\ pc # "off" /\ ctx = "live"
  /\ ctx' = how
  /\ UNCHANGED <<runVars, limit, waitVars, osVars, signalVars, late>>

Deadline == limit /\ EndContext("deadline")

Cancel == EndContext("canceled")

Less(n) == IF n = 0 THEN 0 ELSE n - 1

\* Neither goroutine has anything to do.
Waiting ==
  /\ pc \in {"select", "term", "kill", "poll"}
  /\ pc = "select" => wait # "done" /\ ctx = "live"
  /\ pc \in {"term", "kill"} => wait # "done" /\ timer > 0
  /\ pc = "poll" => groupAlive /\ timer > 0
  /\ wait = "waiting" => Leader \in alive
  /\ wait = "copying" => alive \cap holding # {} /\ delay > 0

Tick ==
  /\ Waiting /\ timer + delay > 0 /\ late <= 3 * Grace
  /\ timer' = Less(timer) /\ delay' = Less(delay)
  /\ asked' = IF asked = 0 THEN 0 ELSE asked + 1
  /\ late' = IF ctx # "live" \/ Leader \notin alive THEN late + 1 ELSE late
  /\ UNCHANGED <<pc, told, limit, ctx, wait, cut, osVars, doomed, hushed>>

CommandNext == Run \/ Wait \/ System \/ Deadline \/ Cancel \/ Tick
-----------------------------------------------------------------------------
(***************************************************************************)
(* What a caller of Run can count on.                                      *)
(***************************************************************************)
\* Once Run returns, whatever is left of the command's group was sent SIGKILL: however
\* the command, what it started and the context ended, in whichever order (proc.go, Run
\* and cleanUpGroup).
NothingLeftBehind == pc = "returned" => Group \subseteq doomed

\* Run is over within three grace periods of the end of its context or of the command:
\* one to end, one to be killed, and one for what it left running (proc.go, Run:
\* "must not hang the run as well").
ReturnsInTime == late <= 3 * Grace

\* Nothing is killed that was not asked to end a grace period earlier (proc.go,
\* Cmd.KillGrace).
GraceIsGiven == [][~(doomed' \subseteq doomed) => asked > Grace]_commandVars
=============================================================================
