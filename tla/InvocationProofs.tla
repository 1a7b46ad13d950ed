--------------------------- MODULE InvocationProofs ---------------------------
(***************************************************************************)
(* Proofs about Invocation: what is left of a command once Run returned,   *)
(* how long that takes, what counts as an answer, and what a command line  *)
(* that was wrong takes.  For any processes, any grace period, and any     *)
(* configuration.                                                          *)
(***************************************************************************)
EXTENDS Invocation, TLAPS

\* A command of which nothing is known has not been started.
Fresh ==
  pc = "enter" \/ (pc = "off" /\ answer = "nothing") =>
    /\ told = "nothing" /\ timer = 0 /\ wait = "none" /\ delay = 0
    /\ born = {} /\ doomed = {} /\ asked = 0 /\ ~hushed /\ late = 0
    /\ pc = "off" => ctx = "live"

\* What Run knows at each point.
Knows ==
  /\ answer # "nothing" => pc = "off"
  /\ pc \in {"select", "recheck", "terminate", "term", "kill"} => told = "nothing" /\ wait # "none"
  /\ pc \in {"select", "recheck", "terminate"} => ~hushed /\ timer = 0
  /\ pc \in {"recheck", "terminate", "term", "kill"} => ctx # "live"
  /\ pc \in {"clean", "ask", "poll"} => told \in {"ended", "stopped"} /\ wait = "done"
  /\ pc = "returned" => told # "nothing"
  /\ told = "ended" => wait = "done" /\ ~hushed
  /\ told \in {"stopped", "stuck"} => ctx # "live"

\* A leader that was waited for has ended.
Reaped == wait \in {"copying", "done"} => Leader \notin alive

\* What was killed starts nothing.
Killed == pc = "kill" => Group \subseteq doomed

\* Whoever is waited for in the group was asked to end as long ago as has been waited.
Asked == pc \in {"term", "poll"} => Group = {} \/ asked + timer > Grace

\* How late it is at each point, with what may still be waited for.
Timely ==
  /\ asked > 0 => (ctx # "live" \/ Leader \notin alive) /\ asked <= late + 1
  /\ pc \in {"select", "recheck", "terminate"} =>
       late + delay <= Grace /\ (wait = "waiting" => late = 0)
  /\ pc = "term" =>
       late + timer <= Grace \/ (wait # "waiting" /\ late + delay <= Grace)
  /\ pc = "kill" => late + timer <= 2 * Grace
  /\ pc \in {"clean", "ask"} => late <= 2 * Grace
  /\ pc = "poll" => late + timer <= 3 * Grace
  /\ late <= 3 * Grace

CommandInv ==
  /\ CommandTypeOK /\ CallTypeOK
  /\ Fresh /\ Knows /\ Reaped /\ Killed /\ Asked /\ Timely
  /\ NothingLeftBehind /\ StoppedIsNoAnswer /\ PassedIsWhole
-----------------------------------------------------------------------------
(***************************************************************************)
(* The command, action by action.                                          *)
(***************************************************************************)
USE DEF vars, workVars, setupVars, typedVars, commandVars, callVars, runVars, waitVars, osVars,
        signalVars

\* A command starts, or does not.
LEMMA EnterKeeps == CommandInv /\ Enter /\ UNCHANGED callVars => CommandInv'
<1> SUFFICES ASSUME CommandInv, Enter, UNCHANGED callVars PROVE CommandInv'
  OBVIOUS
<1> USE CommandAssumption DEF CommandInv, Processes, Leader, noSignal, Goto, WaitAt, Finish,
        Return, Enter
<1>1. CommandTypeOK' /\ CallTypeOK'
  <2>1. CommandTypeOK'
    BY DEF CommandTypeOK, Fresh, Knows, Timely
  <2> QED
    BY <2>1 DEF CommandTypeOK, CallTypeOK, Fresh
<1>2. Fresh' /\ Knows' /\ Reaped'
  BY DEF CommandTypeOK, Fresh, Knows, Reaped
<1>3. Killed' /\ Asked'
  BY DEF CommandTypeOK, Knows, Killed, Asked, Group, Reserved
<1>4. Timely'
  BY DEF CommandTypeOK, CallTypeOK, Fresh, Knows, Reaped, Timely
<1>5. NothingLeftBehind' /\ StoppedIsNoAnswer' /\ PassedIsWhole'
  BY DEF NothingLeftBehind, StoppedIsNoAnswer, PassedIsWhole, CommandTypeOK, Fresh, Knows,
     Reaped, Killed, Group
<1> QED
  BY <1>1, <1>2, <1>3, <1>4, <1>5

\* The command has ended, or the context.
LEMMA SelectKeeps == CommandInv /\ Select /\ UNCHANGED callVars => CommandInv'
<1> SUFFICES ASSUME CommandInv, Select, UNCHANGED callVars PROVE CommandInv'
  OBVIOUS
<1> USE CommandAssumption DEF CommandInv, Processes, Leader, noSignal, Goto, WaitAt, Finish,
        Return, Select
<1>1. CommandTypeOK' /\ CallTypeOK'
  BY DEF CommandTypeOK, CallTypeOK, Fresh, Knows, Timely
<1>2. Fresh' /\ Knows' /\ Reaped'
  BY DEF CommandTypeOK, Fresh, Knows, Reaped
<1>3. Killed' /\ Asked'
  BY DEF CommandTypeOK, Knows, Killed, Asked, Group, Reserved
<1>4. Timely'
  BY DEF CommandTypeOK, CallTypeOK, Fresh, Knows, Reaped, Timely
<1>5. NothingLeftBehind' /\ StoppedIsNoAnswer' /\ PassedIsWhole'
  BY DEF NothingLeftBehind, StoppedIsNoAnswer, PassedIsWhole, CommandTypeOK, Fresh, Knows,
     Reaped, Killed, Group
<1> QED
  BY <1>1, <1>2, <1>3, <1>4, <1>5

\* The context has.
LEMMA RecheckKeeps == CommandInv /\ Recheck /\ UNCHANGED callVars => CommandInv'
<1> SUFFICES ASSUME CommandInv, Recheck, UNCHANGED callVars PROVE CommandInv'
  OBVIOUS
<1> USE CommandAssumption DEF CommandInv, Processes, Leader, noSignal, Goto, WaitAt, Finish,
        Return, Recheck
<1>1. CommandTypeOK' /\ CallTypeOK'
  BY DEF CommandTypeOK, CallTypeOK, Fresh, Knows, Timely
<1>2. Fresh' /\ Knows' /\ Reaped'
  BY DEF CommandTypeOK, Fresh, Knows, Reaped
<1>3. Killed' /\ Asked'
  BY DEF CommandTypeOK, Knows, Killed, Asked, Group, Reserved
<1>4. Timely'
  BY DEF CommandTypeOK, CallTypeOK, Fresh, Knows, Reaped, Timely
<1>5. NothingLeftBehind' /\ StoppedIsNoAnswer' /\ PassedIsWhole'
  BY DEF NothingLeftBehind, StoppedIsNoAnswer, PassedIsWhole, CommandTypeOK, Fresh, Knows,
     Reaped, Killed, Group
<1> QED
  BY <1>1, <1>2, <1>3, <1>4, <1>5

\* The group is asked to end.
LEMMA TerminateKeeps == CommandInv /\ Terminate /\ UNCHANGED callVars => CommandInv'
<1> SUFFICES ASSUME CommandInv, Terminate, UNCHANGED callVars PROVE CommandInv'
  OBVIOUS
<1> USE CommandAssumption DEF CommandInv, Processes, Leader, noSignal, Goto, WaitAt, Finish,
        Return, Terminate, terminateGroup, Reserved, Group
<1>1. CommandTypeOK' /\ CallTypeOK'
  BY DEF CommandTypeOK, CallTypeOK, Fresh, Knows, Timely
<1>2. Fresh' /\ Knows' /\ Reaped'
  BY DEF CommandTypeOK, Fresh, Knows, Reaped
<1>3. Killed' /\ Asked'
  BY DEF CommandTypeOK, Knows, Killed, Asked, Group, Reserved
<1>4. Timely'
  BY DEF CommandTypeOK, CallTypeOK, Fresh, Knows, Reaped, Timely
<1>5. NothingLeftBehind' /\ StoppedIsNoAnswer' /\ PassedIsWhole'
  BY DEF NothingLeftBehind, StoppedIsNoAnswer, PassedIsWhole, CommandTypeOK, Fresh, Knows,
     Reaped, Killed, Group
<1> QED
  BY <1>1, <1>2, <1>3, <1>4, <1>5

\* It has ended, or is killed.
LEMMA AfterTermKeeps == CommandInv /\ AfterTerm /\ UNCHANGED callVars => CommandInv'
<1> SUFFICES ASSUME CommandInv, AfterTerm, UNCHANGED callVars PROVE CommandInv'
  OBVIOUS
<1> USE CommandAssumption DEF CommandInv, Processes, Leader, noSignal, Goto, WaitAt, Finish,
        Return, AfterTerm, killGroup, Group
<1>0. doomed' \subseteq born'
  BY DEF CommandTypeOK
<1>1. CommandTypeOK' /\ CallTypeOK'
  BY <1>0 DEF CommandTypeOK, CallTypeOK
<1>2. Fresh' /\ Knows' /\ Reaped'
  BY DEF CommandTypeOK, Fresh, Knows, Reaped
<1>3. Killed' /\ Asked'
  BY DEF CommandTypeOK, Knows, Killed, Asked, Group, Reserved
<1>4. Timely'
  BY DEF CommandTypeOK, CallTypeOK, Fresh, Knows, Reaped, Timely
<1>5. NothingLeftBehind' /\ StoppedIsNoAnswer' /\ PassedIsWhole'
  BY DEF NothingLeftBehind, StoppedIsNoAnswer, PassedIsWhole, CommandTypeOK, Fresh, Knows,
     Reaped, Killed, Group
<1> QED
  BY <1>1, <1>2, <1>3, <1>4, <1>5

\* It has ended, or is given up on.
LEMMA AfterKillKeeps == CommandInv /\ AfterKill /\ UNCHANGED callVars => CommandInv'
<1> SUFFICES ASSUME CommandInv, AfterKill, UNCHANGED callVars PROVE CommandInv'
  OBVIOUS
<1> USE CommandAssumption DEF CommandInv, Processes, Leader, noSignal, Goto, WaitAt, Finish,
        Return, AfterKill
<1>1. CommandTypeOK' /\ CallTypeOK'
  BY DEF CommandTypeOK, CallTypeOK, Fresh, Knows, Timely
<1>2. Fresh' /\ Knows' /\ Reaped'
  BY DEF CommandTypeOK, Fresh, Knows, Reaped
<1>3. Killed' /\ Asked'
  BY DEF CommandTypeOK, Knows, Killed, Asked, Group, Reserved
<1>4. Timely'
  BY DEF CommandTypeOK, CallTypeOK, Fresh, Knows, Reaped, Timely
<1>5. NothingLeftBehind' /\ StoppedIsNoAnswer' /\ PassedIsWhole'
  BY DEF NothingLeftBehind, StoppedIsNoAnswer, PassedIsWhole, CommandTypeOK, Fresh, Knows,
     Reaped, Killed, Group
<1> QED
  BY <1>1, <1>2, <1>3, <1>4, <1>5

\* Something is left of the group, or nothing.
LEMMA CleanKeeps == CommandInv /\ Clean /\ UNCHANGED callVars => CommandInv'
<1> SUFFICES ASSUME CommandInv, Clean, UNCHANGED callVars PROVE CommandInv'
  OBVIOUS
<1> USE CommandAssumption DEF CommandInv, Processes, Leader, noSignal, Goto, WaitAt, Finish,
        Return, Clean, groupAlive, Reserved
<1>1. CommandTypeOK' /\ CallTypeOK'
  BY DEF CommandTypeOK, CallTypeOK, Fresh, Knows, Timely
<1>2. Fresh' /\ Knows' /\ Reaped'
  BY DEF CommandTypeOK, Fresh, Knows, Reaped
<1>3. Killed' /\ Asked'
  BY DEF CommandTypeOK, Knows, Killed, Asked, Group, Reserved
<1>4. Timely'
  BY DEF CommandTypeOK, CallTypeOK, Fresh, Knows, Reaped, Timely
<1>5. NothingLeftBehind' /\ StoppedIsNoAnswer' /\ PassedIsWhole'
  BY DEF NothingLeftBehind, StoppedIsNoAnswer, PassedIsWhole, CommandTypeOK, Fresh, Knows,
     Reaped, Killed, Group
<1> QED
  BY <1>1, <1>2, <1>3, <1>4, <1>5

\* What is left is asked to end.
LEMMA CleanTerminateKeeps == CommandInv /\ CleanTerminate /\ UNCHANGED callVars => CommandInv'
<1> SUFFICES ASSUME CommandInv, CleanTerminate, UNCHANGED callVars PROVE CommandInv'
  OBVIOUS
<1> USE CommandAssumption DEF CommandInv, Processes, Leader, noSignal, Goto, WaitAt, Finish,
        Return, CleanTerminate, terminateGroup, Reserved, Group
<1>1. CommandTypeOK' /\ CallTypeOK'
  BY DEF CommandTypeOK, CallTypeOK, Fresh, Knows, Timely
<1>2. Fresh' /\ Knows' /\ Reaped'
  BY DEF CommandTypeOK, Fresh, Knows, Reaped
<1>3. Killed' /\ Asked'
  BY DEF CommandTypeOK, Knows, Killed, Asked, Group, Reserved
<1>4. Timely'
  BY DEF CommandTypeOK, CallTypeOK, Fresh, Knows, Reaped, Timely
<1>5. NothingLeftBehind' /\ StoppedIsNoAnswer' /\ PassedIsWhole'
  BY DEF NothingLeftBehind, StoppedIsNoAnswer, PassedIsWhole, CommandTypeOK, Fresh, Knows,
     Reaped, Killed, Group
<1> QED
  BY <1>1, <1>2, <1>3, <1>4, <1>5

\* It has ended, or is killed.
LEMMA CleanPollKeeps == CommandInv /\ CleanPoll /\ UNCHANGED callVars => CommandInv'
<1> SUFFICES ASSUME CommandInv, CleanPoll, UNCHANGED callVars PROVE CommandInv'
  OBVIOUS
<1> USE CommandAssumption DEF CommandInv, Processes, Leader, noSignal, Goto, WaitAt, Finish,
        Return, CleanPoll, killGroup, groupAlive, Reserved, Group
<1>0. doomed' \subseteq born'
  BY DEF CommandTypeOK
<1>1. CommandTypeOK' /\ CallTypeOK'
  BY <1>0 DEF CommandTypeOK, CallTypeOK
<1>2. Fresh' /\ Knows' /\ Reaped'
  BY DEF CommandTypeOK, Fresh, Knows, Reaped
<1>3. Killed' /\ Asked'
  BY DEF CommandTypeOK, Knows, Killed, Asked, Group, Reserved
<1>4. Timely'
  BY DEF CommandTypeOK, CallTypeOK, Fresh, Knows, Reaped, Timely
<1>5. NothingLeftBehind' /\ StoppedIsNoAnswer' /\ PassedIsWhole'
  BY DEF NothingLeftBehind, StoppedIsNoAnswer, PassedIsWhole, CommandTypeOK, Fresh, Knows,
     Reaped, Killed, Group
<1> QED
  BY <1>1, <1>2, <1>3, <1>4, <1>5

\* The goroutine that waits: what it waited for has ended, and stays so.
LEMMA WaitKeeps == CommandInv /\ Wait /\ UNCHANGED callVars => CommandInv'
<1> SUFFICES ASSUME CommandInv, Wait, UNCHANGED callVars PROVE CommandInv'
  OBVIOUS
<1> USE CommandAssumption DEF CommandInv, Processes, Leader, noSignal, Goto, WaitAt, Finish,
        Return, Wait, Reap, Copied
<1>1. CommandTypeOK' /\ CallTypeOK'
  <2>1. wait' \in {"none", "waiting", "copying", "done"} /\ delay' \in 0..Grace
    BY DEF CommandTypeOK
  <2>2. cut' \in BOOLEAN
    <3>1. UNCHANGED cut \/ cut' = TRUE
      OBVIOUS
    <3> QED
      BY <3>1, Zenon DEF CommandTypeOK
  <2> HIDE DEF Reap, Copied
  <2> QED
    BY <2>1, <2>2 DEF CommandTypeOK, CallTypeOK
<1>2. Fresh' /\ Knows' /\ Reaped'
  BY DEF CommandTypeOK, Fresh, Knows, Reaped
<1>3. Killed' /\ Asked'
  BY DEF CommandTypeOK, Knows, Killed, Asked, Group, Reserved
<1>4. Timely'
  BY DEF CommandTypeOK, CallTypeOK, Fresh, Knows, Reaped, Timely
<1>5. NothingLeftBehind' /\ StoppedIsNoAnswer' /\ PassedIsWhole'
  BY DEF NothingLeftBehind, StoppedIsNoAnswer, PassedIsWhole, CommandTypeOK, Fresh, Knows,
     Reaped, Killed, Group
<1> QED
  BY <1>1, <1>2, <1>3, <1>4, <1>5

\* Processes come from processes that were not killed, so a group that is gone, or that
\* was killed, has no new members.
LEMMA SystemKeeps == CommandInv /\ System /\ UNCHANGED callVars => CommandInv'
<1> SUFFICES ASSUME CommandInv, System, UNCHANGED callVars PROVE CommandInv'
  OBVIOUS
<1> USE CommandAssumption DEF CommandInv, Processes, Leader, noSignal, Goto, WaitAt, Finish,
        Return, System, Running, Fork, LeaveGroup, CloseOutput, Exit, Reuse
<1>1. CommandTypeOK' /\ CallTypeOK'
  <2>1. /\ code' \in {"zero", "other", "signal"} /\ foreign' \in BOOLEAN
        /\ born' \subseteq Processes /\ alive' \subseteq born'
        /\ grouped' \subseteq born' /\ holding' \subseteq born' /\ doomed' \subseteq born'
    <3> USE DEF CommandTypeOK
    <3>1. CASE \E m \in Processes : Fork(m)
      BY <3>1
    <3>2. CASE \E m \in Processes : LeaveGroup(m) \/ CloseOutput(m)
      BY <3>2
    <3>3. CASE \E m \in Processes : Exit(m)
      BY <3>3
    <3>4. CASE Reuse
      BY <3>4
    <3> QED
      BY <3>1, <3>2, <3>3, <3>4
  <2> QED
    BY <2>1 DEF CommandTypeOK, CallTypeOK
<1>2. Fresh' /\ Knows' /\ Reaped'
  <2>1. Fresh'
    BY DEF CommandTypeOK, Fresh
  <2>2. Knows'
    BY DEF CommandTypeOK, Knows
  <2>3. Reaped'
    BY DEF CommandTypeOK, Knows, Reaped
  <2> QED
    BY <2>1, <2>2, <2>3
<1>3. Killed' /\ Asked'
  BY DEF CommandTypeOK, Knows, Killed, Asked, Group, Reserved
<1>4. Timely'
  BY DEF CommandTypeOK, CallTypeOK, Fresh, Knows, Reaped, Timely
<1>5. NothingLeftBehind' /\ StoppedIsNoAnswer' /\ PassedIsWhole'
  BY DEF NothingLeftBehind, StoppedIsNoAnswer, PassedIsWhole, CommandTypeOK, Fresh, Knows,
     Reaped, Killed, Group
<1> QED
  BY <1>1, <1>2, <1>3, <1>4, <1>5

\* The time limit passes.
LEMMA DeadlineKeeps == CommandInv /\ Deadline /\ UNCHANGED callVars => CommandInv'
<1> SUFFICES ASSUME CommandInv, Deadline, UNCHANGED callVars PROVE CommandInv'
  OBVIOUS
<1> USE CommandAssumption DEF CommandInv, Processes, Leader, noSignal, Goto, WaitAt, Finish,
        Return, Deadline, EndContext
<1>1. CommandTypeOK' /\ CallTypeOK'
  BY DEF CommandTypeOK, CallTypeOK, Fresh, Knows, Timely
<1>2. Fresh' /\ Knows' /\ Reaped'
  BY DEF CommandTypeOK, Fresh, Knows, Reaped
<1>3. Killed' /\ Asked'
  BY DEF CommandTypeOK, Knows, Killed, Asked, Group, Reserved
<1>4. Timely'
  BY DEF CommandTypeOK, CallTypeOK, Fresh, Knows, Reaped, Timely
<1>5. NothingLeftBehind' /\ StoppedIsNoAnswer' /\ PassedIsWhole'
  BY DEF NothingLeftBehind, StoppedIsNoAnswer, PassedIsWhole, CommandTypeOK, Fresh, Knows,
     Reaped, Killed, Group
<1> QED
  BY <1>1, <1>2, <1>3, <1>4, <1>5

\* The caller is cancelled.
LEMMA CancelKeeps == CommandInv /\ Cancel /\ UNCHANGED callVars => CommandInv'
<1> SUFFICES ASSUME CommandInv, Cancel, UNCHANGED callVars PROVE CommandInv'
  OBVIOUS
<1> USE CommandAssumption DEF CommandInv, Processes, Leader, noSignal, Goto, WaitAt, Finish,
        Return, Cancel, EndContext
<1>1. CommandTypeOK' /\ CallTypeOK'
  BY DEF CommandTypeOK, CallTypeOK, Fresh, Knows, Timely
<1>2. Fresh' /\ Knows' /\ Reaped'
  BY DEF CommandTypeOK, Fresh, Knows, Reaped
<1>3. Killed' /\ Asked'
  BY DEF CommandTypeOK, Knows, Killed, Asked, Group, Reserved
<1>4. Timely'
  BY DEF CommandTypeOK, CallTypeOK, Fresh, Knows, Reaped, Timely
<1>5. NothingLeftBehind' /\ StoppedIsNoAnswer' /\ PassedIsWhole'
  BY DEF NothingLeftBehind, StoppedIsNoAnswer, PassedIsWhole, CommandTypeOK, Fresh, Knows,
     Reaped, Killed, Group
<1> QED
  BY <1>1, <1>2, <1>3, <1>4, <1>5

\* Time passes only for what waits: what it may wait for gets less as it gets later.
LEMMA TickKeeps == CommandInv /\ Tick /\ UNCHANGED callVars => CommandInv'
<1> SUFFICES ASSUME CommandInv, Tick, UNCHANGED callVars PROVE CommandInv'
  OBVIOUS
<1> USE CommandAssumption DEF CommandInv, Processes, Leader, noSignal, Goto, WaitAt, Finish,
        Return, Tick, Waiting, Less, groupAlive, Reserved
<1>1. CommandTypeOK' /\ CallTypeOK'
  BY DEF CommandTypeOK, CallTypeOK, Fresh, Knows, Timely
<1>2. Fresh' /\ Knows' /\ Reaped'
  BY DEF CommandTypeOK, Fresh, Knows, Reaped
<1>3. Killed' /\ Asked'
  BY DEF CommandTypeOK, Knows, Killed, Asked, Group, Reserved
<1>4. Timely'
  BY DEF CommandTypeOK, CallTypeOK, Fresh, Knows, Reaped, Timely
<1>5. NothingLeftBehind' /\ StoppedIsNoAnswer' /\ PassedIsWhole'
  BY DEF NothingLeftBehind, StoppedIsNoAnswer, PassedIsWhole, CommandTypeOK, Fresh, Knows,
     Reaped, Killed, Group
<1> QED
  BY <1>1, <1>2, <1>3, <1>4, <1>5

\* An agent's answer.
LEMMA HearAgentKeeps == CommandInv /\ HearAgent => CommandInv'
<1> SUFFICES ASSUME CommandInv, HearAgent PROVE CommandInv'
  OBVIOUS
<1> USE CommandAssumption DEF CommandInv, Processes, Leader, noSignal, Goto, WaitAt, Finish,
        Return, HearAgent, parse, Answers, Failures, Refusals
<1>1. CommandTypeOK' /\ CallTypeOK'
  BY DEF CommandTypeOK, CallTypeOK, Fresh, Knows, Timely
<1>2. Fresh' /\ Knows' /\ Reaped'
  BY DEF CommandTypeOK, Fresh, Knows, Reaped
<1>3. Killed' /\ Asked'
  BY DEF CommandTypeOK, Knows, Killed, Asked, Group, Reserved
<1>4. Timely'
  BY DEF CommandTypeOK, CallTypeOK, Fresh, Knows, Reaped, Timely
<1>5. NothingLeftBehind' /\ StoppedIsNoAnswer' /\ PassedIsWhole'
  BY DEF NothingLeftBehind, StoppedIsNoAnswer, PassedIsWhole, CommandTypeOK, Fresh, Knows,
     Reaped, Killed, Group
<1> QED
  BY <1>1, <1>2, <1>3, <1>4, <1>5

\* What a check comes to.
LEMMA HearCheckKeeps == CommandInv /\ HearCheck => CommandInv'
<1> SUFFICES ASSUME CommandInv, HearCheck PROVE CommandInv'
  OBVIOUS
<1> USE CommandAssumption DEF CommandInv, Processes, Leader, noSignal, Goto, WaitAt, Finish,
        Return, HearCheck, leftOpen, Answers, Failures, Refusals
<1>1. CommandTypeOK' /\ CallTypeOK'
  BY DEF CommandTypeOK, CallTypeOK, Fresh, Knows, Timely
<1>2. Fresh' /\ Knows' /\ Reaped'
  BY DEF CommandTypeOK, Fresh, Knows, Reaped
<1>3. Killed' /\ Asked'
  BY DEF CommandTypeOK, Knows, Killed, Asked, Group, Reserved
<1>4. Timely'
  BY DEF CommandTypeOK, CallTypeOK, Fresh, Knows, Reaped, Timely
<1>5. NothingLeftBehind' /\ StoppedIsNoAnswer' /\ PassedIsWhole'
  BY DEF NothingLeftBehind, StoppedIsNoAnswer, PassedIsWhole, CommandTypeOK, Fresh, Knows,
     Reaped, Killed, Group
<1> QED
  BY <1>1, <1>2, <1>3, <1>4, <1>5

-----------------------------------------------------------------------------
(***************************************************************************)
(* The invocation.                                                         *)
(***************************************************************************)
\* What is true of the command line and of the lifecycle once they were looked at.
Looked ==
  /\ stage \in {"load", "loaded", "built", "checked", "ready", "taken", "prepared", "asked"} =>
       ~Misused /\ ~Unparsed /\ "--help" \notin flags
  /\ stage \in {"ready", "taken", "prepared", "asked"} => ~NamesAnother
  /\ task # NoTask => stage \in {"taken", "prepared", "asked"}

IInv == TypeOK /\ CommandInv /\ Looked

\* The sets of at most n of S are sets of it.
LEMMA AtMostTyped == \A n, S : \A s \in AtMost(n, S) : s \subseteq S
<1> TAKE n, S
<1> SUFFICES ASSUME NEW f \in [1..n -> S] PROVE ToSet(f) \subseteq S
  BY DEF AtMost
<1> QED
  BY DEF ToSet

\* Only these parts of a request are refused.
LEMMA RefusesTyped ==
  \A r : buildArgsRefuses(r) \subseteq {"vendor", "role_prompt", "allowed_commands"}
BY Zenon DEF buildArgsRefuses

\* The first state satisfies the invariant.
LEMMA InitInv == Init => IInv
<1> SUFFICES ASSUME Init PROVE IInv
  OBVIOUS
<1>1. CommandInv
  <2> USE CommandAssumption DEF Init, CallInit, CommandInit
  <2>1. CommandTypeOK /\ CallTypeOK
    <3>1. {limit, cut, hushed, foreign} \subseteq BOOLEAN
      BY Zenon
    <3>2. CallTypeOK
      BY DEF CallTypeOK, Answers
    <3>3. timer \in 0..Grace /\ delay \in 0..Grace /\ asked \in 0..3 * Grace + 1
          /\ late \in 0..3 * Grace + 1
      OBVIOUS
    <3> HIDE DEF CommandInit
    <3>4. /\ pc = "off" /\ told = "nothing" /\ ctx = "live" /\ wait = "none" /\ code = "zero"
          /\ born = {} /\ alive = {} /\ grouped = {} /\ holding = {} /\ doomed = {}
      BY DEF CommandInit
    <3> QED
      BY <3>1, <3>2, <3>3, <3>4 DEF CommandTypeOK
  <2>2. Fresh /\ Knows /\ Reaped /\ Killed /\ Asked
    BY DEF Fresh, Knows, Reaped, Killed, Asked
  <2>3. Timely
    BY DEF Timely
  <2>4. NothingLeftBehind /\ StoppedIsNoAnswer /\ PassedIsWhole
    BY DEF NothingLeftBehind, StoppedIsNoAnswer, PassedIsWhole
  <2> QED
    BY <2>1, <2>2, <2>3, <2>4 DEF CommandInv
<1>2. flags \subseteq Flags /\ lacking \subseteq Lacking /\ written \subseteq Settings
  BY AtMostTyped DEF Init, SetupInit
<1>0. stage = "flags" /\ cfg = NoConfig /\ exit = -1 /\ cmd \in Commands /\ argument \in Arguments
  BY Zenon DEF Init, SetupInit
<1>3. TypeOK
  BY <1>0, <1>1, <1>2 DEF CommandInv, TypeOK, Init, Stages
<1>4. Looked
  BY <1>0 DEF Looked, Init
<1> QED
  BY <1>1, <1>3, <1>4 DEF IInv

\* The command line is as wrong as it was.
LEMMA SameMisuse ==
  UNCHANGED typedVars => (Misused' <=> Misused) /\ (Unparsed' <=> Unparsed)
BY DEF Misused, Unparsed, Id

\* Whatever is looked at of the command line and the configuration stays as it is while
\* these do.
LEMMA SameVerdicts ==
  UNCHANGED <<typedVars, cfg>> =>
    /\ Misused' <=> Misused
    /\ Unparsed' <=> Unparsed
    /\ NamesAnother' <=> NamesAnother
BY DEF Misused, Unparsed, NamesAnother, Id

\* A configuration has every section.
LEMMA ParsedTyped == DOMAIN Parse = Sections
BY DEF Parse, ParsedPreset, Parsed, Resolved

\* A command that nothing happens to.
LEMMA SameCommand == CommandInv /\ UNCHANGED <<commandVars, callVars>> => CommandInv'
BY DEF CommandInv, CommandTypeOK, CallTypeOK, Fresh, Knows, Reaped, Killed, Asked, Timely,
   Group, NothingLeftBehind, StoppedIsNoAnswer, PassedIsWhole

\* The command that is run for a step.
LEMMA CommandStep == CommandInv /\ Next => CommandInv'
<1> SUFFICES ASSUME CommandInv, Next PROVE CommandInv'
  OBVIOUS
<1>2. CASE Set \/ Take \/ Prepare \/ Over
  BY <1>2, SameCommand DEF Set, Take, Prepare, Over
<1>3. ASSUME NEW for \in {"agent", "check"}, NEW limited \in BOOLEAN, pc = "off",
             answer = "nothing", Call(for, limited)
      PROVE  CommandInv'
  <2> USE <1>3, CommandAssumption DEF CommandInv, Call
  <2>1. CommandTypeOK' /\ CallTypeOK'
    BY DEF CommandTypeOK, CallTypeOK
  <2>2. Fresh' /\ Knows' /\ Reaped' /\ Killed' /\ Asked' /\ Timely'
    BY DEF Fresh, Knows, Reaped, Killed, Asked, Timely, Group, CommandTypeOK
  <2>3. NothingLeftBehind' /\ StoppedIsNoAnswer' /\ PassedIsWhole'
    BY DEF NothingLeftBehind, StoppedIsNoAnswer, PassedIsWhole
  <2> QED
    BY <2>1, <2>2, <2>3
<1>4. ASSUME NEW how \in Refusals, pc = "off", answer = "nothing", Refuse(how) PROVE CommandInv'
  <2> USE <1>4 DEF CommandInv, Refuse, Refusals
  <2>1. CommandTypeOK' /\ CallTypeOK'
    BY DEF CommandTypeOK, CallTypeOK, Answers
  <2>2. Fresh' /\ Knows' /\ Reaped' /\ Killed' /\ Asked' /\ Timely'
    BY DEF Fresh, Knows, Reaped, Killed, Asked, Timely, Group
  <2>3. NothingLeftBehind' /\ StoppedIsNoAnswer' /\ PassedIsWhole'
    BY DEF NothingLeftBehind, StoppedIsNoAnswer, PassedIsWhole
  <2> QED
    BY <2>1, <2>2, <2>3
<1>5. CASE Begin
  <2>1. ASSUME NEW r, AskAgent(r, Installed) PROVE CommandInv'
    <3>1. pc = "off" /\ answer = "nothing" /\ (r.timeout > 0) \in BOOLEAN
      BY <2>1 DEF AskAgent
    <3>2. Refuse("invalid") \/ Refuse("notinstalled") \/ Call("agent", r.timeout > 0)
      BY <2>1 DEF AskAgent
    <3> QED
      BY <1>3, <1>4, <3>1, <3>2 DEF Refusals
  <2>2. ASSUME RunCheck PROVE CommandInv'
    BY <1>3, <2>2 DEF RunCheck
  <2> QED
    BY <1>5, <2>1, <2>2 DEF Begin, Ask, Check
<1>6. CASE Start
  BY <1>6, EnterKeeps DEF Start
<1>7. CASE Underway
  <2>1. CallNext \/ ((Deadline \/ Cancel) /\ UNCHANGED callVars)
    BY <1>7 DEF Underway
  <2>2. CASE HearAgent \/ HearCheck
    BY <2>2, HearAgentKeeps, HearCheckKeeps
  <2>3. CASE Run /\ UNCHANGED callVars
    BY <2>3, EnterKeeps, SelectKeeps, RecheckKeeps, TerminateKeeps, AfterTermKeeps, AfterKillKeeps,
       CleanKeeps, CleanTerminateKeeps, CleanPollKeeps DEF Run
  <2>4. CASE (Wait \/ System \/ Deadline \/ Cancel \/ Tick) /\ UNCHANGED callVars
    BY <2>4, WaitKeeps, SystemKeeps, DeadlineKeeps, CancelKeeps, TickKeeps
  <2> QED
    BY <2>1, <2>2, <2>3, <2>4 DEF CallNext, CommandNext
<1>8. CASE Report
  <2> USE <1>8, CommandAssumption DEF Report, CommandReset, CommandInv
  <2>1. CommandTypeOK' /\ CallTypeOK'
    <3>1. limit' \in BOOLEAN /\ cut' \in BOOLEAN /\ hushed' \in BOOLEAN /\ foreign' \in BOOLEAN
      BY Zenon
    <3>2. CallTypeOK'
      BY DEF CallTypeOK, Answers
    <3>3. /\ pc' = "off" /\ told' = "nothing" /\ ctx' = "live" /\ wait' = "none" /\ code' = "zero"
          /\ born' = {} /\ alive' = {} /\ grouped' = {} /\ holding' = {} /\ doomed' = {}
          /\ timer' = 0 /\ delay' = 0 /\ asked' = 0 /\ late' = 0
      OBVIOUS
    <3> QED
      BY ONLY <3>1, <3>2, <3>3, CommandAssumption DEF CommandTypeOK
  <2>2. Fresh' /\ Knows' /\ Reaped' /\ Killed' /\ Asked' /\ Timely'
    BY DEF Fresh, Knows, Reaped, Killed, Asked, Timely
  <2>3. NothingLeftBehind' /\ StoppedIsNoAnswer' /\ PassedIsWhole'
    BY DEF NothingLeftBehind, StoppedIsNoAnswer, PassedIsWhole
  <2> QED
    BY <2>1, <2>2, <2>3
<1> QED
  BY <1>2, <1>5, <1>6, <1>7, <1>8 DEF Next

\* The types.
LEMMA TypeStep == IInv /\ Next => TypeOK'
<1> SUFFICES ASSUME IInv, Next PROVE TypeOK'
  OBVIOUS
<1>0. CommandTypeOK' /\ CallTypeOK'
  BY CommandStep DEF IInv, CommandInv
<1> USE <1>0 DEF IInv, TypeOK
<1>1. CASE Set
  <2> USE <1>1, ParsedTyped DEF Set, ExitWith, Proceed, Stages
  <2>1. CASE ParseFlags
    BY <2>1 DEF ParseFlags
  <2>2. CASE LoadConfig
    BY <2>2 DEF LoadConfig
  <2>3. CASE PrintLifecycles \/ BuildLifecycle
    <3>1. ExitWith(0) \/ ExitWith(1) \/ Proceed("built")
      BY <2>3, Zenon DEF PrintLifecycles, BuildLifecycle
    <3>2. stage = "loaded" /\ UNCHANGED workVars
      BY <2>3, Zenon DEF PrintLifecycles, BuildLifecycle
    <3> QED
      BY <3>1, <3>2
  <2>4. CASE Preflight \/ BuildCommand
    BY <2>4 DEF Preflight, BuildCommand
  <2> QED
    BY <2>1, <2>2, <2>3, <2>4 DEF SetupNext
<1>2. CASE Take
  <2>1. CASE UNCHANGED workVars
    BY <1>2, <2>1 DEF Take, ExitWith, Proceed, Stages
  <2>2. CASE Proceed("taken") /\ task' \in Tasks /\ UNCHANGED blame
    <3>1. stage = "ready" /\ UNCHANGED model
      BY <1>2, <2>2 DEF Take
    <3> QED
      BY <2>2, <3>1 DEF Proceed, Stages
  <2> QED
    BY <1>2, <2>1, <2>2 DEF Take
<1>3. CASE Prepare
  <2>1. CASE Forget("heard")
    <3>1. UNCHANGED exit /\ blame' \in {"branch", blame} /\ stage # "exited"
      BY <1>3 DEF Prepare, Proceed
    <3> QED
      BY <2>1, <3>1 DEF Forget, Stages, Commands, Arguments, NoTask
  <2>2. CASE Proceed("prepared") /\ UNCHANGED <<task, model, blame>>
    <3>1. stage # "exited"
      BY <1>3 DEF Prepare
    <3> QED
      BY <2>2, <3>1 DEF Proceed, Stages
  <2> QED
    BY <1>3, <2>1, <2>2 DEF Prepare
<1>4. CASE Begin
  <2>1. blame' \in {"nothing", "vendor", "role_prompt", "allowed_commands", "cmd", "path",
                    "gate"}
    <3>1. ASSUME NEW s, Ask(s) PROVE blame' \in {"nothing", "vendor", "role_prompt",
                                                  "allowed_commands", "cmd", "path"}
      BY <3>1, RefusesTyped DEF Ask
    <3>2. ASSUME NEW argv, Check(argv) PROVE blame' \in {"nothing", "gate"}
      BY <3>2 DEF Check
    <3> QED
      BY <1>4, <3>1, <3>2 DEF Begin
  <2> QED
    BY <1>4, <2>1 DEF Begin, Proceed, Stages
<1>5. CASE Start
  BY <1>5 DEF Start, Forget, Stages, Commands, Arguments, NoTask
<1>6. CASE Underway \/ Over
  BY <1>6 DEF Underway, Over
<1>7. CASE Report
  BY <1>7 DEF Report, Forget, Stages, Commands, Arguments, NoTask
<1> QED
  BY <1>1, <1>2, <1>3, <1>4, <1>5, <1>6, <1>7 DEF Next

\* What was looked at.
LEMMA LookedStep == IInv /\ Next => Looked'
<1> SUFFICES ASSUME IInv, Next PROVE Looked'
  OBVIOUS
<1> USE SameVerdicts DEF IInv, Looked
<1>1. CASE Set
  <2> USE <1>1 DEF Set, ExitWith, Proceed
  <2>1. CASE ParseFlags
    BY <2>1 DEF ParseFlags
  <2>2. CASE LoadConfig
    <3>1. (Misused' <=> Misused) /\ (Unparsed' <=> Unparsed) /\ UNCHANGED typedVars
      BY <2>2, SameMisuse DEF LoadConfig
    <3> QED
      BY <2>2, <3>1 DEF LoadConfig
  <2>3. CASE PrintLifecycles \/ BuildLifecycle
    BY <2>3 DEF PrintLifecycles, BuildLifecycle
  <2>4. CASE Preflight \/ BuildCommand
    BY <2>4 DEF Preflight, BuildCommand
  <2> QED
    BY <2>1, <2>2, <2>3, <2>4 DEF SetupNext
<1>2. CASE Take
  BY <1>2 DEF Take, ExitWith, Proceed
<1>3. CASE Prepare
  BY <1>3 DEF Prepare, Forget, Proceed
<1>4. CASE Begin
  BY <1>4 DEF Begin, Proceed
<1>5. CASE Start \/ Report
  BY <1>5 DEF Start, Report, Forget
<1>6. CASE Underway \/ Over
  BY <1>6 DEF Underway, Over
<1> QED
  BY <1>1, <1>2, <1>3, <1>4, <1>5, <1>6 DEF Next

\* The invariant is inductive.
LEMMA InvStep == IInv /\ [Next]_vars => IInv'
<1>1. ASSUME IInv, UNCHANGED vars PROVE IInv'
  <2>1. TypeOK'
    BY <1>1 DEF IInv, TypeOK, CommandTypeOK, CallTypeOK
  <2>2. CommandInv'
    BY <1>1, SameCommand DEF IInv
  <2>3. Looked'
    BY <1>1, SameVerdicts DEF IInv, Looked
  <2> QED
    BY <2>1, <2>2, <2>3 DEF IInv
<1>2. ASSUME IInv, Next PROVE IInv'
  BY <1>2, TypeStep, CommandStep, LookedStep DEF IInv
<1> QED
  BY <1>1, <1>2

\* The invariant holds of every invocation.
LEMMA Invariance == Spec => []IInv
BY InitInv, InvStep, PTL DEF Spec

\* The variables keep to their types.
THEOREM TypeCorrect == Spec => []TypeOK
BY Invariance, PTL DEF IInv

\* Whatever is left of a command's group when Run returns was sent SIGKILL, however the
\* command, what it started and the context ended.
THEOREM NothingIsLeftBehind == Spec => []NothingLeftBehind
BY Invariance, PTL DEF IInv, CommandInv

\* Run returns within three grace periods of the end of its context or its command.
THEOREM RunReturnsInTime == Spec => []ReturnsInTime
<1>1. IInv => ReturnsInTime
  BY DEF IInv, CommandInv, Timely, ReturnsInTime
<1> QED
  BY <1>1, Invariance, PTL

\* A command that was asked to end while it ran is neither an answer nor a check that passed.
THEOREM StoppedNeverAnswers == Spec => []StoppedIsNoAnswer
BY Invariance, PTL DEF IInv, CommandInv

\* A check that passed ended by itself, in time and with nothing left unread.
THEOREM PassedWasWhole == Spec => []PassedIsWhole
BY Invariance, PTL DEF IInv, CommandInv

\* A command line that was wrong takes no task.
THEOREM WrongLinesTakeNothing == Spec => []MisuseTakesNothing
<1>1. IInv => MisuseTakesNothing
  <2> SUFFICES ASSUME IInv PROVE MisuseTakesNothing
    OBVIOUS
  <2>1. exit = 2 => task = NoTask
    BY DEF IInv, TypeOK, Looked
  <2>2. task # NoTask => ~Misused /\ ~Unparsed /\ "--help" \notin flags /\ ~NamesAnother
    BY DEF IInv, Looked
  <2>3. flags \subseteq Flags /\ argument \in Arguments
    BY DEF IInv, TypeOK
  <2>4. ASSUME ~Misused, ~Unparsed, "--help" \notin flags
        PROVE  flags \subseteq {"--config=loomlc.yml", "--lifecycle=sdlc", "--lifecycle=nightly",
                                "--max-iter=0"}
    BY <2>3, <2>4, Zenon DEF Misused, Unparsed, Flags
  <2>5. ASSUME ~Misused, ~NamesAnother
        PROVE  argument \in {"9", "own#9"} \cup IF cmd = "tidy" THEN {} ELSE {"none", "own#"}
    BY <2>3, <2>5, Zenon DEF Misused, NamesAnother, Id, Arguments
  <2> QED
    BY <2>1, <2>2, <2>4, <2>5 DEF MisuseTakesNothing
<1> QED
  BY <1>1, Invariance, PTL

\* Nothing is killed that was not asked to end a grace period earlier.
THEOREM GraceWasGiven == Spec => GraceIsGiven
<1>1. ASSUME IInv, [Next]_vars, ~(doomed' \subseteq doomed) PROVE asked > Grace
  <2>1. Next /\ ~UNCHANGED doomed
    BY <1>1
  <2>2. doomed' # {}
    BY <1>1
  <2>3. Underway /\ Run
    BY <2>1, <2>2 DEF Next, Set, Take, Prepare, Begin, Ask, Check, AskAgent, RunCheck, Refuse,
       Call, Start,
       Underway, CallNext, HearAgent, HearCheck, CommandNext, Wait, System, Deadline, Cancel, EndContext,
       Tick, Enter, noSignal, Report, CommandReset, Over
  <2>4. AfterTerm \/ CleanPoll
    BY <2>1, <2>3 DEF Run, Enter, Select, Recheck, Terminate, AfterKill, Clean, CleanTerminate,
       terminateGroup, noSignal
  <2>5. pc \in {"term", "poll"} /\ timer = 0 /\ doomed' = doomed \cup Group
    BY <2>1, <2>4 DEF AfterTerm, CleanPoll, killGroup, noSignal
  <2> QED
    BY <1>1, <2>5 DEF IInv, CommandInv, Asked, CommandTypeOK
<1>2. IInv /\ [Next]_vars => [~(doomed' \subseteq doomed) => asked > Grace]_commandVars
  BY <1>1
<1> QED
  BY <1>2, Invariance, PTL DEF Spec, GraceIsGiven
=============================================================================
