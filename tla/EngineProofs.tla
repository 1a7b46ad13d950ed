---------------------------- MODULE EngineProofs -----------------------------
(***************************************************************************)
(* Proofs about Engine, for any number of runs and tasks, any cap and any  *)
(* choice of faults and of what people do.                                 *)
(***************************************************************************)
EXTENDS Engine, FiniteSetTheorems, TLAPS

\* A run past its pick knows which task it is on.
KnowsTask(r) ==
  run[r].pc \in Holding \cup {"get", "claim"} => run[r].task \in Tasks

\* What a run remembers having said or done, and where it may be when it does.
Remembers(r) ==
  /\ run[r].told => \/ run[r].pc = "fail"
                    \/ run[r].pc = "release" /\ run[r].settled
  /\ run[r].settled => run[r].pc \in {"finish", "release"}
  /\ run[r].pc = "finish" => run[r].settled

\* The bookkeeping is for a pull request that was opened.
Opened(r) == run[r].pc = "finish" => pr[run[r].task] # "none"

\* A run answers for the claim on its task until its last label edit is behind it.
Owes(r, t) == Holds(r, t) /\ ~(run[r].pc = "release" /\ run[r].settled)

Owed ==
  \A t \in Tasks :
    "in-progress" \in labels[t] => t \in lapse \/ \E r \in Runs : Owes(r, t)

\* What each run keeps true, and the inductive invariant.
RunInv == \A r \in Runs : KnowsTask(r) /\ Remembers(r) /\ Opened(r)

IInv == TypeOK /\ RunInv /\ DoneMeansProposed /\ Owed
-----------------------------------------------------------------------------
(***************************************************************************)
(* Types.                                                                  *)
(***************************************************************************)
\* Ending, moving on and labelling keep to the types.
LEMMA OffTyped == Off \in RunState
BY DEF Off, RunState, Steps

\* Whatever a run learns or does next, its state keeps to its type.
LEMMA MovesTyped ==
  ASSUME NEW s \in RunState
  PROVE  /\ \A p \in Steps : At(s, p) \in RunState
         /\ \A t \in Tasks : Onto(s, t) \in RunState
         /\ \A n \in Nat : Counted(s, n) \in RunState
         /\ Housed(s) \in RunState
         /\ Settled(s) \in RunState
         /\ Stopped(s) \in RunState
         /\ \A b \in BOOLEAN : Told(s, b) \in RunState /\ Leaving(s, b) \in RunState
         /\ \A b \in Branches : Cleared(s, b) \in RunState
<1>1. /\ \A p \in Steps : At(s, p) \in RunState
      /\ \A t \in Tasks : Onto(s, t) \in RunState
      /\ \A n \in Nat : Counted(s, n) \in RunState
  BY DEF At, Onto, Counted, RunState, Steps
<1>2. /\ Housed(s) \in RunState
      /\ Settled(s) \in RunState
      /\ Stopped(s) \in RunState
  BY DEF Housed, Settled, Stopped, RunState, Steps
<1>3. \A b \in BOOLEAN : Told(s, b) \in RunState /\ Leaving(s, b) \in RunState
  BY DEF Told, Leaving, RunState, Steps
<1>4. \A b \in Branches : Cleared(s, b) \in RunState
  BY DEF Cleared, RunState, Steps
<1> QED
  BY <1>1, <1>2, <1>3, <1>4

\* So does the state a run starts in.
LEMMA FirstTyped ==
  \A p \in Steps, t \in Tasks \cup {NoTask} : First(p, t) \in RunState
BY DEF First, Off, RunState

\* The three ways a run moves keep the type of all the runs.
LEMMA GotoTyped ==
  ASSUME run \in [Runs -> RunState], NEW r \in Runs, NEW p \in Steps, Goto(r, p)
  PROVE  run' \in [Runs -> RunState]
BY MovesTyped, OffTyped DEF Goto

\* A run that has proposed.
LEMMA ProposedTyped ==
  ASSUME run \in [Runs -> RunState], NEW r \in Runs, Proposed(r)
  PROVE  run' \in [Runs -> RunState]
BY MovesTyped DEF Proposed, Steps

\* A run that leaves.
LEMMA LeaveTyped ==
  ASSUME run \in [Runs -> RunState], NEW r \in Runs, NEW b \in BOOLEAN, Leave(r, b)
  PROVE  run' \in [Runs -> RunState]
BY MovesTyped, OffTyped DEF Leave, Steps

\* The ways labels and the history change keep theirs.
LEMMA RelabelTyped ==
  ASSUME labels \in [Tasks -> SUBSET Labels], NEW r, run[r].task \in Tasks, NEW o,
         NEW added \in SUBSET Labels, NEW removed, Relabel(r, o, added, removed)
  PROVE  labels' \in [Tasks -> SUBSET Labels]
BY DEF Relabel

\* The history holds only tasks.
LEMMA LapseTyped ==
  ASSUME lapse \subseteq Tasks, NEW r, run[r].task \in Tasks, NEW wrong \in BOOLEAN,
         Lapse(r, wrong)
  PROVE  lapse' \subseteq Tasks
BY DEF Lapse

\* Branches are made by starting one and by committing to it.
LEMMA BranchTyped ==
  /\ <<>> \in Branches
  /\ \A b \in Branches, r \in Runs : Append(b, r) \in Branches
BY DEF Branches

\* The open pull requests can be counted.
LEMMA CountTyped == TypeOK => Cardinality(OpenPulls) \in Nat
<1>1. IsFiniteSet(OpenPulls)
  BY FS_Subset, EngineAssumption DEF OpenPulls
<1> QED
  BY <1>1, FS_CardinalityType

\* The state starts well typed.
LEMMA InitTyped == Init => TypeOK
<1> SUFFICES ASSUME Init PROVE TypeOK
  OBVIOUS
<1>1. run \in [Runs -> RunState]
  BY OffTyped DEF Init
<1>2. /\ labels \in [Tasks -> SUBSET Labels]
      /\ pr \in [Tasks -> {"none", "open", "closed"}]
      /\ live \subseteq Tasks /\ dir \subseteq Tasks /\ lapse \subseteq Tasks /\ shared \subseteq Tasks
  BY DEF Init, Labels
<1>3. /\ remote \in [Tasks -> Branches \cup {NoBranch}]
      /\ local \in [Tasks -> Branches]
  BY BranchTyped DEF Init
<1> QED
  BY <1>1, <1>2, <1>3 DEF TypeOK

\* A run's step keeps the types, given that it knows its task.
LEMMA StepTyped ==
  ASSUME TypeOK, NEW r \in Runs, KnowsTask(r), Step(r)
  PROVE  TypeOK'
<1> USE DEF TypeOK
<1>0. run[r].pc \in Holding \cup {"get", "claim"} => run[r].task \in Tasks
  BY DEF KnowsTask
<1>1. CASE OpenOutputs(r)
  <2>1. Counted(run[r], Cardinality(OpenPulls)) \in RunState
    BY CountTyped, MovesTyped
  <2>2. run' \in [Runs -> RunState]
    BY <1>1, <2>1, OffTyped DEF OpenOutputs
  <2> QED
    BY <1>1, <2>2 DEF OpenOutputs
<1>2. CASE InProgress(r)
  <2>1. run' \in [Runs -> RunState]
    BY <1>2, GotoTyped DEF InProgress, Steps
  <2> QED
    BY <1>2, <2>1 DEF InProgress
<1>3. CASE NextReady(r)
  <2>2. Ready \subseteq Tasks
    BY DEF Ready
  <2>3. run' \in [Runs -> RunState]
    BY <1>3, <2>2, MovesTyped, GotoTyped DEF NextReady, Steps
  <2> QED
    BY <1>3, <2>3 DEF NextReady
<1>4. CASE Get(r)
  <2>1. run' \in [Runs -> RunState]
    BY <1>4, GotoTyped DEF Get, Steps
  <2> QED
    BY <1>4, <2>1 DEF Get
<1>5. CASE Claim(r)
  <2>1. run[r].task \in Tasks
    BY <1>5, <1>0 DEF Claim
  <2>2. PICK p \in {"pushed", "off"} : Goto(r, p)
    BY <1>5 DEF Claim
  <2>3. run' \in [Runs -> RunState]
    BY <2>2, GotoTyped DEF Steps
  <2>4. labels' \in [Tasks -> SUBSET Labels] /\ lapse' \subseteq Tasks
    BY <1>5, <2>1, RelabelTyped, LapseTyped DEF Claim, Labels
  <2>5. shared' \subseteq Tasks
    BY <1>5, <2>1 DEF Claim, Meets
  <2> QED
    BY <1>5, <2>3, <2>4, <2>5 DEF Claim
<1>6. CASE Pushed(r)
  <2>1. run' \in [Runs -> RunState]
    BY <1>6, GotoTyped DEF Pushed, Steps
  <2> QED
    BY <1>6, <2>1 DEF Pushed
<1>7. CASE Prepare(r)
  <2>1. run[r].task \in Tasks
    BY <1>7, <1>0 DEF Prepare, Holding
  <2>3. run' \in [Runs -> RunState]
    BY <1>7, MovesTyped, GotoTyped DEF Prepare, Steps
  <2>4. local' \in [Tasks -> Branches]
    BY <1>7, BranchTyped DEF Prepare
  <2>5. dir' \subseteq Tasks
    BY <1>7, <2>1 DEF Prepare
  <2> QED
    BY <1>7, <2>3, <2>4, <2>5 DEF Prepare
<1>8. CASE Implement(r)
  <2>1. run' \in [Runs -> RunState]
    BY <1>8, GotoTyped DEF Implement, Steps
  <2>2. Append(local[run[r].task], r) \in Branches
    BY <1>8, <1>0, BranchTyped DEF Implement, Holding
  <2>3. local' \in [Tasks -> Branches]
    BY <1>8, <2>2 DEF Implement
  <2> QED
    BY <1>8, <2>1, <2>3 DEF Implement
<1>9. CASE Check(r)
  <2>1. run[r].pc = "check" => run[r].task \in Tasks
    BY <1>0 DEF Holding
  <2>2. Cleared(run[r], local[run[r].task]) \in RunState
    BY <1>9, <2>1, MovesTyped DEF Check
  <2>3. run' \in [Runs -> RunState]
    BY <1>9, <2>2, GotoTyped DEF Check, Steps
  <2> QED
    BY <1>9, <2>3 DEF Check
<1>10. CASE Push(r)
  <2>1. run[r].task \in Tasks
    BY <1>10, <1>0 DEF Push, Holding
  <2>2. run' \in [Runs -> RunState]
    BY <1>10, GotoTyped DEF Push, Steps
  <2>3. remote' \in [Tasks -> Branches \cup {NoBranch}]
    BY <1>10, <2>1 DEF Push
  <2> QED
    BY <1>10, <2>2, <2>3 DEF Push
<1>11. CASE Lookup(r)
  <2>1. run' \in [Runs -> RunState]
    BY <1>11, GotoTyped, ProposedTyped DEF Lookup, Steps
  <2> QED
    BY <1>11, <2>1 DEF Lookup
<1>12. CASE Create(r)
  <2>1. run' \in [Runs -> RunState]
    BY <1>12, GotoTyped, ProposedTyped DEF Create, Steps
  <2>2. pr' \in [Tasks -> {"none", "open", "closed"}]
    BY <1>12 DEF Create
  <2> QED
    BY <1>12, <2>1, <2>2 DEF Create
<1>13. CASE Finish(r)
  <2>1. run[r].task \in Tasks
    BY <1>13, <1>0 DEF Finish, Holding
  <2>2. run' \in [Runs -> RunState]
    BY <1>13, GotoTyped DEF Finish, Steps
  <2>3. labels' \in [Tasks -> SUBSET Labels] /\ lapse' \subseteq Tasks
    BY <1>13, <2>1, RelabelTyped, LapseTyped DEF Finish, Labels, Settles, RunState, Landed
  <2> QED
    BY <1>13, <2>2, <2>3 DEF Finish
<1>14. CASE Comment(r)
  <2>1. PICK o \in CleanupOutcomes : run' = [run EXCEPT ![r] = Told(@, o = "ok")]
    BY <1>14 DEF Comment
  <2>2. Told(run[r], o = "ok") \in RunState
    BY MovesTyped
  <2>3. run' \in [Runs -> RunState]
    BY <2>1, <2>2
  <2> QED
    BY <1>14, <2>3 DEF Comment
<1>15. CASE Fail(r)
  <2>1. run[r].task \in Tasks
    BY <1>15, <1>0 DEF Fail, Holding
  <2>2. PICK o \in CleanupOutcomes :
          /\ Relabel(r, o, {"failed"}, {"in-progress"})
          /\ Lapse(r, Settles(r, o) /\ ~Landed(o))
          /\ Leave(r, Settles(r, o))
    BY <1>15 DEF Fail
  <2>3. Settles(r, o) \in BOOLEAN
    BY DEF Settles, RunState
  <2>4. run' \in [Runs -> RunState]
    BY <2>2, <2>3, LeaveTyped
  <2>5. labels' \in [Tasks -> SUBSET Labels]
    BY <2>1, <2>2, RelabelTyped DEF Labels
  <2>6. lapse' \subseteq Tasks
    BY <2>1, <2>2 DEF Lapse
  <2> QED
    BY <1>15, <2>4, <2>5, <2>6 DEF Fail
<1>16. CASE Release(r)
  <2>1. run' \in [Runs -> RunState]
    BY <1>16, GotoTyped DEF Release, Steps
  <2>2. dir' \subseteq Tasks
    BY <1>16 DEF Release
  <2> QED
    BY <1>16, <2>1, <2>2 DEF Release
<1>17. CASE GiveBack(r)
  <2>1. run[r].task \in Tasks
    BY <1>17, <1>0 DEF GiveBack, Holding
  <2>2. run' \in [Runs -> RunState]
    BY <1>17, GotoTyped DEF GiveBack, Steps
  <2>3. labels' \in [Tasks -> SUBSET Labels] /\ lapse' \subseteq Tasks
    BY <1>17, <2>1, RelabelTyped, LapseTyped DEF GiveBack, Labels, Settles, RunState, Landed
  <2> QED
    BY <1>17, <2>2, <2>3 DEF GiveBack
<1> QED
  BY <1>1, <1>2, <1>3, <1>4, <1>5, <1>6, <1>7, <1>8, <1>9, <1>10, <1>11, <1>12,
    <1>13, <1>14, <1>15, <1>16, <1>17 DEF Step

\* So does every step.
LEMMA NextTyped == TypeOK /\ RunInv /\ Next => TypeOK'
<1> SUFFICES ASSUME TypeOK, RunInv, Next PROVE TypeOK'
  OBVIOUS
<1>1. ASSUME NEW r \in Runs, Step(r) PROVE TypeOK'
  BY <1>1, StepTyped DEF RunInv
<1>2. ASSUME NEW r \in Runs, Stop(r) PROVE TypeOK'
  BY <1>2, MovesTyped DEF Stop, TypeOK
<1>3. ASSUME NEW r \in Runs, Kill(r) PROVE TypeOK'
  <2>1. run' \in [Runs -> RunState]
    BY <1>3, GotoTyped DEF Kill, TypeOK, Steps
  <2>2. lapse' \subseteq Tasks
    BY <1>3 DEF Kill, Lapse, RunInv, KnowsTask, TypeOK
  <2> QED
    BY <1>3, <2>1, <2>2 DEF Kill, TypeOK
<1>4. ASSUME NEW r \in Runs, NEW want \in Named \cup {NoTask}, Start(r, want) PROVE TypeOK'
  <2>1. run' \in [Runs -> RunState]
    BY <1>4, FirstTyped, EngineAssumption DEF Start, TypeOK, Steps
  <2> QED
    BY <1>4, <2>1 DEF Start, TypeOK
<1>5. ASSUME NEW t \in Tasks, Person(t) PROVE TypeOK'
  <2> USE DEF TypeOK
  <2>1. CASE Merge(t)
    BY <2>1 DEF Merge
  <2>2. CASE Close(t)
    BY <2>2 DEF Close
  <2>3. CASE Reopen(t)
    BY <2>3 DEF Reopen
  <2>4. CASE Retry(t)
    BY <2>4 DEF Retry
  <2>5. CASE Unclaim(t)
    BY <2>5 DEF Unclaim
  <2>6. CASE Delete(t)
    BY <2>6 DEF Delete
  <2> QED
    BY <1>5, <2>1, <2>2, <2>3, <2>4, <2>5, <2>6 DEF Person
<1> QED
  BY <1>1, <1>2, <1>3, <1>4, <1>5 DEF Next
-----------------------------------------------------------------------------
(***************************************************************************)
(* What runs remember.                                                     *)
(***************************************************************************)
\* What each move changes of a run's state, and what it leaves alone.
LEMMA AtFields ==
  ASSUME NEW s \in RunState, NEW p
  PROVE  /\ At(s, p).pc = p
         /\ At(s, p).task = s.task
         /\ At(s, p).told = s.told
         /\ At(s, p).settled = s.settled
BY DEF At, RunState

\* A run that picked a task.
LEMMA OntoFields ==
  ASSUME NEW s \in RunState, NEW t
  PROVE  /\ Onto(s, t).pc = "get"
         /\ Onto(s, t).task = t
         /\ Onto(s, t).told = s.told
         /\ Onto(s, t).settled = s.settled
BY DEF Onto, RunState

\* A run that counted the open outputs.
LEMMA CountedFields ==
  ASSUME NEW s \in RunState, NEW n
  PROVE  /\ Counted(s, n).pc = "claims"
         /\ Counted(s, n).task = s.task
         /\ Counted(s, n).told = s.told
         /\ Counted(s, n).settled = s.settled
BY DEF Counted, RunState

\* A run that was given a workspace.
LEMMA HousedFields ==
  ASSUME NEW s \in RunState
  PROVE  /\ Housed(s).pc = "implement"
         /\ Housed(s).task = s.task
         /\ Housed(s).told = s.told
         /\ Housed(s).settled = s.settled
BY DEF Housed, RunState

\* A run whose pull request exists.
LEMMA SettledFields ==
  ASSUME NEW s \in RunState
  PROVE  /\ Settled(s).pc = "finish"
         /\ Settled(s).task = s.task
         /\ Settled(s).told = s.told
         /\ Settled(s).settled = TRUE
BY DEF Settled, RunState

\* A run that commented.
LEMMA ToldFields ==
  ASSUME NEW s \in RunState, NEW b
  PROVE  /\ Told(s, b).pc = "fail"
         /\ Told(s, b).task = s.task
         /\ Told(s, b).told = b
         /\ Told(s, b).settled = s.settled
BY DEF Told, RunState

\* A run on its way out.
LEMMA LeavingFields ==
  ASSUME NEW s \in RunState, NEW b
  PROVE  /\ Leaving(s, b).pc = "release"
         /\ Leaving(s, b).task = s.task
         /\ Leaving(s, b).told = s.told
         /\ Leaving(s, b).settled = b
BY DEF Leaving, RunState

\* A run whose branch was cleared.
LEMMA ClearedFields ==
  ASSUME NEW s \in RunState, NEW b
  PROVE  /\ Cleared(s, b).pc = "push"
         /\ Cleared(s, b).task = s.task
         /\ Cleared(s, b).told = s.told
         /\ Cleared(s, b).settled = s.settled
BY DEF Cleared, RunState

\* A run that was stopped: it is where it was.
LEMMA StoppedFields ==
  ASSUME NEW s \in RunState
  PROVE  /\ Stopped(s).pc = s.pc
         /\ Stopped(s).task = s.task
         /\ Stopped(s).told = s.told
         /\ Stopped(s).settled = s.settled
BY DEF Stopped, RunState

\* What a run that is off, or has just started, remembers.
LEMMA OffFields ==
  /\ Off.pc = "off" /\ Off.task = NoTask /\ Off.told = FALSE /\ Off.settled = FALSE
  /\ \A p, t : /\ First(p, t).pc = p /\ First(p, t).task = t
               /\ First(p, t).told = FALSE /\ First(p, t).settled = FALSE
BY DEF Off, First

\* A run's step changes no other run.
LEMMA OthersKeep ==
  ASSUME TypeOK, NEW r \in Runs, NEW s \in Runs \ {r},
         Step(r) \/ Stop(r) \/ Kill(r) \/ \E want \in Named \cup {NoTask} : Start(r, want)
  PROVE  run'[s] = run[s]
<1> USE DEF TypeOK
<1>1. CASE OpenOutputs(r)
  BY <1>1 DEF OpenOutputs, Goto
<1>2. CASE InProgress(r)
  BY <1>2 DEF InProgress, Goto
<1>3. CASE NextReady(r)
  BY <1>3 DEF NextReady, Goto
<1>4. CASE Get(r)
  BY <1>4 DEF Get, Goto
<1>5. CASE Claim(r)
  BY <1>5 DEF Claim, Goto
<1>6. CASE Pushed(r)
  BY <1>6 DEF Pushed, Goto
<1>7. CASE Prepare(r)
  BY <1>7 DEF Prepare, Goto
<1>8. CASE Implement(r)
  BY <1>8 DEF Implement, Goto
<1>9. CASE Check(r)
  BY <1>9 DEF Check, Goto
<1>10. CASE Push(r)
  BY <1>10 DEF Push, Goto
<1>11. CASE Lookup(r)
  BY <1>11 DEF Lookup, Goto, Proposed
<1>12. CASE Create(r)
  BY <1>12 DEF Create, Goto, Proposed
<1>13. CASE Finish(r)
  BY <1>13 DEF Finish, Goto
<1>14. CASE Comment(r)
  BY <1>14 DEF Comment, Goto
<1>15. CASE Fail(r)
  BY <1>15 DEF Fail, Goto, Leave
<1>16. CASE Release(r)
  BY <1>16 DEF Release, Goto
<1>17. CASE GiveBack(r)
  BY <1>17 DEF GiveBack, Goto
<1>18. CASE Stop(r) \/ Kill(r)
  BY <1>18 DEF Stop, Kill, Goto
<1>19. CASE \E want \in Named \cup {NoTask} : Start(r, want)
  BY <1>19 DEF Start
<1> QED
  BY <1>1, <1>2, <1>3, <1>4, <1>5, <1>6, <1>7, <1>8, <1>9, <1>10, <1>11, <1>12,
    <1>13, <1>14, <1>15, <1>16, <1>17, <1>18, <1>19 DEF Step

\* A task whose pull request was opened stays one.
LEMMA OpenedStays ==
  ASSUME TypeOK, Next, NEW t \in Tasks, pr[t] # "none"
  PROVE  pr'[t] # "none"
<1> USE DEF TypeOK
<1>1. ASSUME NEW r \in Runs, Step(r) PROVE pr'[t] # "none"
  <2>1. CASE Create(r)
    BY <2>1 DEF Create
  <2>2. CASE UNCHANGED pr
    BY <2>2
  <2> QED
    BY <1>1, <2>1, <2>2 DEF Step, OpenOutputs, InProgress, NextReady, Get, Claim, Pushed,
      Prepare, Implement, Check, Push, Lookup, Finish, Comment, Fail, Release, GiveBack
<1>2. ASSUME NEW r \in Runs, Stop(r) \/ Kill(r) PROVE pr'[t] # "none"
  BY <1>2 DEF Stop, Kill
<1>3. ASSUME NEW r \in Runs, NEW want \in Named \cup {NoTask}, Start(r, want)
      PROVE  pr'[t] # "none"
  BY <1>3 DEF Start
<1>4. ASSUME NEW u \in Tasks, Person(u) PROVE pr'[t] # "none"
  BY <1>4 DEF Person, Merge, Close, Reopen, Retry, Unclaim, Delete
<1> QED
  BY <1>1, <1>2, <1>3, <1>4 DEF Next

\* Where moving on, proposing and leaving take a run.
LEMMA GotoFields ==
  ASSUME run \in [Runs -> RunState], NEW r \in Runs, NEW p, Goto(r, p)
  PROVE  /\ run'[r].pc = p
         /\ run'[r].told => run[r].told
         /\ run'[r].settled => run[r].settled
         /\ p = "off" => run'[r] = Off
         /\ p # "off" => /\ run'[r].task = run[r].task
                         /\ run'[r].told = run[r].told
                         /\ run'[r].settled = run[r].settled
<1>1. CASE p = "off"
  BY <1>1, OffFields DEF Goto
<1>2. CASE p # "off"
  <2>1. run'[r] = At(run[r], p)
    BY <1>2 DEF Goto
  <2> QED
    BY <1>2, <2>1, AtFields
<1> QED
  BY <1>1, <1>2

\* Proposing takes a run to the bookkeeping, settled.
LEMMA ProposedFields ==
  ASSUME run \in [Runs -> RunState], NEW r \in Runs, Proposed(r)
  PROVE  /\ run'[r].pc = "finish"
         /\ run'[r].task = run[r].task
         /\ run'[r].told = run[r].told
         /\ run'[r].settled = TRUE
<1>1. run'[r] = Settled(run[r]) /\ run[r] \in RunState
  BY DEF Proposed
<1>2. /\ run'[r].pc = "finish" /\ run'[r].task = run[r].task
      /\ run'[r].told = run[r].told
  BY <1>1, SettledFields
<1>3. run'[r].settled = TRUE
  BY <1>1, SettledFields
<1> QED
  BY <1>2, <1>3

\* Leaving takes a run to its workspace, its claim, or away.
LEMMA LeaveFields ==
  ASSUME run \in [Runs -> RunState], NEW r \in Runs, NEW b \in BOOLEAN, Leave(r, b)
  PROVE  \/ /\ run'[r].pc = "release"
            /\ run'[r].task = run[r].task
            /\ run'[r].told = run[r].told
            /\ run'[r].settled = b
         \/ /\ run'[r].pc = "giveback" /\ ~b
            /\ run'[r].task = run[r].task
            /\ run'[r].told = run[r].told
            /\ run'[r].settled = run[r].settled
         \/ run'[r] = Off /\ b
<1>1. CASE run[r].dir
  <2>1. run'[r] = Leaving(run[r], b)
    BY <1>1 DEF Leave
  <2> QED
    BY <2>1, LeavingFields
<1>2. CASE ~run[r].dir /\ ~b
  <2>1. run'[r] = At(run[r], "giveback")
    BY <1>2 DEF Leave
  <2> QED
    BY <1>2, <2>1, AtFields
<1>3. CASE ~run[r].dir /\ b
  BY <1>3 DEF Leave
<1> QED
  BY <1>1, <1>2, <1>3

\* A run's step keeps what it knows and remembers.
LEMMA StepOwn ==
  ASSUME TypeOK, NEW r \in Runs, KnowsTask(r), Remembers(r), Step(r)
  PROVE  KnowsTask(r)' /\ Remembers(r)'
<1> USE DEF KnowsTask, Remembers, Holding
<1>0. /\ run \in [Runs -> RunState] /\ run[r] \in RunState
      /\ run[r].told \in BOOLEAN /\ run[r].settled \in BOOLEAN
  BY DEF TypeOK, RunState
<1>1. CASE OpenOutputs(r)
  <2>1. run'[r] \in {Counted(run[r], Cardinality(OpenPulls)), Off}
    BY <1>0, <1>1 DEF OpenOutputs
  <2> QED
    BY <1>0, <1>1, <2>1, CountedFields, OffFields DEF OpenOutputs
<1>2. CASE InProgress(r)
  BY <1>0, <1>2, GotoFields DEF InProgress
<1>3. CASE NextReady(r)
  <2>1. CASE Goto(r, "off")
    BY <1>0, <1>3, <2>1, GotoFields, OffFields DEF NextReady
  <2>2. CASE ~Goto(r, "off")
    <3>1. PICK t \in Ready : run' = [run EXCEPT ![r] = Onto(@, t)]
      BY <1>0, <1>3, <2>2 DEF NextReady
    <3>2. t \in Tasks /\ run'[r] = Onto(run[r], t)
      BY <1>0, <3>1 DEF Ready, TypeOK
    <3> QED
      BY <1>0, <1>3, <3>2, OntoFields DEF NextReady
  <2> QED
    BY <2>1, <2>2
<1>4. CASE Get(r)
  BY <1>0, <1>4, GotoFields DEF Get
<1>5. CASE Claim(r)
  BY <1>0, <1>5, GotoFields DEF Claim
<1>6. CASE Pushed(r)
  BY <1>0, <1>6, GotoFields DEF Pushed
<1>7. CASE Prepare(r)
  <2>1. CASE Goto(r, "giveback")
    BY <1>0, <1>7, <2>1, GotoFields DEF Prepare
  <2>2. CASE ~Goto(r, "giveback")
    <3>1. run'[r] = Housed(run[r])
      BY <1>0, <1>7, <2>2 DEF Prepare
    <3> QED
      BY <1>0, <1>7, <3>1, HousedFields DEF Prepare
  <2> QED
    BY <2>1, <2>2
<1>8. CASE Implement(r)
  BY <1>0, <1>8, GotoFields DEF Implement
<1>9. CASE Check(r)
  <2>1. CASE Goto(r, "comment") \/ Goto(r, "release")
    BY <1>0, <1>9, <2>1, GotoFields DEF Check
  <2>2. CASE ~(Goto(r, "comment") \/ Goto(r, "release"))
    <3>1. run'[r] = Cleared(run[r], local[run[r].task])
      BY <1>0, <1>9, <2>2 DEF Check
    <3> QED
      BY <1>0, <1>9, <3>1, ClearedFields DEF Check
  <2> QED
    BY <2>1, <2>2
<1>10. CASE Push(r)
  BY <1>0, <1>10, GotoFields DEF Push
<1>11. CASE Lookup(r)
  <2>1. CASE Proposed(r)
    BY <1>0, <1>11, <2>1, ProposedFields DEF Lookup
  <2>2. CASE ~Proposed(r)
    BY <1>0, <1>11, <2>2, GotoFields DEF Lookup
  <2> QED
    BY <2>1, <2>2
<1>12. CASE Create(r)
  <2>1. CASE Proposed(r)
    BY <1>0, <1>12, <2>1, ProposedFields DEF Create
  <2>2. CASE ~Proposed(r)
    <3>1. Goto(r, "release")
      BY <1>0, <1>12, <2>2 DEF Create
    <3> QED
      BY <1>0, <1>12, <3>1, GotoFields DEF Create
  <2> QED
    BY <2>1, <2>2
<1>13. CASE Finish(r)
  BY <1>0, <1>13, GotoFields DEF Finish
<1>14. CASE Comment(r)
  <2>1. PICK o \in CleanupOutcomes : run' = [run EXCEPT ![r] = Told(@, o = "ok")]
    BY <1>0, <1>14 DEF Comment
  <2>2. run'[r] = Told(run[r], o = "ok")
    BY <1>0, <2>1
  <2> QED
    BY <1>0, <1>14, <2>2, ToldFields DEF Comment
<1>15. CASE Fail(r)
  <2>1. PICK o \in CleanupOutcomes : Leave(r, Settles(r, o))
    BY <1>0, <1>15 DEF Fail
  <2>2. /\ Settles(r, o) \in BOOLEAN
        /\ run[r].told => Settles(r, o)
    BY <1>0 DEF Settles
  <2> QED
    BY <1>0, <1>15, <2>1, <2>2, LeaveFields, OffFields DEF Fail
<1>16. CASE Release(r)
  <2>1. CASE run[r].settled
    <3>1. Goto(r, "off")
      BY <1>0, <1>16, <2>1 DEF Release
    <3> QED
      BY <1>0, <1>16, <2>1, <3>1, GotoFields, OffFields DEF Release
  <2>2. CASE ~run[r].settled
    <3>1. Goto(r, "giveback")
      BY <1>0, <1>16, <2>2 DEF Release
    <3> QED
      BY <1>0, <1>16, <2>2, <3>1, GotoFields DEF Release
  <2> QED
    BY <2>1, <2>2
<1>17. CASE GiveBack(r)
  BY <1>0, <1>17, GotoFields DEF GiveBack
<1> QED
  BY <1>1, <1>2, <1>3, <1>4, <1>5, <1>6, <1>7, <1>8, <1>9, <1>10, <1>11, <1>12,
    <1>13, <1>14, <1>15, <1>16, <1>17 DEF Step

\* The bookkeeping is only reached with the pull request there.
LEMMA StepOpened ==
  ASSUME TypeOK, NEW r \in Runs, KnowsTask(r), Step(r), run'[r].pc = "finish"
  PROVE  pr'[run'[r].task] # "none"
<1>0. /\ run \in [Runs -> RunState] /\ run[r] \in RunState
      /\ run[r].told \in BOOLEAN /\ run[r].settled \in BOOLEAN
  BY DEF TypeOK, RunState
<1>1. CASE OpenOutputs(r)
  <2>1. run'[r] \in {Counted(run[r], Cardinality(OpenPulls)), Off}
    BY <1>0, <1>1 DEF OpenOutputs
  <2> QED
    BY <1>0, <1>1, <2>1, CountedFields, OffFields DEF OpenOutputs
<1>2. CASE InProgress(r)
  BY <1>0, <1>2, GotoFields DEF InProgress
<1>3. CASE NextReady(r)
  <2>1. CASE Goto(r, "off")
    BY <1>0, <1>3, <2>1, GotoFields, OffFields DEF NextReady
  <2>2. CASE ~Goto(r, "off")
    <3>1. PICK t \in Ready : run' = [run EXCEPT ![r] = Onto(@, t)]
      BY <1>0, <1>3, <2>2 DEF NextReady
    <3>2. t \in Tasks /\ run'[r] = Onto(run[r], t)
      BY <1>0, <3>1 DEF Ready, TypeOK
    <3> QED
      BY <1>0, <1>3, <3>2, OntoFields DEF NextReady
  <2> QED
    BY <2>1, <2>2
<1>4. CASE Get(r)
  BY <1>0, <1>4, GotoFields DEF Get
<1>5. CASE Claim(r)
  BY <1>0, <1>5, GotoFields DEF Claim
<1>6. CASE Pushed(r)
  BY <1>0, <1>6, GotoFields DEF Pushed
<1>7. CASE Prepare(r)
  <2>1. CASE Goto(r, "giveback")
    BY <1>0, <1>7, <2>1, GotoFields DEF Prepare
  <2>2. CASE ~Goto(r, "giveback")
    <3>1. run'[r] = Housed(run[r])
      BY <1>0, <1>7, <2>2 DEF Prepare
    <3> QED
      BY <1>0, <1>7, <3>1, HousedFields DEF Prepare
  <2> QED
    BY <2>1, <2>2
<1>8. CASE Implement(r)
  BY <1>0, <1>8, GotoFields DEF Implement
<1>9. CASE Check(r)
  <2>1. CASE Goto(r, "comment") \/ Goto(r, "release")
    BY <1>0, <1>9, <2>1, GotoFields DEF Check
  <2>2. CASE ~(Goto(r, "comment") \/ Goto(r, "release"))
    <3>1. run'[r] = Cleared(run[r], local[run[r].task])
      BY <1>0, <1>9, <2>2 DEF Check
    <3> QED
      BY <1>0, <1>9, <3>1, ClearedFields DEF Check
  <2> QED
    BY <2>1, <2>2
<1>10. CASE Push(r)
  BY <1>0, <1>10, GotoFields DEF Push
<1>11. CASE Lookup(r)
  <2>1. run[r].task \in Tasks
    BY <1>11 DEF Lookup, KnowsTask, Holding
  <2>2. Proposed(r)
    BY <1>0, <1>11, GotoFields DEF Lookup
  <2>3. pr'[run[r].task] = "open"
    BY <1>0, <1>11, <2>1, <2>2, GotoFields, ProposedFields DEF Lookup, TypeOK
  <2> QED
    BY <1>0, <2>2, <2>3, ProposedFields
<1>12. CASE Create(r)
  <2>1. run[r].task \in Tasks
    BY <1>12 DEF Create, KnowsTask, Holding
  <2>2. Proposed(r)
    BY <1>0, <1>12, GotoFields DEF Create
  <2>3. pr'[run[r].task] = "open"
    BY <1>0, <1>12, <2>1, <2>2, GotoFields, ProposedFields DEF Create, TypeOK
  <2> QED
    BY <1>0, <2>2, <2>3, ProposedFields
<1>13. CASE Finish(r)
  BY <1>0, <1>13, GotoFields DEF Finish
<1>14. CASE Comment(r)
  <2>1. PICK o \in CleanupOutcomes : run' = [run EXCEPT ![r] = Told(@, o = "ok")]
    BY <1>0, <1>14 DEF Comment
  <2>2. run'[r] = Told(run[r], o = "ok")
    BY <1>0, <2>1
  <2> QED
    BY <1>0, <1>14, <2>2, ToldFields DEF Comment
<1>15. CASE Fail(r)
  <2>1. PICK o \in CleanupOutcomes : Leave(r, Settles(r, o))
    BY <1>0, <1>15 DEF Fail
  <2>2. /\ Settles(r, o) \in BOOLEAN
        /\ run[r].told => Settles(r, o)
    BY <1>0 DEF Settles
  <2> QED
    BY <1>0, <1>15, <2>1, <2>2, LeaveFields, OffFields DEF Fail
<1>16. CASE Release(r)
  <2>1. CASE run[r].settled
    <3>1. Goto(r, "off")
      BY <1>0, <1>16, <2>1 DEF Release
    <3> QED
      BY <1>0, <1>16, <2>1, <3>1, GotoFields, OffFields DEF Release
  <2>2. CASE ~run[r].settled
    <3>1. Goto(r, "giveback")
      BY <1>0, <1>16, <2>2 DEF Release
    <3> QED
      BY <1>0, <1>16, <2>2, <3>1, GotoFields DEF Release
  <2> QED
    BY <2>1, <2>2
<1>17. CASE GiveBack(r)
  BY <1>0, <1>17, GotoFields DEF GiveBack
<1> QED
  BY <1>1, <1>2, <1>3, <1>4, <1>5, <1>6, <1>7, <1>8, <1>9, <1>10, <1>11, <1>12,
    <1>13, <1>14, <1>15, <1>16, <1>17 DEF Step

\* Every step keeps what all the runs know and remember.
LEMMA NextRunInv == TypeOK /\ RunInv /\ Next => RunInv'
<1> SUFFICES ASSUME TypeOK, RunInv, Next, NEW s \in Runs
             PROVE  KnowsTask(s)' /\ Remembers(s)' /\ Opened(s)'
  BY DEF RunInv
<1>0. run \in [Runs -> RunState] /\ run[s] \in RunState
  BY DEF TypeOK
<1>1. KnowsTask(s) /\ Remembers(s) /\ Opened(s)
  BY DEF RunInv
<1>2. ASSUME run'[s].pc = run[s].pc, run'[s].task = run[s].task,
             run'[s].told = run[s].told, run'[s].settled = run[s].settled
      PROVE  KnowsTask(s)' /\ Remembers(s)' /\ Opened(s)'
  <2>1. run[s].pc = "finish" => pr'[run[s].task] # "none"
    BY <1>1, OpenedStays DEF KnowsTask, Opened, Holding
  <2> QED
    BY <1>1, <1>2, <2>1 DEF KnowsTask, Remembers, Opened
<1>3. ASSUME NEW r \in Runs, Step(r)
      PROVE  KnowsTask(s)' /\ Remembers(s)' /\ Opened(s)'
  <2>1. CASE s = r
    BY <1>1, <1>3, <2>1, StepOwn, StepOpened DEF Opened
  <2>2. CASE s # r
    BY <1>2, <1>3, <2>2, OthersKeep
  <2> QED
    BY <2>1, <2>2
<1>4. ASSUME NEW r \in Runs, Stop(r)
      PROVE  KnowsTask(s)' /\ Remembers(s)' /\ Opened(s)'
  <2>1. CASE s # r
    BY <1>2, <1>4, <2>1, OthersKeep
  <2>2. CASE s = r
    <3>1. run'[s] = Stopped(run[s])
      BY <1>0, <1>4, <2>2 DEF Stop
    <3> QED
      BY <1>0, <1>2, <3>1, StoppedFields
  <2> QED
    BY <2>1, <2>2
<1>5. ASSUME NEW r \in Runs, Kill(r)
      PROVE  KnowsTask(s)' /\ Remembers(s)' /\ Opened(s)'
  <2>1. CASE s # r
    BY <1>2, <1>5, <2>1, OthersKeep
  <2>2. CASE s = r
    <3>1. run'[s] = Off
      BY <1>0, <1>5, <2>2 DEF Kill, Goto
    <3> QED
      BY <3>1, OffFields DEF KnowsTask, Remembers, Opened, Holding
  <2> QED
    BY <2>1, <2>2
<1>6. ASSUME NEW r \in Runs, NEW want \in Named \cup {NoTask}, Start(r, want)
      PROVE  KnowsTask(s)' /\ Remembers(s)' /\ Opened(s)'
  <2>1. CASE s # r
    BY <1>2, <1>6, <2>1, OthersKeep
  <2>2. CASE s = r
    <3>1. PICK first \in {"get", "outputs", "next"} :
            /\ first = "get" <=> want # NoTask
            /\ run'[s] = First(first, want)
      BY <1>0, <1>6, <2>2 DEF Start
    <3> QED
      BY <3>1, OffFields, EngineAssumption DEF KnowsTask, Remembers, Opened, Holding
  <2> QED
    BY <2>1, <2>2
<1>7. ASSUME NEW t \in Tasks, Person(t)
      PROVE  KnowsTask(s)' /\ Remembers(s)' /\ Opened(s)'
  <2>1. UNCHANGED run
    BY <1>7 DEF Person, Merge, Close, Reopen, Retry, Unclaim, Delete
  <2> QED
    BY <1>2, <2>1
<1> QED
  BY <1>3, <1>4, <1>5, <1>6, <1>7 DEF Next

-----------------------------------------------------------------------------
(***************************************************************************)
(* Labels and claims.                                                      *)
(***************************************************************************)
\* A label edit reaches one task, and only when it landed.
LEMMA RelabelFacts ==
  ASSUME labels \in [Tasks -> SUBSET Labels], NEW r, NEW o, NEW added, NEW removed,
         Relabel(r, o, added, removed), NEW t \in Tasks, NEW l, l \in labels'[t]
  PROVE  \/ t = run[r].task /\ Landed(o) /\ l \in added
         \/ l \in labels[t] /\ (t = run[r].task /\ Landed(o) => l \notin removed)
BY DEF Relabel

\* A step of a run never takes a task out of the history.
LEMMA LapseGrows == \A r, wrong : Lapse(r, wrong) => lapse \subseteq lapse'
BY DEF Lapse

\* A run's step never drops a claim it answers for without a label edit.
LEMMA StepOwes ==
  ASSUME TypeOK, NEW r \in Runs, Remembers(r), Step(r),
         NEW t \in Tasks, "in-progress" \in labels'[t], t \notin lapse'
  PROVE  /\ t \notin lapse
         /\ "in-progress" \in labels[t] \/ Owes(r, t)'
         /\ Owes(r, t) => Owes(r, t)'
<1> USE DEF Owes, Holds, Holding, Remembers
<1>0. /\ run \in [Runs -> RunState] /\ run[r] \in RunState
      /\ run[r].told \in BOOLEAN /\ run[r].settled \in BOOLEAN
      /\ labels \in [Tasks -> SUBSET Labels]
  BY DEF TypeOK, RunState
<1>1. CASE OpenOutputs(r)
  BY <1>1 DEF OpenOutputs
<1>2. CASE InProgress(r)
  BY <1>2 DEF InProgress
<1>3. CASE NextReady(r)
  BY <1>3 DEF NextReady
<1>4. CASE Get(r)
  BY <1>4 DEF Get
<1>5. CASE Claim(r)
  <2>1. PICK o \in Outcomes(r) :
          /\ Relabel(r, o, {"in-progress"}, {})
          /\ Lapse(r, o = "lost")
          /\ Goto(r, IF o = "ok" THEN "pushed" ELSE "off")
    BY <1>5 DEF Claim
  <2>2. o \in {"ok", "refused", "lost"}
    BY <2>1, EngineAssumption DEF Outcomes, CallFaults, FaultKinds
  <2>3. t \notin lapse /\ (o = "lost" => t # run[r].task)
    BY <2>1 DEF Lapse
  <2>4. CASE o = "ok"
    <3>1. run'[r].pc = "pushed" /\ run'[r].task = run[r].task
      BY <1>0, <2>1, <2>4, GotoFields
    <3> QED
      BY <1>0, <1>5, <2>1, <2>3, <3>1, RelabelFacts DEF Claim
  <2>5. CASE o # "ok"
    BY <1>0, <1>5, <2>1, <2>2, <2>3, <2>5, RelabelFacts DEF Claim, Landed
  <2> QED
    BY <2>4, <2>5
<1>6. CASE Pushed(r)
  BY <1>0, <1>6, GotoFields DEF Pushed
<1>7. CASE Prepare(r)
  <2>1. CASE Goto(r, "giveback")
    BY <1>0, <1>7, <2>1, GotoFields DEF Prepare
  <2>2. CASE ~Goto(r, "giveback")
    <3>1. run'[r] = Housed(run[r])
      BY <1>0, <1>7, <2>2 DEF Prepare
    <3> QED
      BY <1>0, <1>7, <3>1, HousedFields DEF Prepare
  <2> QED
    BY <2>1, <2>2
<1>8. CASE Implement(r)
  BY <1>0, <1>8, GotoFields DEF Implement
<1>9. CASE Check(r)
  <2>1. CASE Goto(r, "comment") \/ Goto(r, "release")
    BY <1>0, <1>9, <2>1, GotoFields DEF Check
  <2>2. CASE ~(Goto(r, "comment") \/ Goto(r, "release"))
    <3>1. run'[r] = Cleared(run[r], local[run[r].task])
      BY <1>0, <1>9, <2>2 DEF Check
    <3> QED
      BY <1>0, <1>9, <3>1, ClearedFields DEF Check
  <2> QED
    BY <2>1, <2>2
<1>10. CASE Push(r)
  BY <1>0, <1>10, GotoFields DEF Push
<1>11. CASE Lookup(r)
  <2>1. CASE Proposed(r)
    BY <1>0, <1>11, <2>1, ProposedFields DEF Lookup
  <2>2. CASE ~Proposed(r)
    BY <1>0, <1>11, <2>2, GotoFields DEF Lookup
  <2> QED
    BY <2>1, <2>2
<1>12. CASE Create(r)
  <2>1. CASE Proposed(r)
    BY <1>0, <1>12, <2>1, ProposedFields DEF Create
  <2>2. CASE ~Proposed(r)
    <3>1. Goto(r, "release")
      BY <1>0, <1>12, <2>2 DEF Create
    <3> QED
      BY <1>0, <1>12, <3>1, GotoFields DEF Create
  <2> QED
    BY <2>1, <2>2
<1>13. CASE Finish(r)
  <2>1. PICK o \in Outcomes(r) :
          /\ Relabel(r, o, {"done"}, {"in-progress"})
          /\ Lapse(r, ~Landed(o))
    BY <1>13 DEF Finish
  <2>2. t # run[r].task /\ t \notin lapse /\ "in-progress" \in labels[t]
    BY <1>0, <2>1, RelabelFacts DEF Lapse
  <2> QED
    BY <2>2
<1>14. CASE Comment(r)
  <2>1. PICK o \in CleanupOutcomes : run' = [run EXCEPT ![r] = Told(@, o = "ok")]
    BY <1>0, <1>14 DEF Comment
  <2>2. run'[r] = Told(run[r], o = "ok")
    BY <1>0, <2>1
  <2> QED
    BY <1>0, <1>14, <2>2, ToldFields DEF Comment
<1>15. CASE Fail(r)
  <2>1. PICK o \in CleanupOutcomes :
          /\ Relabel(r, o, {"failed"}, {"in-progress"})
          /\ Lapse(r, Settles(r, o) /\ ~Landed(o))
          /\ Leave(r, Settles(r, o))
    BY <1>15 DEF Fail
  <2>2. Settles(r, o) \in BOOLEAN
    BY <1>0 DEF Settles
  <2>3. t \notin lapse /\ "in-progress" \in labels[t]
    BY <1>0, <2>1, RelabelFacts DEF Lapse
  <2>4. t = run[r].task => ~Landed(o) /\ ~Settles(r, o)
    BY <1>0, <2>1, RelabelFacts DEF Lapse
  <2>5. CASE t = run[r].task
    BY <1>0, <1>15, <2>1, <2>2, <2>3, <2>4, <2>5, LeaveFields DEF Fail
  <2>6. CASE t # run[r].task
    BY <2>3, <2>6
  <2> QED
    BY <2>5, <2>6
<1>16. CASE Release(r)
  <2>1. CASE run[r].settled
    BY <1>0, <1>16, <2>1 DEF Release
  <2>2. CASE ~run[r].settled
    <3>1. Goto(r, "giveback")
      BY <1>0, <1>16, <2>2 DEF Release
    <3> QED
      BY <1>0, <1>16, <2>2, <3>1, GotoFields DEF Release
  <2> QED
    BY <2>1, <2>2
<1>17. CASE GiveBack(r)
  <2>1. PICK o \in CleanupOutcomes :
          /\ Relabel(r, o, {}, {"in-progress"})
          /\ Lapse(r, ~Landed(o))
    BY <1>17 DEF GiveBack
  <2>2. t # run[r].task /\ t \notin lapse /\ "in-progress" \in labels[t]
    BY <1>0, <2>1, RelabelFacts DEF Lapse
  <2> QED
    BY <2>2
<1> QED
  BY <1>1, <1>2, <1>3, <1>4, <1>5, <1>6, <1>7, <1>8, <1>9, <1>10, <1>11, <1>12,
    <1>13, <1>14, <1>15, <1>16, <1>17 DEF Step

\* Every step keeps a run, or the history, behind each in-progress label.
LEMMA NextOwed == TypeOK /\ RunInv /\ Owed /\ Next => Owed'
<1> SUFFICES ASSUME TypeOK, RunInv, Owed, Next, NEW t \in Tasks,
                    "in-progress" \in labels'[t], t \notin lapse'
             PROVE  \E s \in Runs : Owes(s, t)'
  BY DEF Owed
<1>0. run \in [Runs -> RunState] /\ labels \in [Tasks -> SUBSET Labels]
  BY DEF TypeOK
<1>1. ASSUME NEW r \in Runs, Step(r) PROVE \E s \in Runs : Owes(s, t)'
  <2>1. /\ t \notin lapse
        /\ "in-progress" \in labels[t] \/ Owes(r, t)'
        /\ Owes(r, t) => Owes(r, t)'
    BY <1>1, StepOwes DEF RunInv
  <2>2. CASE Owes(r, t)'
    BY <2>2
  <2>3. CASE ~Owes(r, t)'
    <3>1. PICK s \in Runs : Owes(s, t)
      BY <2>1, <2>3 DEF Owed
    <3>2. run'[s] = run[s]
      BY <1>1, <2>1, <2>3, <3>1, OthersKeep
    <3> QED
      BY <3>1, <3>2 DEF Owes, Holds
  <2> QED
    BY <2>2, <2>3
<1>2. ASSUME NEW r \in Runs, Stop(r) PROVE \E s \in Runs : Owes(s, t)'
  <2>1. PICK s \in Runs : Owes(s, t)
    BY <1>2 DEF Stop, Owed
  <2>2. CASE s # r
    BY <1>2, <2>1, <2>2, OthersKeep DEF Owes, Holds
  <2>3. CASE s = r
    <3>1. run'[s] = Stopped(run[s]) /\ run[s] \in RunState
      BY <1>0, <1>2, <2>3 DEF Stop
    <3> QED
      BY <2>1, <3>1, StoppedFields DEF Owes, Holds
  <2> QED
    BY <2>2, <2>3
<1>3. ASSUME NEW r \in Runs, Kill(r) PROVE \E s \in Runs : Owes(s, t)'
  <2>1. t \notin lapse /\ ~Holds(r, t)
    BY <1>3 DEF Kill, Lapse, Holds
  <2>2. PICK s \in Runs : Owes(s, t)
    BY <1>3, <2>1 DEF Kill, Owed
  <2>3. run'[s] = run[s]
    BY <1>3, <2>1, <2>2, OthersKeep DEF Owes
  <2> QED
    BY <2>2, <2>3 DEF Owes, Holds
<1>4. ASSUME NEW r \in Runs, NEW want \in Named \cup {NoTask}, Start(r, want)
      PROVE  \E s \in Runs : Owes(s, t)'
  <2>1. PICK s \in Runs : Owes(s, t)
    BY <1>4 DEF Start, Owed
  <2>2. run'[s] = run[s]
    BY <1>4, <2>1, OthersKeep DEF Start, Owes, Holds, Holding
  <2> QED
    BY <2>1, <2>2 DEF Owes, Holds
<1>5. ASSUME NEW u \in Tasks, Person(u) PROVE \E s \in Runs : Owes(s, t)'
  <2>1. UNCHANGED run /\ "in-progress" \in labels[t] /\ t \notin lapse
    BY <1>0, <1>5 DEF Person, Merge, Close, Reopen, Retry, Unclaim, Delete
  <2> QED
    BY <2>1 DEF Owed, Owes, Holds
<1> QED
  BY <1>1, <1>2, <1>3, <1>4, <1>5 DEF Next

\* Only the bookkeeping puts the done label on.
LEMMA NextDone ==
  TypeOK /\ RunInv /\ DoneMeansProposed /\ Next => DoneMeansProposed'
<1> SUFFICES ASSUME TypeOK, RunInv, DoneMeansProposed, Next, NEW t \in Tasks,
                    "done" \in labels'[t]
             PROVE  pr'[t] # "none"
  BY DEF DoneMeansProposed
<1>0. labels \in [Tasks -> SUBSET Labels]
  BY DEF TypeOK
<1>1. CASE "done" \in labels[t]
  BY <1>1, OpenedStays DEF DoneMeansProposed
<1>2. ASSUME "done" \notin labels[t], NEW r \in Runs, Step(r) PROVE pr'[t] # "none"
  <2>1. CASE Finish(r)
    <3>1. t = run[r].task
      BY <1>0, <1>2, <2>1, RelabelFacts DEF Finish
    <3>2. pr[t] # "none"
      BY <2>1, <3>1 DEF Finish, RunInv, Opened
    <3> QED
      BY <3>2, OpenedStays
  <2>2. CASE Claim(r) \/ Fail(r) \/ GiveBack(r)
    BY <1>0, <1>2, <2>2, RelabelFacts DEF Claim, Fail, GiveBack
  <2>3. CASE UNCHANGED labels
    BY <1>2, <2>3
  <2> QED
    BY <1>2, <2>1, <2>2, <2>3 DEF Step, OpenOutputs, InProgress, NextReady, Get, Pushed,
      Prepare, Implement, Check, Push, Lookup, Create, Comment, Release
<1>3. ASSUME "done" \notin labels[t], NEW r \in Runs,
             \/ Stop(r) \/ Kill(r)
             \/ \E want \in Named \cup {NoTask} : Start(r, want)
      PROVE  FALSE
  BY <1>3 DEF Stop, Kill, Start
<1>4. ASSUME "done" \notin labels[t], NEW u \in Tasks, Person(u) PROVE FALSE
  BY <1>0, <1>4 DEF Person, Merge, Close, Reopen, Retry, Unclaim, Delete
<1> QED
  BY <1>1, <1>2, <1>3, <1>4 DEF Next
-----------------------------------------------------------------------------
(***************************************************************************)
(* The inductive invariant, and what follows from it.                      *)
(***************************************************************************)
\* The inductive invariant holds at the start and is kept by every step.
LEMMA InitIInv == Init => IInv
<1> SUFFICES ASSUME Init PROVE IInv
  OBVIOUS
<1>1. TypeOK
  BY InitTyped
<1>2. \A r \in Runs : run[r].pc = "off" /\ run[r].told = FALSE /\ run[r].settled = FALSE
  BY OffFields DEF Init
<1>3. RunInv
  BY <1>2 DEF RunInv, KnowsTask, Remembers, Opened, Holding
<1>4. DoneMeansProposed /\ Owed
  BY DEF Init, DoneMeansProposed, Owed
<1> QED
  BY <1>1, <1>3, <1>4 DEF IInv

\* Every step keeps the inductive invariant.
LEMMA NextIInv == IInv /\ [Next]_vars => IInv'
<1> SUFFICES ASSUME IInv, [Next]_vars PROVE IInv'
  OBVIOUS
<1>1. CASE Next
  BY <1>1, NextTyped, NextRunInv, NextDone, NextOwed DEF IInv
<1>2. CASE UNCHANGED vars
  BY <1>2 DEF vars, IInv, TypeOK, RunInv, KnowsTask, Remembers, Opened,
    DoneMeansProposed, Owed, Owes, Holds
<1> QED
  BY <1>1, <1>2

\* The strengthening of the invariants below holds in every state of every run.
THEOREM Invariance == Spec => []IInv
BY InitIInv, NextIInv, PTL DEF Spec

\* The state keeps to its types.
THEOREM TypeCorrect == Spec => []TypeOK
<1>1. IInv => TypeOK
  BY DEF IInv
<1> QED
  BY <1>1, Invariance, PTL

\* No task is marked done whose pull request was never opened, whatever number of
\* runs work on it, stop, die or have their calls fail (output.go, Open).
THEOREM DoneHasAPullRequest == Spec => []DoneMeansProposed
<1>1. IInv => DoneMeansProposed
  BY DEF IInv
<1> QED
  BY <1>1, Invariance, PTL

\* No path out of a run, other than a failed label edit or a kill, leaves a task
\* claimed (engine.go, Run, reportProblem and releaseClaim).
THEOREM EveryClaimIsAccountedFor == Spec => []ClaimAccounted
<1>1. IInv => ClaimAccounted
  BY DEF IInv, Owed, Owes, ClaimAccounted
<1> QED
  BY <1>1, Invariance, PTL

\* A run never gives back a task it told anything, or proposed (engine.go, Run).
THEOREM AnsweredStaysOutOfTheQueue == Spec => []HeardMeansNotRequeued
<1>1. IInv => HeardMeansNotRequeued
  BY DEF IInv, RunInv, Remembers, HeardMeansNotRequeued
<1> QED
  BY <1>1, Invariance, PTL
-----------------------------------------------------------------------------
(***************************************************************************)
(* What a run does with a task that it has to itself.                      *)
(***************************************************************************)
\* Of a task that was not shared, a run that has it is the only one; what it works on is a
\* branch that the remote does not have, and then its own commits; and what it is about to
\* push is what was cleared.
Own(r, t) ==
  t \notin shared /\ Holds(r, t) =>
    /\ \A q \in Runs : Holds(q, t) => q = r
    /\ run[r].pc \in {"prepare", "implement", "check", "push"} => remote[t] = NoBranch
    /\ run[r].pc \in {"implement", "check", "push"} => ToSet(local[t]) \subseteq {r}
    /\ run[r].pc = "push" => local[t] # <<>> /\ run[r].cleared = local[t]

OwnInv == \A r \in Runs, t \in Tasks : Own(r, t)

\* A step changes the branch of a task only if the run has the task, and is not new to it; and
\* what was shared only when it claims one.
LEMMA StepReach ==
  ASSUME TypeOK, NEW r \in Runs, Step(r)
  PROVE  /\ \A t \in Tasks : ~Holds(r, t) => local'[t] = local[t] /\ remote'[t] = remote[t]
         /\ Claim(r) => /\ UNCHANGED <<local, remote>>
                        /\ Meets(r) \/ (UNCHANGED shared /\ Goto(r, "off"))
         /\ ~Claim(r) => UNCHANGED shared
<1> USE DEF TypeOK
<1>1. CASE Prepare(r) \/ Implement(r) \/ Push(r)
  BY <1>1 DEF Prepare, Implement, Push, Holds, Holding, Claim
<1>2. CASE Claim(r)
  BY <1>2 DEF Claim
<1>3. CASE OpenOutputs(r) \/ InProgress(r) \/ NextReady(r) \/ Get(r) \/ Pushed(r) \/ Check(r)
             \/ Lookup(r) \/ Create(r)
  BY <1>3 DEF OpenOutputs, InProgress, NextReady, Get, Pushed, Check, Lookup, Create, Claim
<1>4. CASE Finish(r) \/ Comment(r) \/ Fail(r) \/ Release(r) \/ GiveBack(r)
  BY <1>4 DEF Finish, Comment, Fail, Release, GiveBack, Claim
<1> QED
  BY <1>1, <1>2, <1>3, <1>4 DEF Step

\* A run that claimed its task goes on with that one; any other step that leaves it with a
\* task finds it with that task.
LEMMA StepHolds ==
  ASSUME TypeOK, NEW r \in Runs, KnowsTask(r), Step(r), NEW t \in Tasks, Holds(r, t)'
  PROVE  /\ run[r].task = t
         /\ Claim(r) => Meets(r) /\ run'[r].pc = "pushed"
         /\ ~Claim(r) => Holds(r, t)
<1>0. run \in [Runs -> RunState] /\ run[r] \in RunState /\ t # NoTask
  BY EngineAssumption DEF TypeOK, NoTask
<1>1. ASSUME NEW p, Goto(r, p) PROVE p # "off" /\ run'[r].pc = p /\ run[r].task = t
  BY <1>0, <1>1, GotoFields, OffFields DEF Holds, Holding
<1>2. CASE Claim(r)
  <2>1. \/ Goto(r, "pushed") /\ Meets(r)
        \/ Goto(r, "off")
    BY <1>2 DEF Claim
  <2> QED
    BY <1>1, <1>2, <2>1
<1>3. CASE OpenOutputs(r)
  BY <1>0, <1>3, CountedFields, OffFields DEF OpenOutputs, Holds, Holding
<1>4. CASE NextReady(r)
  BY <1>0, <1>1, <1>4, OntoFields DEF NextReady, Holds, Holding
<1>5. CASE InProgress(r) \/ Get(r)
  BY <1>1, <1>5 DEF InProgress, Get, Holds, Holding
<1>6. CASE /\ run[r].pc \in Holding \ {"claim"}
           /\ run'[r].task = run[r].task \/ run'[r] = Off
  BY <1>0, <1>6, OffFields DEF Holds, Holding, Claim
<1>7. CASE Pushed(r) \/ Implement(r) \/ Push(r) \/ Finish(r) \/ Release(r) \/ GiveBack(r)
  BY <1>1, <1>7 DEF Pushed, Implement, Push, Finish, Release, GiveBack, Holds, Holding, Claim
<1>8. CASE Prepare(r)
  <2>1. run[r].pc = "prepare"
    BY <1>8 DEF Prepare
  <2>2. Goto(r, "giveback") \/ run' = [run EXCEPT ![r] = Housed(@)]
    BY <1>8 DEF Prepare
  <2>3. run[r].task = t
    BY <1>0, <1>1, <2>2, HousedFields DEF Holds
  <2> QED
    BY <2>1, <2>3 DEF Holds, Holding, Claim
<1>9. CASE Check(r)
  <2>1. run[r].pc = "check"
    BY <1>9 DEF Check
  <2>2. \/ Goto(r, "comment") \/ Goto(r, "release")
        \/ /\ run[r].task \in Tasks
           /\ run' = [run EXCEPT ![r] = Cleared(@, local[run[r].task])]
    BY <1>9, <2>1 DEF Check, KnowsTask, Holding
  <2>3. run[r].task = t
    <3>1. CASE run[r].task \in Tasks /\ run' = [run EXCEPT ![r] = Cleared(@, local[run[r].task])]
      <4>1. local[run[r].task] \in Branches
        BY <3>1 DEF TypeOK
      <4> QED
        BY <1>0, <3>1, <4>1, ClearedFields DEF Holds
    <3> QED
      BY <1>1, <2>2, <3>1
  <2> QED
    BY <2>1, <2>3 DEF Holds, Holding, Claim
<1>10. CASE Lookup(r) \/ Create(r)
  BY <1>0, <1>1, <1>6, <1>10, ProposedFields, GotoFields DEF Lookup, Create, Holding
<1>11. CASE Comment(r)
  BY <1>0, <1>6, <1>11, ToldFields DEF Comment, Holding
<1>12. CASE Fail(r)
  BY <1>0, <1>6, <1>12, LeavingFields, AtFields DEF Fail, Leave, Holding
<1> QED
  BY <1>2, <1>3, <1>4, <1>5, <1>7, <1>8, <1>9, <1>10, <1>11, <1>12 DEF Step

\* A step leaves the run that makes it with its own work, if it had.
LEMMA OwnStep ==
  ASSUME TypeOK, RunInv, OwnInv, NEW r \in Runs, Step(r), NEW t \in Tasks,
         t \notin shared', Holds(r, t)'
  PROVE  /\ run'[r].pc \in {"prepare", "implement", "check", "push"} => remote'[t] = NoBranch
         /\ run'[r].pc \in {"implement", "check", "push"} => ToSet(local'[t]) \subseteq {r}
         /\ run'[r].pc = "push" => local'[t] # <<>> /\ run'[r].cleared = local'[t]
<1>0. /\ run \in [Runs -> RunState] /\ run[r] \in RunState /\ KnowsTask(r)
      /\ local \in [Tasks -> Branches]
  BY DEF TypeOK, RunInv
<1>1. /\ run[r].task = t
      /\ Claim(r) => run'[r].pc = "pushed"
      /\ ~Claim(r) => Own(r, t) /\ t \notin shared /\ Holds(r, t)
  BY <1>0, StepHolds, StepReach DEF OwnInv
<1>2. CASE Claim(r)
  BY <1>1, <1>2
<1>3. CASE Pushed(r)
  <2>1. ~Claim(r)
    BY <1>3 DEF Pushed, Claim
  <2> QED
    BY <1>0, <1>1, <1>3, <2>1, GotoFields DEF Pushed
<1>4. CASE Prepare(r)
  <2>1. remote[t] = NoBranch /\ UNCHANGED remote
    BY <1>1, <1>4 DEF Prepare, Claim, Own
  <2>2. CASE Goto(r, "giveback")
    BY <1>0, <2>2, GotoFields
  <2>3. CASE local' = [local EXCEPT ![t] = <<>>] /\ run' = [run EXCEPT ![r] = Housed(@)]
    <3>1. local'[t] = <<>> /\ run'[r].pc = "implement"
      BY <1>0, <2>3, HousedFields
    <3> QED
      BY <2>1, <3>1 DEF ToSet
  <2> QED
    BY <1>1, <1>4, <2>2, <2>3 DEF Prepare
<1>5. CASE Implement(r)
  <2>1. remote[t] = NoBranch /\ UNCHANGED remote /\ ToSet(local[t]) \subseteq {r}
    BY <1>1, <1>5 DEF Implement, Claim, Own
  <2>2. PICK p \in {"check", "comment", "release"} : Goto(r, p)
    BY <1>5 DEF Implement
  <2>3. run'[r].pc # "push"
    BY <1>0, <2>2, GotoFields
  <2>4. local'[t] = local[t] \/ local'[t] = Append(local[t], r)
    BY <1>0, <1>1, <1>5 DEF Implement
  <2>5. local[t] \in Seq(Runs)
    BY <1>0 DEF Branches
  <2>6. ToSet(Append(local[t], r)) \subseteq {r}
    <3>1. \A i \in 1 .. Len(local[t]) : local[t][i] = r
      BY <2>1, <2>5 DEF ToSet
    <3>2. /\ DOMAIN Append(local[t], r) = 1 .. Len(local[t]) + 1
          /\ \A i \in 1 .. Len(local[t]) + 1 :
               Append(local[t], r)[i] = IF i <= Len(local[t]) THEN local[t][i] ELSE r
      BY <2>5
    <3> QED
      BY <2>5, <3>1, <3>2 DEF ToSet
  <2> QED
    BY <2>1, <2>3, <2>4, <2>6
<1>6. CASE Check(r)
  <2>1. /\ remote[t] = NoBranch /\ UNCHANGED <<remote, local>>
        /\ ToSet(local[t]) \subseteq {r}
    BY <1>1, <1>6 DEF Check, Claim, Own
  <2>2. CASE Goto(r, "comment") \/ Goto(r, "release")
    BY <1>0, <2>2, GotoFields
  <2>3. CASE local[t] # <<>> /\ run' = [run EXCEPT ![r] = Cleared(@, local[t])]
    <3>1. run'[r].cleared = local[t]
      BY <1>0, <2>3 DEF Cleared, RunState
    <3> QED
      BY <2>1, <2>3, <3>1
  <2> QED
    BY <1>1, <1>6, <2>2, <2>3 DEF Check
<1>7. CASE OpenOutputs(r) \/ InProgress(r) \/ NextReady(r) \/ Get(r)
  <2>1. ~Claim(r) /\ ~Holds(r, t)
    BY <1>7 DEF OpenOutputs, InProgress, NextReady, Get, Claim, Holds, Holding
  <2> QED
    BY <1>1, <2>1
<1>8. ASSUME NEW p \in {"lookup", "create", "release", "giveback", "off"}, Goto(r, p)
      PROVE  run'[r].pc \notin {"prepare", "implement", "check", "push"}
  BY <1>0, <1>8, GotoFields
<1>9. CASE Push(r) \/ Finish(r) \/ Release(r) \/ GiveBack(r)
  <2>1. PICK p \in {"lookup", "create", "release", "giveback", "off"} : Goto(r, p)
    BY <1>9 DEF Push, Finish, Release, GiveBack
  <2> QED
    BY <1>8, <2>1
<1>10. CASE Lookup(r) \/ Create(r)
  <2>1. Proposed(r) \/ \E p \in {"create", "release"} : Goto(r, p)
    BY <1>10 DEF Lookup, Create
  <2> QED
    BY <1>0, <1>8, <2>1, ProposedFields
<1>11. CASE Comment(r)
  BY <1>0, <1>11, ToldFields DEF Comment
<1>12. CASE Fail(r)
  <2>1. run'[r].pc \in {"release", "off", "giveback"}
    BY <1>0, <1>12, LeavingFields, AtFields, OffFields DEF Fail, Leave
  <2> QED
    BY <2>1
<1> QED
  BY <1>2, <1>3, <1>4, <1>5, <1>6, <1>7, <1>9, <1>10, <1>11, <1>12 DEF Step

\* A step leaves the other runs with theirs, and makes no two runs of a task that is not shared.
LEMMA OwnOthers ==
  ASSUME TypeOK, RunInv, OwnInv, NEW p \in Runs, Step(p)
  PROVE  OwnInv'
<1> SUFFICES ASSUME NEW r \in Runs, NEW t \in Tasks, t \notin shared', Holds(r, t)'
             PROVE  /\ \A q \in Runs : Holds(q, t)' => q = r
                    /\ run'[r].pc \in {"prepare", "implement", "check", "push"} =>
                         remote'[t] = NoBranch
                    /\ run'[r].pc \in {"implement", "check", "push"} =>
                         ToSet(local'[t]) \subseteq {r}
                    /\ run'[r].pc = "push" => local'[t] # <<>> /\ run'[r].cleared = local'[t]
  BY DEF OwnInv, Own
<1>0. KnowsTask(p) /\ \A s \in Runs \ {p} : run'[s] = run[s]
  BY OthersKeep DEF RunInv
<1>1. \A s \in Runs \ {p} : Holds(s, t)' <=> Holds(s, t)
  BY <1>0 DEF Holds
\* Nobody else has a task that is claimed and not shared.
<1>2. ASSUME Claim(p), Holds(p, t)' PROVE \A q \in Runs \ {p} : ~Holds(q, t)
  BY <1>0, <1>2, StepHolds DEF Meets
<1>3. ASSUME NEW q \in Runs, Holds(q, t)', q # r PROVE FALSE
  <2>1. CASE Claim(p) /\ (q = p \/ r = p)
    BY <1>1, <1>2, <1>3, <2>1
  <2>2. CASE Claim(p) /\ q # p /\ r # p
    <3>1. Holds(q, t) /\ Holds(r, t)
      BY <1>1, <1>3, <2>2
    <3>2. t \notin shared
      BY <2>2, <3>1, StepReach DEF Meets, Holds
    <3> QED
      BY <1>3, <3>1, <3>2 DEF OwnInv, Own
  <2>3. CASE ~Claim(p)
    <3>1. Holds(q, t) /\ Holds(r, t) /\ t \notin shared
      BY <1>0, <1>1, <1>3, <2>3, StepHolds, StepReach
    <3> QED
      BY <1>3, <3>1 DEF OwnInv, Own
  <2> QED
    BY <2>1, <2>2, <2>3
<1>4. CASE r = p
  BY <1>3, <1>4, OwnStep
<1>5. CASE r # p
  <2>1. Holds(r, t) /\ run'[r] = run[r]
    BY <1>0, <1>1, <1>5
  <2>2. t \notin shared
    BY <1>5, <2>1, StepReach DEF Meets
  <2>3. ~Holds(p, t)
    BY <1>5, <2>1, <2>2 DEF OwnInv, Own
  <2>4. local'[t] = local[t] /\ remote'[t] = remote[t]
    BY <2>3, StepReach
  <2> QED
    BY <1>3, <2>1, <2>2, <2>4 DEF OwnInv, Own
<1> QED
  BY <1>4, <1>5

\* Neither a stop, a kill nor a start gives a run a task, or changes a branch.
LEMMA OwnOutside ==
  ASSUME TypeOK, OwnInv, NEW p \in Runs,
         Stop(p) \/ Kill(p) \/ \E want \in Named \cup {NoTask} : Start(p, want)
  PROVE  OwnInv'
<1>0. /\ run \in [Runs -> RunState] /\ run[p] \in RunState
      /\ \A s \in Runs \ {p} : run'[s] = run[s]
  BY OthersKeep DEF TypeOK
<1>1. UNCHANGED <<local, remote, shared>>
  BY DEF Stop, Kill, Start
<1>2. CASE Stop(p)
  <2>1. run'[p] = Stopped(run[p])
    BY <1>0, <1>2 DEF Stop
  <2>2. run'[p].pc = run[p].pc /\ run'[p].task = run[p].task /\ run'[p].cleared = run[p].cleared
    BY <1>0, <2>1 DEF Stopped, RunState
  <2>3. \A s \in Runs : /\ run'[s].pc = run[s].pc /\ run'[s].task = run[s].task
                        /\ run'[s].cleared = run[s].cleared
    BY <1>0, <2>2
  <2> QED
    BY <1>1, <2>3 DEF OwnInv, Own, Holds
<1>3. CASE ~Stop(p)
  <2>1. run'[p].pc \notin Holding
    <3>1. CASE Kill(p)
      BY <1>0, <3>1, GotoFields DEF Kill, Holding
    <3>2. CASE \E want \in Named \cup {NoTask} : Start(p, want)
      BY <1>0, <3>2, OffFields DEF Start, Holding
    <3> QED
      BY <1>3, <3>1, <3>2
  <2> QED
    BY <1>0, <1>1, <2>1 DEF OwnInv, Own, Holds
<1> QED
  BY <1>2, <1>3

\* The inductive invariant of runs that have their tasks to themselves.
LEMMA OwnWork == Spec => []OwnInv
<1>1. Init => OwnInv
  BY OffFields DEF Init, OwnInv, Own, Holds, Holding
<1>2. IInv /\ OwnInv /\ [Next]_vars => OwnInv'
  <2> SUFFICES ASSUME IInv, OwnInv, [Next]_vars PROVE OwnInv'
    OBVIOUS
  <2>0. TypeOK /\ RunInv
    BY DEF IInv
  <2>1. ASSUME NEW r \in Runs, Step(r) PROVE OwnInv'
    BY <2>0, <2>1, OwnOthers
  <2>2. ASSUME NEW r \in Runs, Stop(r) \/ Kill(r) PROVE OwnInv'
    BY <2>0, <2>2, OwnOutside
  <2>3. ASSUME NEW r \in Runs, NEW want \in Named \cup {NoTask}, Start(r, want) PROVE OwnInv'
    BY <2>0, <2>3, OwnOutside
  <2>4. ASSUME NEW u \in Tasks, Person(u) PROVE OwnInv'
    <3>1. /\ UNCHANGED <<run, local, shared>>
          /\ \A t \in Tasks : remote'[t] \in {remote[t], NoBranch}
      BY <2>0, <2>4 DEF TypeOK, Person, Merge, Close, Reopen, Retry, Unclaim, Delete
    <3> QED
      BY <3>1 DEF OwnInv, Own, Holds
  <2>5. CASE UNCHANGED vars
    BY <2>5 DEF vars, OwnInv, Own, Holds
  <2> QED
    BY <2>1, <2>2, <2>3, <2>4, <2>5 DEF Next
<1> QED
  BY <1>1, <1>2, Invariance, PTL DEF Spec

\* A run that has its task to itself works on a branch that nobody can see yet: what an
\* earlier run pushed stands until a person deletes it (engine.go, attempt).
THEOREM PushedStands == Spec => []NoWorkOverPushed
<1>1. IInv /\ OwnInv => NoWorkOverPushed
  BY DEF IInv, RunInv, KnowsTask, OwnInv, Own, Holds, Holding, NoWorkOverPushed
<1> QED
  BY <1>1, Invariance, OwnWork, PTL

\* What is pushed of a task that one run had to itself is what was cleared, all of it that
\* run's own (output.go, Open).
THEOREM PushesWhatWasCleared == Spec => PushedWasCleared
<1> DEFINE Pushes(t) ==
             remote'[t] \notin {remote[t], NoBranch} /\ t \notin shared =>
               \E r \in Runs :
                 /\ Holds(r, t) /\ remote'[t] = run[r].cleared
                 /\ remote'[t] # <<>> /\ ToSet(remote'[t]) = {r}
<1>1. ASSUME IInv, OwnInv, [Next]_vars, NEW t \in Tasks PROVE Pushes(t)
  <2>0. /\ TypeOK /\ RunInv /\ remote \in [Tasks -> Branches \cup {NoBranch}]
        /\ local \in [Tasks -> Branches]
    BY <1>1 DEF IInv, TypeOK
  <2>1. ASSUME NEW r \in Runs, Push(r) PROVE Pushes(t)
    <3> SUFFICES ASSUME remote'[t] \notin {remote[t], NoBranch}, t \notin shared
                 PROVE  /\ Holds(r, t) /\ remote'[t] = run[r].cleared
                        /\ remote'[t] # <<>> /\ ToSet(remote'[t]) = {r}
      OBVIOUS
    <3>1. run[r].pc = "push" /\ run[r].task = t /\ remote'[t] = local[t]
      BY <2>0, <2>1 DEF Push
    <3>2. Holds(r, t)
      BY <3>1 DEF Holds, Holding
    <3>3. ToSet(local[t]) \subseteq {r} /\ local[t] # <<>> /\ run[r].cleared = local[t]
      BY <1>1, <3>1, <3>2 DEF OwnInv, Own
    <3>4. local[t][1] \in ToSet(local[t])
      <4>1. local[t] \in Seq(Runs)
        BY <2>0 DEF Branches
      <4>2. 1 \in DOMAIN local[t]
        BY <3>3, <4>1
      <4> QED
        BY <4>2 DEF ToSet
    <3> QED
      BY <3>1, <3>2, <3>3, <3>4
  <2>2. ASSUME NEW r \in Runs, Step(r), ~Push(r) PROVE UNCHANGED remote
    BY <2>2 DEF Step, OpenOutputs, InProgress, NextReady, Get, Claim, Pushed, Prepare,
      Implement, Check, Lookup, Create, Finish, Comment, Fail, Release, GiveBack
  <2>3. ASSUME NEW r \in Runs,
               \/ Stop(r) \/ Kill(r)
               \/ \E want \in Named \cup {NoTask} : Start(r, want)
        PROVE  UNCHANGED remote
    BY <2>3 DEF Stop, Kill, Start
  <2>4. ASSUME NEW u \in Tasks, Person(u) PROVE remote'[t] \in {remote[t], NoBranch}
    BY <2>0, <2>4 DEF Person, Merge, Close, Reopen, Retry, Unclaim, Delete
  <2>5. UNCHANGED vars => UNCHANGED remote
    BY DEF vars
  <2> QED
    BY <1>1, <2>1, <2>2, <2>3, <2>4, <2>5 DEF Next
<1>2. IInv /\ OwnInv /\ [Next]_vars => [\A t \in Tasks : Pushes(t)]_vars
  BY <1>1
<1> QED
  BY <1>2, Invariance, OwnWork, PTL DEF Spec, PushedWasCleared
-----------------------------------------------------------------------------
(***************************************************************************)
(* Engine implements TaskBoard.                                            *)
(***************************************************************************)
On == [s \in Runs |-> Visited(s)]
Has(r) == run[r].pc \in Holding /\ (run[r].told \/ run[r].settled)

\* What a step of one run does to the visits.
LEMMA OneVisit ==
  ASSUME NEW r \in Runs, \A s \in Runs \ {r} : run'[s] = run[s]
  PROVE  /\ On' = [On EXCEPT ![r] = Visited(r)']
         /\ Has(r)' => Answered' = Answered \cup {r}
         /\ ~Has(r)' => Answered' = Answered \ {r}
         /\ (Has(r)' <=> Has(r)) => Answered' = Answered
<1>1. \A s \in Runs \ {r} : Visited(s)' = Visited(s) /\ (Has(s)' <=> Has(s))
  BY DEF Visited, Has
<1>2. On' = [On EXCEPT ![r] = Visited(r)']
  BY <1>1 DEF On
<1>3. Answered = {s \in Runs : Has(s)} /\ Answered' = {s \in Runs : Has(s)'}
  BY DEF Answered, Has
<1> QED
  BY <1>1, <1>2, <1>3

\* A step that leaves a run's visit, the labels and the pull requests alone.
LEMMA QuietStep ==
  ASSUME NEW r \in Runs, \A s \in Runs \ {r} : run'[s] = run[s],
         Visited(r)' = Visited(r), (Has(r)' <=> Has(r)), UNCHANGED <<labels, pr>>
  PROVE  UNCHANGED Board!vars
<1>1. On' = On
  BY OneVisit DEF On
<1> QED
  BY <1>1, OneVisit DEF On, Board!vars

\* The steps that are none of the board's business.
LEMMA QuietSteps ==
  ASSUME TypeOK, NEW r \in Runs, Remembers(r),
         OpenOutputs(r) \/ InProgress(r) \/ NextReady(r) \/ Get(r) \/ Pushed(r) \/ Prepare(r)
           \/ Implement(r) \/ Check(r) \/ Push(r)
  PROVE  Visited(r)' = Visited(r) /\ (Has(r)' <=> Has(r))
<1> USE DEF Visited, Has, Holding, Remembers
<1>0. /\ run \in [Runs -> RunState] /\ run[r] \in RunState
      /\ run[r].told \in BOOLEAN /\ run[r].settled \in BOOLEAN
  BY DEF TypeOK, RunState
<1>1. CASE OpenOutputs(r)
  <2>1. run'[r] \in {Counted(run[r], Cardinality(OpenPulls)), Off}
    BY <1>0, <1>1 DEF OpenOutputs
  <2> QED
    BY <1>0, <1>1, <2>1, CountedFields, OffFields DEF OpenOutputs
<1>2. CASE InProgress(r)
  <2>1. PICK p \in {"next", "claim", "off"} : Goto(r, p)
    BY <1>0, <1>2 DEF InProgress
  <2> QED
    BY <1>0, <1>2, <2>1, GotoFields, OffFields DEF InProgress
<1>3. CASE NextReady(r)
  <2>1. CASE Goto(r, "off")
    BY <1>0, <1>3, <2>1, GotoFields, OffFields DEF NextReady
  <2>2. CASE ~Goto(r, "off")
    <3>1. PICK t \in Ready : run' = [run EXCEPT ![r] = Onto(@, t)]
      BY <1>0, <1>3, <2>2 DEF NextReady
    <3>2. t \in Tasks /\ run'[r] = Onto(run[r], t)
      BY <1>0, <3>1 DEF Ready, TypeOK
    <3> QED
      BY <1>0, <1>3, <3>2, OntoFields DEF NextReady
  <2> QED
    BY <2>1, <2>2
<1>4. CASE Get(r)
  <2>1. PICK p \in {"next", "claim", "off"} : Goto(r, p)
    BY <1>0, <1>4 DEF Get
  <2> QED
    BY <1>0, <1>4, <2>1, GotoFields, OffFields DEF Get
<1>5. CASE Pushed(r)
  <2>1. PICK p \in {"giveback", "comment", "prepare", "check", "release", "lookup"} : Goto(r, p)
    BY <1>0, <1>5 DEF Pushed
  <2> QED
    BY <1>0, <1>5, <2>1, GotoFields DEF Pushed
<1>6. CASE Prepare(r)
  <2>1. CASE Goto(r, "giveback")
    BY <1>0, <1>6, <2>1, GotoFields DEF Prepare
  <2>2. CASE ~Goto(r, "giveback")
    <3>1. run'[r] = Housed(run[r])
      BY <1>0, <1>6, <2>2 DEF Prepare
    <3> QED
      BY <1>0, <1>6, <3>1, HousedFields DEF Prepare
  <2> QED
    BY <2>1, <2>2
<1>7. CASE Implement(r)
  <2>1. PICK p \in {"giveback", "comment", "prepare", "check", "release", "lookup"} : Goto(r, p)
    BY <1>0, <1>7 DEF Implement
  <2> QED
    BY <1>0, <1>7, <2>1, GotoFields DEF Implement
<1>8. CASE Check(r)
  <2>1. CASE Goto(r, "comment") \/ Goto(r, "release")
    BY <1>0, <1>8, <2>1, GotoFields DEF Check
  <2>2. CASE ~(Goto(r, "comment") \/ Goto(r, "release"))
    <3>1. run'[r] = Cleared(run[r], local[run[r].task])
      BY <1>0, <1>8, <2>2 DEF Check
    <3> QED
      BY <1>0, <1>8, <3>1, ClearedFields DEF Check
  <2> QED
    BY <2>1, <2>2
<1>9. CASE Push(r)
  <2>1. PICK p \in {"giveback", "comment", "prepare", "check", "release", "lookup"} : Goto(r, p)
    BY <1>0, <1>9 DEF Push
  <2> QED
    BY <1>0, <1>9, <2>1, GotoFields DEF Push
<1> QED
  BY <1>1, <1>2, <1>3, <1>4, <1>5, <1>6, <1>7, <1>8, <1>9

\* A run's step is a step of TaskBoard, or changes nothing it shows.
LEMMA MovesTheBoard ==
  ASSUME TypeOK, RunInv, NEW r \in Runs, Step(r)
  PROVE  [Board!Next]_Board!vars
<1> DEFINE t == run[r].task
<1>0. /\ run \in [Runs -> RunState] /\ run[r] \in RunState
      /\ run[r].told \in BOOLEAN /\ run[r].settled \in BOOLEAN
      /\ labels \in [Tasks -> SUBSET Labels]
      /\ KnowsTask(r) /\ Remembers(r) /\ Opened(r)
  BY DEF TypeOK, RunState, RunInv
<1>1. \A s \in Runs \ {r} : run'[s] = run[s]
  BY OthersKeep
<1>2. ASSUME Visited(r)' = Visited(r), (Has(r)' <=> Has(r)), UNCHANGED <<labels, pr>>
      PROVE  [Board!Next]_Board!vars
  BY <1>1, <1>2, QuietStep
<1>3. ASSUME run[r].pc \in Holding
      PROVE  t \in Tasks /\ t # NoTask /\ On[r] = t /\ Board!Visiting(r)
  BY <1>0, <1>3, EngineAssumption DEF KnowsTask, Visited, On, Board!Visiting, NoTask
<1>4. /\ (Has(r)' <=> Has(r)) /\ Visited(r)' = Visited(r) => Board!Stay(r)
      /\ Has(r)' /\ Visited(r)' = Visited(r) => Board!Answer(r)
      /\ ~Has(r)' /\ Visited(r)' = NoTask => Board!End(r)
  <2>1. Visited(r)' = Visited(r) => On' = On
    BY <1>1, OneVisit DEF On
  <2> QED
    BY <1>1, <2>1, OneVisit DEF On, Board!Stay, Board!Answer, Board!End
<1>5. Has(r) <=> r \in Answered
  BY DEF Has, Answered
<1>6. CASE OpenOutputs(r) \/ InProgress(r) \/ NextReady(r) \/ Get(r) \/ Pushed(r)
        \/ Prepare(r) \/ Implement(r) \/ Check(r) \/ Push(r)
  <2>1. UNCHANGED <<labels, pr>>
    BY <1>6 DEF OpenOutputs, InProgress, NextReady, Get, Pushed, Prepare, Implement, Check, Push
  <2> QED
    BY <1>0, <1>2, <1>6, <2>1, QuietSteps
<1>7. CASE Claim(r)
  <2>1. PICK o \in Outcomes(r) :
          /\ Relabel(r, o, {"in-progress"}, {})
          /\ Goto(r, IF o = "ok" THEN "pushed" ELSE "off")
    BY <1>7 DEF Claim
  <2>2. t \in Tasks /\ ~Has(r) /\ Visited(r) = NoTask /\ On[r] = NoTask /\ UNCHANGED pr
    BY <1>0, <1>7 DEF Claim, KnowsTask, Holding, Visited, Has, On
  <2>3. CASE o = "ok"
    <3>1. Visited(r)' = t /\ ~Has(r)'
      BY <1>0, <1>7, <2>1, <2>3, GotoFields DEF Claim, Visited, Has, Holding, Remembers
    <3>2. On' = [On EXCEPT ![r] = t] /\ UNCHANGED Answered
      BY <1>1, <2>2, <3>1, OneVisit
    <3>3. Board!Label(t, {"in-progress"}, {})
      BY <2>1, <2>3 DEF Relabel, Landed, Board!Label
    <3>4. Board!Take(r, t)
      BY <2>2, <3>2, <3>3 DEF Board!Take, Board!Visiting, On
    <3> QED
      BY <2>2, <3>4 DEF Board!Next
  <2>4. CASE o # "ok"
    <3>1. Visited(r)' = NoTask /\ ~Has(r)'
      BY <1>0, <2>1, <2>4, GotoFields, OffFields DEF Visited, Has, Holding
    <3>2. CASE ~Landed(o)
      BY <1>2, <2>1, <2>2, <3>1, <3>2 DEF Relabel
    <3>3. CASE Landed(o)
      <4>1. UNCHANGED <<On, Answered>>
        BY <1>4, <2>2, <3>1 DEF Board!Stay, On
      <4>2. Board!Label(t, {"in-progress"}, {})
        BY <2>1, <3>3 DEF Relabel, Board!Label
      <4>3. Board!Take(r, t)
        BY <2>2, <4>1, <4>2 DEF Board!Take, Board!Visiting, On
      <4> QED
        BY <2>2, <4>3 DEF Board!Next
    <3> QED
      BY <3>2, <3>3
  <2> QED
    BY <2>3, <2>4
<1>8. CASE Lookup(r)
  <2>1. run[r].pc = "lookup" /\ ~Has(r) /\ UNCHANGED <<labels, pr>>
    BY <1>0, <1>8 DEF Lookup, Has, Remembers
  <2>2. CASE Proposed(r)
    <3>1. Visited(r)' = Visited(r) /\ Has(r)'
      BY <1>0, <2>1, <2>2, ProposedFields DEF Visited, Has, Holding
    <3>2. Board!Tell(r)
      BY <1>3, <1>4, <1>5, <2>1, <3>1 DEF Board!Tell, Holding
    <3> QED
      BY <3>2 DEF Board!Next
  <2>3. CASE ~Proposed(r)
    <3>1. PICK p \in {"create", "release"} : Goto(r, p)
      BY <1>8, <2>3 DEF Lookup
    <3>2. Visited(r)' = Visited(r) /\ (Has(r)' <=> Has(r))
      BY <1>0, <2>1, <3>1, GotoFields DEF Visited, Has, Holding, Remembers
    <3> QED
      BY <1>2, <2>1, <3>2
  <2> QED
    BY <2>2, <2>3
<1>9. CASE Create(r)
  <2>1. run[r].pc = "create" /\ ~Has(r) /\ UNCHANGED labels
    BY <1>0, <1>9 DEF Create, Has, Remembers
  <2>2. Goto(r, "release") => Visited(r)' = Visited(r) /\ (Has(r)' <=> Has(r))
    BY <1>0, <2>1, GotoFields DEF Visited, Has, Holding, Remembers
  <2>3. Proposed(r) => Visited(r)' = Visited(r) /\ Has(r)'
    BY <1>0, <2>1, ProposedFields DEF Visited, Has, Holding
  <2>4. Proposed(r) \/ Goto(r, "release")
    BY <1>9 DEF Create
  <2>5. CASE UNCHANGED pr
    <3>1. CASE Goto(r, "release")
      BY <1>2, <2>1, <2>2, <2>5, <3>1
    <3>2. CASE Proposed(r)
      <4>1. Board!Tell(r)
        BY <1>3, <1>4, <1>5, <2>1, <2>3, <2>5, <3>2 DEF Board!Tell, Holding
      <4> QED
        BY <4>1 DEF Board!Next
    <3> QED
      BY <2>4, <3>1, <3>2
  <2>6. CASE pr' = [pr EXCEPT ![t] = "open"]
    <3>1. Board!Stay(r) \/ Board!Answer(r)
      BY <1>4, <2>2, <2>3, <2>4
    <3>2. Board!Propose(r)
      BY <1>3, <1>5, <2>1, <2>6, <3>1 DEF Board!Propose, On, Holding
    <3> QED
      BY <3>2 DEF Board!Next
  <2> QED
    BY <1>9, <2>5, <2>6 DEF Create
<1>10. CASE Finish(r)
  <2>1. PICK o \in Outcomes(r) : Relabel(r, o, {"done"}, {"in-progress"})
    BY <1>10 DEF Finish
  <2>2. /\ run[r].pc = "finish" /\ Has(r) /\ pr[t] # "none" /\ UNCHANGED pr
        /\ Visited(r)' = Visited(r) /\ (Has(r)' <=> Has(r))
    BY <1>0, <1>10, GotoFields DEF Finish, Has, Remembers, Opened, Visited, Holding
  <2>3. CASE ~Landed(o)
    BY <1>2, <2>1, <2>2, <2>3 DEF Relabel
  <2>4. CASE Landed(o)
    <3>1. Board!Label(t, {"done"}, {"in-progress"})
      BY <2>1, <2>4 DEF Relabel, Board!Label
    <3>2. Board!Finish(r)
      BY <1>3, <1>4, <1>5, <2>2, <3>1 DEF Board!Finish, On, Holding
    <3> QED
      BY <3>2 DEF Board!Next
  <2> QED
    BY <2>3, <2>4
<1>11. CASE Comment(r)
  <2>1. PICK o \in CleanupOutcomes : run' = [run EXCEPT ![r] = Told(@, o = "ok")]
    BY <1>11 DEF Comment
  <2>2. run'[r] = Told(run[r], o = "ok")
    BY <1>0, <2>1
  <2>3. /\ run[r].pc = "comment" /\ ~Has(r) /\ UNCHANGED <<labels, pr>>
        /\ Visited(r)' = Visited(r) /\ (Has(r)' <=> o = "ok")
    <3>1. run[r].pc = "comment" /\ ~Has(r) /\ UNCHANGED <<labels, pr>>
      BY <1>0, <1>11 DEF Comment, Has, Remembers
    <3>2. run'[r].pc = "fail" /\ run'[r].task = t /\ run'[r].told = (o = "ok")
      BY <1>0, <2>2, ToldFields
    <3>3. run'[r].settled = run[r].settled
      BY <1>0, <2>2, ToldFields
    <3> QED
      BY <1>0, <3>1, <3>2, <3>3 DEF Has, Visited, Holding
  <2>4. CASE o # "ok"
    BY <1>2, <2>3, <2>4
  <2>5. CASE o = "ok"
    <3>1. Board!Tell(r)
      BY <1>3, <1>4, <1>5, <2>3, <2>5 DEF Board!Tell, Holding
    <3> QED
      BY <3>1 DEF Board!Next
  <2> QED
    BY <2>4, <2>5
<1>12. CASE Fail(r)
  <2>1. PICK o \in CleanupOutcomes :
          /\ Relabel(r, o, {"failed"}, {"in-progress"})
          /\ Leave(r, Settles(r, o))
    BY <1>12 DEF Fail
  <2>2. /\ run[r].pc = "fail" /\ UNCHANGED pr /\ Settles(r, o) \in BOOLEAN
        /\ Has(r) <=> run[r].told
        /\ Has(r) => Settles(r, o)
        /\ ~Landed(o) /\ ~Has(r) => ~Settles(r, o)
    BY <1>0, <1>12 DEF Fail, Has, Remembers, Holding, Settles, Landed
  <2>3. \/ Visited(r)' = Visited(r) /\ (Has(r)' <=> Settles(r, o))
        \/ Visited(r)' = NoTask /\ ~Has(r)' /\ Settles(r, o)
    <3>1. CASE run'[r].pc = "release" /\ run'[r].settled = Settles(r, o)
      BY <1>0, <2>1, <2>2, <3>1, LeaveFields, OffFields DEF Visited, Has, Holding
    <3>2. CASE run'[r].pc = "giveback"
      BY <1>0, <2>1, <2>2, <3>2, LeaveFields, OffFields DEF Visited, Has, Holding, Remembers
    <3>3. CASE run'[r] = Off /\ Settles(r, o)
      BY <3>3, OffFields DEF Visited, Has, Holding
    <3> QED
      BY <1>0, <2>1, <2>2, <3>1, <3>2, <3>3, LeaveFields
  <2>4. CASE Landed(o)
    <3>1. Board!Label(t, {"failed"}, {"in-progress"})
      BY <2>1, <2>4 DEF Relabel, Board!Label
    <3>2. Board!Stay(r) \/ Board!Answer(r) \/ Board!End(r)
      BY <1>4, <2>2, <2>3
    <3>3. Board!Report(r)
      BY <1>3, <2>2, <3>1, <3>2 DEF Board!Report, On, Holding
    <3> QED
      BY <3>3 DEF Board!Next
  <2>5. CASE ~Landed(o)
    <3>1. UNCHANGED labels
      BY <2>1, <2>5 DEF Relabel
    <3>2. CASE Visited(r)' = Visited(r) /\ (Has(r)' <=> Settles(r, o))
      <4>1. (Has(r)' <=> Has(r))
        BY <2>2, <2>5, <3>2 DEF Has
      <4> QED
        BY <1>2, <2>2, <3>1, <3>2, <4>1
    <3>3. CASE Visited(r)' = NoTask /\ ~Has(r)'
      <4>1. Board!Go(r)
        BY <1>3, <1>4, <2>2, <3>1, <3>3 DEF Board!Go, Holding
      <4> QED
        BY <4>1 DEF Board!Next
    <3> QED
      BY <2>3, <3>2, <3>3
  <2> QED
    BY <2>4, <2>5
<1>13. CASE Release(r)
  <2>1. run[r].pc = "release" /\ UNCHANGED <<labels, pr>>
    BY <1>13 DEF Release
  <2>2. CASE run[r].settled
    <3>1. Goto(r, "off")
      BY <1>13, <2>2 DEF Release
    <3>2. Visited(r)' = NoTask /\ ~Has(r)'
      BY <1>0, <3>1, GotoFields, OffFields DEF Visited, Has, Holding
    <3>3. Board!Go(r)
      BY <1>3, <1>4, <2>1, <3>2 DEF Board!Go, Holding
    <3> QED
      BY <3>3 DEF Board!Next
  <2>3. CASE ~run[r].settled
    <3>1. Goto(r, "giveback")
      BY <1>13, <2>3 DEF Release
    <3>2. Visited(r)' = Visited(r) /\ (Has(r)' <=> Has(r))
      BY <1>0, <2>1, <3>1, GotoFields DEF Visited, Has, Holding
    <3> QED
      BY <1>2, <2>1, <3>2
  <2> QED
    BY <2>2, <2>3
<1>14. CASE GiveBack(r)
  <2>1. PICK o \in CleanupOutcomes : Relabel(r, o, {}, {"in-progress"})
    BY <1>14 DEF GiveBack
  <2>2. /\ run[r].pc = "giveback" /\ ~Has(r) /\ UNCHANGED pr
        /\ Visited(r)' = NoTask /\ ~Has(r)'
    BY <1>0, <1>14, GotoFields, OffFields DEF GiveBack, Has, Remembers, Visited, Holding
  <2>3. CASE Landed(o)
    <3>1. Board!Label(t, {}, {"in-progress"})
      BY <2>1, <2>3 DEF Relabel, Board!Label
    <3>2. Board!GiveBack(r)
      BY <1>3, <1>4, <1>5, <2>2, <3>1 DEF Board!GiveBack, On, Holding
    <3> QED
      BY <3>2 DEF Board!Next
  <2>4. CASE ~Landed(o)
    <3>1. Board!Go(r)
      BY <1>3, <1>4, <2>1, <2>2, <2>4 DEF Board!Go, Relabel, Holding
    <3> QED
      BY <3>1 DEF Board!Next
  <2> QED
    BY <2>3, <2>4
<1> QED
  BY <1>6, <1>7, <1>8, <1>9, <1>10, <1>11, <1>12, <1>13, <1>14 DEF Step

\* What people do is something TaskBoard lets them do.
LEMMA PeopleMoveTheBoard ==
  ASSUME TypeOK, NEW t \in Tasks, Person(t)
  PROVE  [Board!Next]_Board!vars
<1>0. /\ labels \in [Tasks -> SUBSET Labels] /\ pr \in [Tasks -> {"none", "open", "closed"}]
      /\ UNCHANGED run
  BY DEF TypeOK, Person, Merge, Close, Reopen, Retry, Unclaim, Delete
<1>1. UNCHANGED <<On, Answered>>
  BY <1>0 DEF On, Answered, Visited
<1>2. CASE UNCHANGED <<labels, pr>>
  BY <1>1, <1>2 DEF Board!vars, On
<1>3. ASSUME pr[t] = "open", pr' = [pr EXCEPT ![t] = "closed"], UNCHANGED labels
      PROVE  Board!Next
  <2>1. Board!Person(t)
    BY <1>1, <1>3 DEF Board!Person, On
  <2> QED
    BY <2>1 DEF Board!Next
<1>4. ASSUME NEW l \in SUBSET {"in-progress", "done", "failed"},
             labels' = [labels EXCEPT ![t] = @ \ l], UNCHANGED pr
      PROVE  Board!Next
  <2>1. Board!Label(t, {}, l)
    BY <1>4 DEF Board!Label
  <2>2. Board!Person(t)
    BY <1>1, <1>4, <2>1 DEF Board!Person, On
  <2> QED
    BY <2>2 DEF Board!Next
<1>5. CASE Merge(t)
  BY <1>3, <1>5 DEF Merge
<1>6. CASE Close(t)
  BY <1>2, <1>3, <1>6 DEF Close
<1>7. CASE Reopen(t)
  BY <1>2, <1>7 DEF Reopen
<1>8. CASE Retry(t)
  BY <1>4, <1>8 DEF Retry
<1>9. CASE Unclaim(t)
  BY <1>4, <1>9 DEF Unclaim
<1>10. CASE Delete(t)
  <2>1. CASE pr[t] = "open"
    BY <1>3, <1>10, <2>1 DEF Delete
  <2>2. CASE pr[t] # "open"
    <3>1. UNCHANGED <<labels, pr>>
      BY <1>0, <1>10, <2>2 DEF Delete
    <3> QED
      BY <1>2, <3>1
  <2> QED
    BY <2>1, <2>2
<1> QED
  BY <1>5, <1>6, <1>7, <1>8, <1>9, <1>10 DEF Person

\* Every behaviour of the runs, with any calls failing, any stops and kills and
\* anything people do meanwhile, is one TaskBoard allows.
THEOREM Refinement == Spec => KeepsTheBoard
<1>1. Init => Board!Init
  BY OffFields DEF Init, Board!Init, Visited, Answered, Holding
<1>2. ASSUME IInv, [Next]_vars PROVE [Board!Next]_Board!vars
  <2>0. TypeOK /\ RunInv /\ run \in [Runs -> RunState]
    BY <1>2 DEF IInv, TypeOK
  <2>1. ASSUME NEW r \in Runs, Step(r) PROVE [Board!Next]_Board!vars
    BY <2>0, <2>1, MovesTheBoard
  <2>2. ASSUME NEW r \in Runs, Stop(r) PROVE [Board!Next]_Board!vars
    <3>1. run'[r] = Stopped(run[r]) /\ run[r] \in RunState
      BY <2>0, <2>2 DEF Stop
    <3>2. Visited(r)' = Visited(r) /\ (Has(r)' <=> Has(r))
      BY <3>1, StoppedFields DEF Visited, Has
    <3>3. \A s \in Runs \ {r} : run'[s] = run[s]
      BY <2>0, <2>2, OthersKeep
    <3>4. UNCHANGED <<labels, pr>>
      BY <2>2 DEF Stop
    <3> QED
      BY <3>2, <3>3, <3>4, QuietStep
  <2>3. ASSUME NEW r \in Runs, Kill(r) PROVE [Board!Next]_Board!vars
    <3>1. run'[r] = Off
      BY <2>0, <2>3 DEF Kill, Goto
    <3>2. Visited(r)' = NoTask /\ ~Has(r)'
      BY <3>1, OffFields DEF Visited, Has, Holding
    <3>3. \A s \in Runs \ {r} : run'[s] = run[s]
      BY <2>0, <2>3, OthersKeep
    <3>4. UNCHANGED <<labels, pr>>
      BY <2>3 DEF Kill
    <3>5. CASE run[r].pc \in Holding
      <4>1. On[r] # NoTask
        BY <2>0, <3>5, EngineAssumption DEF On, Visited, RunInv, KnowsTask, NoTask
      <4>2. Board!Go(r)
        BY <3>2, <3>3, <3>4, <4>1, OneVisit DEF Board!Go, Board!Visiting, Board!End, On
      <4> QED
        BY <4>2 DEF Board!Next
    <3>6. CASE run[r].pc \notin Holding
      <4>1. Visited(r) = NoTask /\ ~Has(r)
        BY <3>6 DEF Visited, Has
      <4> QED
        BY <3>2, <3>3, <3>4, <4>1, QuietStep
    <3> QED
      BY <3>5, <3>6
  <2>4. ASSUME NEW r \in Runs, NEW want \in Named \cup {NoTask}, Start(r, want)
        PROVE  [Board!Next]_Board!vars
    <3>1. PICK first \in {"get", "outputs", "next"} : run'[r] = First(first, want)
      BY <2>0, <2>4 DEF Start
    <3>2. /\ Visited(r) = NoTask /\ ~Has(r)
          /\ Visited(r)' = NoTask /\ ~Has(r)'
      BY <2>4, <3>1, OffFields DEF Start, Visited, Has, Holding
    <3>3. \A s \in Runs \ {r} : run'[s] = run[s]
      BY <2>0, <2>4, OthersKeep
    <3>4. UNCHANGED <<labels, pr>>
      BY <2>4 DEF Start
    <3> QED
      BY <3>2, <3>3, <3>4, QuietStep
  <2>5. ASSUME NEW t \in Tasks, Person(t) PROVE [Board!Next]_Board!vars
    BY <2>0, <2>5, PeopleMoveTheBoard
  <2>6. CASE UNCHANGED vars
    BY <2>6 DEF vars, Board!vars, Visited, Answered
  <2> QED
    BY <1>2, <2>1, <2>2, <2>3, <2>4, <2>5, <2>6 DEF Next
<1> QED
  BY <1>1, <1>2, Invariance, PTL DEF Spec, Board!Spec, KeepsTheBoard
=============================================================================
