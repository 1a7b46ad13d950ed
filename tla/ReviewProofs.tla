---------------------------- MODULE ReviewProofs -----------------------------
(***************************************************************************)
(* Proofs about Review, for any processes, numbers of comments and of      *)
(* changes, proposed branch, faults and people: what the labels say, what  *)
(* becomes of the comments, that no change to the branch is lost, and that *)
(* Review implements Conversation.                                         *)
(***************************************************************************)
EXTENDS Review, SequenceTheorems, FiniteSetTheorems, TLAPS

\* A branch as a pull request has it: of some commits, and the first is not a fix.
WellMade(b) == b \in Branches /\ b # <<>> /\ ~b[1].fix

\* Where the two kinds of runs go their own ways, and where a reply is still to come.
RevisionOnly ==
  { "pick", "feedback", "claim", "revise", "push", "answer", "sorry", "labels" }

TidyOnly == { "log", "head", "squash", "force", "tell" }

Reading ==
  { "claim", "fetch", "remove", "save", "add", "revise", "push", "answer" }

\* What a process knows of itself by where it is.
Knows(p) ==
  /\ proc[p].pc \in RevisionOnly => Revising(p)
  /\ proc[p].pc \in TidyOnly => ~Revising(p)
  /\ proc[p].replied => proc[p].pc \in {"release", "tell", "labels", "off"} /\ ~proc[p].broke

\* The branches there are, one of them checked out at most, and at one place.
Checkouts ==
  /\ WellMade(remote)
  /\ local = NoBranch \/ WellMade(local)
  /\ tracked = NoBranch \/ WellMade(tracked)
  /\ \A k \in Keys : tree[k].known => local # NoBranch
  /\ \A j, k \in Keys : tree[j].known /\ tree[k].known => j = k
  /\ \A p \in Procs : proc[p].pc \in {"remove", "save", "add"} => tracked # NoBranch
  /\ \A p \in Procs : proc[p].pc \in {"squash", "force"} => proc[p].leased \in Branches

\* Whose changes are whose.  In a tidy's workspace there are only changes that were
\* pushed; and of those, the ones of every commit that a tidy has leased.
Descent ==
  /\ Work(remote) \cup Work(local) \subseteq 1..made
  /\ Work(tracked) \subseteq Work(remote)
  /\ tree["output"].known => Work(local) \subseteq Work(tracked)
  /\ \A p \in Procs : proc[p].pc \in {"squash", "force"} =>
       /\ Work(proc[p].leased) \subseteq Work(tracked)
       /\ tree["output"].known => Work(proc[p].leased) \subseteq Work(local)

\* Two branches of the same changes are the same but for fixes that are folded.
Coherent ==
  \A a, b \in {remote, local, tracked} \ {NoBranch} : Work(a) = Work(b) => Fold(a) = Fold(b)

\* What is about to be reset is kept elsewhere.
BackedUp ==
  (\E p \in Procs : proc[p].pc = "add") => Work(local) \ bare \subseteq saved \cup Work(remote)

\* A run that has read what it is to answer, and has not answered.
Reads(p) == Revising(p) /\ proc[p].pc \in Reading

\* What a run will not answer when it replies now was dealt with, or made way.
Covered(p) ==
  \A c \in 1..posted \ (heard \cup passed \cup proc[p].read) :
    Cardinality({d \in heard \cup proc[p].read : d > c}) >= MaxFeedbackItems

AnswersCover == \A p \in Procs : Reads(p) => Covered(p)

IInv ==
  /\ TypeOK /\ \A p \in Procs : Knows(p)
  /\ Checkouts /\ Descent /\ Coherent
  /\ WorkIsKept /\ BackedUp
  /\ RequestAccounted
  /\ HiddenWasHeard /\ AnswersCover
-----------------------------------------------------------------------------
(***************************************************************************)
(* Branches.                                                               *)
(***************************************************************************)
\* What a branch is made of.
LEMMA Parts ==
  ASSUME NEW b \in Branches
  PROVE  /\ Len(b) \in Nat /\ DOMAIN b = 1..Len(b)
         /\ b # <<>> => Len(b) >= 1
         /\ \A i \in 1..Len(b) : b[i] \in Commits
         /\ Work(b) = UNION {b[i].work : i \in 1..Len(b)}
         /\ Work(b) \subseteq Changes
<1>1. /\ Len(b) \in Nat /\ DOMAIN b = 1..Len(b)
      /\ \A i \in 1..Len(b) : b[i] \in Commits
  BY LenProperties DEF Branches
<1>2. b # <<>> => Len(b) >= 1
  BY EmptySeq DEF Branches
<1>3. b # NoBranch
  BY ReviewAssumption
<1>4. Work(b) = UNION {b[i].work : i \in 1..Len(b)}
  BY <1>1, <1>3 DEF Work, ToSet
<1>5. \A i \in 1..Len(b) : b[i].work \subseteq Changes
  BY <1>1 DEF Commits
<1> QED
  BY <1>1, <1>2, <1>4, <1>5

\* The changes of a branch, one commit at a time.
LEMMA InWork ==
  ASSUME NEW b \in Branches, NEW c
  PROVE  c \in Work(b) <=> \E i \in 1..Len(b) : c \in b[i].work
BY Parts

\* A branch that a commit is put on.
LEMMA AppendKeeps ==
  ASSUME NEW b, WellMade(b), NEW c \in Commits
  PROVE  /\ WellMade(Append(b, c))
         /\ Work(Append(b, c)) = Work(b) \cup c.work
         /\ IsPrefix(b, Append(b, c))
<1> DEFINE d == Append(b, c)
<1>1. /\ d \in Branches /\ d # <<>> /\ Len(d) = Len(b) + 1
      /\ (\A i \in 1..Len(b) : d[i] = b[i]) /\ d[Len(b) + 1] = c
  BY AppendProperties DEF WellMade, Branches
<1>2. b \in Branches /\ Len(b) \in Nat /\ Len(b) >= 1
  BY Parts DEF WellMade
<1> HIDE DEF d
<1>3. WellMade(d)
  BY <1>1, <1>2 DEF WellMade
<1>4. Work(d) = Work(b) \cup c.work
  <2>1. ASSUME NEW x PROVE x \in Work(d) <=> x \in Work(b) \cup c.work
    <3>1. x \in Work(d) <=> \E i \in 1..(Len(b) + 1) : x \in d[i].work
      BY <1>1, InWork
    <3>2. x \in Work(b) <=> \E i \in 1..Len(b) : x \in b[i].work
      BY <1>2, InWork
    <3> QED
      BY <1>1, <1>2, <3>1, <3>2
  <2> QED
    BY <2>1
<1>5. SubSeq(b, 1, Len(b)) = SubSeq(d, 1, Len(b))
  <2>1. b \in Seq(Commits) /\ d \in Seq(Commits)
    BY <1>1, <1>2 DEF Branches
  <2>2. /\ SubSeq(b, 1, Len(b)) \in Seq(Commits) /\ SubSeq(d, 1, Len(b)) \in Seq(Commits)
        /\ Len(SubSeq(b, 1, Len(b))) = Len(b) /\ Len(SubSeq(d, 1, Len(b))) = Len(b)
        /\ \A i \in 1..Len(b) : SubSeq(b, 1, Len(b))[i] = b[i] /\ SubSeq(d, 1, Len(b))[i] = d[i]
    BY <1>1, <1>2, <2>1, SubSeqProperties, ElementOfSeq
  <2> QED
    BY <1>1, <2>2, SeqEqual
<1> QED
  BY <1>1, <1>2, <1>3, <1>4, <1>5 DEF IsPrefix, d

\* A branch that another begins with holds none but the other's changes.
LEMMA PrefixWork ==
  ASSUME NEW a \in Branches, NEW b \in Branches, IsPrefix(a, b)
  PROVE  Work(a) \subseteq Work(b)
<1>1. /\ Len(a) \in Nat /\ Len(b) \in Nat /\ Len(a) <= Len(b)
      /\ SubSeq(a, 1, Len(a)) = SubSeq(b, 1, Len(a))
  BY Parts DEF IsPrefix
<1>2. ASSUME NEW i \in 1..Len(a) PROVE a[i] = b[i]
  <2>1. SubSeq(a, 1, Len(a))[i] = a[i] /\ SubSeq(b, 1, Len(a))[i] = b[i]
    <3>1. (\A j \in 1..Len(a) : a[j] \in Commits) /\ (\A j \in 1..Len(a) : b[j] \in Commits)
      BY <1>1, Parts
    <3> QED
      BY <1>1, <3>1, SubSeqProperties
  <2> QED
    BY <1>1, <2>1
<1> QED
  BY <1>1, <1>2, InWork

\* Where the commits of a branch go when it is folded.
LEMMA Places ==
  ASSUME NEW b, WellMade(b)
  PROVE  /\ \A i \in 1..Len(b) : Place(b, i) \in 1..Place(b, Len(b))
         /\ Place(b, Len(b)) \in Nat
<1> DEFINE Kept(i) == {j \in 1..i : ~b[j].fix}
<1>1. Len(b) \in Nat /\ Len(b) >= 1
  BY Parts DEF WellMade
<1>2. ASSUME NEW i \in 1..Len(b)
      PROVE  IsFiniteSet(Kept(i)) /\ Cardinality(Kept(i)) \in Nat /\ Cardinality(Kept(i)) >= 1
  <2>1. IsFiniteSet(Kept(i))
    <3>1. IsFiniteSet(1..i) /\ Kept(i) \in SUBSET (1..i)
      BY <1>1, FS_Interval
    <3> QED
      BY <3>1, FS_Subset
  <2>2. 1 \in Kept(i)
    BY <1>1 DEF WellMade
  <2> HIDE DEF Kept
  <2>3. Cardinality(Kept(i)) \in Nat /\ Cardinality(Kept(i)) # 0
    BY <2>1, <2>2, FS_CardinalityType, FS_EmptySet
  <2> QED
    BY <2>1, <2>3
<1>3. ASSUME NEW i \in 1..Len(b) PROVE Cardinality(Kept(i)) <= Cardinality(Kept(Len(b)))
  <2>1. Kept(i) \in SUBSET Kept(Len(b)) /\ Len(b) \in 1..Len(b)
    BY <1>1
  <2> QED
    BY <1>2, <2>1, FS_Subset
<1>4. \A i : Place(b, i) = Cardinality(Kept(i))
  BY DEF Place
<1> HIDE DEF Kept
<1>5. Len(b) \in 1..Len(b)
  BY <1>1
<1> QED
  BY <1>1, <1>2, <1>3, <1>4, <1>5

\* The branch with its fixes folded, commit by commit.
LEMMA FoldParts ==
  ASSUME NEW b, WellMade(b)
  PROVE  /\ Fold(b) \in Branches /\ Len(Fold(b)) = Place(b, Len(b))
         /\ \A n \in 1..Place(b, Len(b)) :
              /\ ~Fold(b)[n].fix
              /\ \A c : c \in Fold(b)[n].work <=>
                   \E i \in 1..Len(b) : Place(b, i) = n /\ c \in b[i].work
<1> DEFINE m == Place(b, Len(b))
           At(n) == {j \in DOMAIN b : Place(b, j) = n}
           W(n) == UNION {b[i].work : i \in At(n)}
           f == [n \in 1..m |-> [work |-> W(n), fix |-> FALSE]]
<1>1. b \in Branches /\ m \in Nat
  BY Places DEF WellMade
<1>2. Fold(b) = f
  BY DEF Fold
<1>3. ASSUME NEW n \in 1..m PROVE W(n) \subseteq Changes
  <2>1. \A i \in At(n) : b[i] \in Commits
    BY <1>1, Parts
  <2> QED
    BY <2>1 DEF Commits
<1>4. \A n \in 1..m : [work |-> W(n), fix |-> FALSE] \in Commits
  BY <1>3 DEF Commits
<1>5. f \in Branches
  <2> HIDE DEF W
  <2>1. f \in [1..m -> Commits]
    BY <1>4
  <2> HIDE DEF f
  <2> QED
    BY <1>1, <2>1 DEF Branches
<1>6. Len(f) = m
  <2>1. DOMAIN f = 1..m /\ DOMAIN f = 1..Len(f) /\ Len(f) \in Nat
    BY <1>5, Parts
  <2> HIDE DEF f, m
  <2> QED
    BY <1>1, <2>1
<1>7. ASSUME NEW n \in 1..m
      PROVE  /\ ~f[n].fix
             /\ \A c : c \in f[n].work <=> \E i \in 1..Len(b) : Place(b, i) = n /\ c \in b[i].work
  <2>1. ~f[n].fix /\ f[n].work = W(n)
    OBVIOUS
  <2>2. DOMAIN b = 1..Len(b)
    BY <1>1, Parts
  <2>3. \A c : c \in W(n) <=> \E i \in 1..Len(b) : Place(b, i) = n /\ c \in b[i].work
    BY <2>2
  <2> QED
    BY <2>1, <2>3
<1> QED
  BY <1>2, <1>5, <1>6, <1>7

\* Folding keeps every change and nothing but the changes, and leaves no fix.
LEMMA FoldKeeps ==
  ASSUME NEW b, WellMade(b)
  PROVE  /\ WellMade(Fold(b))
         /\ Work(Fold(b)) = Work(b)
         /\ \A n \in 1..Len(Fold(b)) : ~Fold(b)[n].fix
<1> DEFINE m == Place(b, Len(b))
<1>1. /\ Fold(b) \in Branches /\ Len(Fold(b)) = m
      /\ \A n \in 1..m :
           /\ ~Fold(b)[n].fix
           /\ \A c : c \in Fold(b)[n].work <=>
                \E i \in 1..Len(b) : Place(b, i) = n /\ c \in b[i].work
  BY FoldParts
<1>2. m \in Nat /\ (\A i \in 1..Len(b) : Place(b, i) \in 1..m)
  BY Places
<1>3. b \in Branches /\ Len(b) \in Nat /\ Len(b) >= 1
  BY Parts DEF WellMade
<1>4. m >= 1
  BY <1>2, <1>3
<1> HIDE DEF m
<1>5. WellMade(Fold(b))
  <2>1. Fold(b) # <<>>
    BY <1>1, <1>2, <1>4, EmptySeq DEF Branches
  <2> QED
    BY <1>1, <1>2, <1>4, <2>1 DEF WellMade
<1>6. ASSUME NEW c PROVE c \in Work(Fold(b)) <=> c \in Work(b)
  <2>1. c \in Work(Fold(b)) <=> \E n \in 1..m : c \in Fold(b)[n].work
    BY <1>1, InWork
  <2>2. c \in Work(b) <=> \E i \in 1..Len(b) : c \in b[i].work
    BY <1>3, InWork
  <2> QED
    BY <1>1, <1>2, <2>1, <2>2
<1> QED
  BY <1>1, <1>5, <1>6

\* Without a fix there is nothing to fold.
LEMMA FoldWithoutFixes ==
  ASSUME NEW b, WellMade(b), \A i \in 1..Len(b) : ~b[i].fix
  PROVE  Fold(b) = b
<1>1. b \in Branches /\ b \in Seq(Commits) /\ Len(b) \in Nat /\ Len(b) >= 1
  BY Parts DEF WellMade, Branches
<1>2. ASSUME NEW i \in 1..Len(b) PROVE Place(b, i) = i
  <2>1. {j \in 1..i : ~b[j].fix} = 1..i
    BY <1>1
  <2>2. Cardinality(1..i) = i
    BY <1>1, FS_Interval
  <2> QED
    BY <2>1, <2>2 DEF Place
<1>3. Place(b, Len(b)) = Len(b)
  BY <1>1, <1>2
<1>4. /\ Fold(b) \in Branches /\ Len(Fold(b)) = Len(b)
      /\ \A n \in 1..Len(b) :
           /\ ~Fold(b)[n].fix
           /\ \A c : c \in Fold(b)[n].work <=>
                \E i \in 1..Len(b) : Place(b, i) = n /\ c \in b[i].work
  BY <1>3, FoldParts
<1>5. ASSUME NEW n \in 1..Len(b) PROVE Fold(b)[n] = b[n]
  <2>1. \A c : c \in Fold(b)[n].work <=> c \in b[n].work
    BY <1>2, <1>4
  <2>2. Fold(b)[n] \in Commits /\ b[n] \in Commits
    BY <1>1, <1>4, Parts
  <2>3. Fold(b)[n].work = b[n].work
    BY <2>1
  <2>4. Fold(b)[n].fix = b[n].fix
    BY <1>4, <2>2 DEF Commits
  <2> QED
    BY <2>2, <2>3, <2>4 DEF Commits
<1>6. Fold(b) \in Seq(Commits)
  BY <1>4 DEF Branches
<1> QED
  BY <1>1, <1>4, <1>5, <1>6, SeqEqual

\* What was folded stays as it is when it is folded again.
LEMMA FoldTwice ==
  ASSUME NEW b, WellMade(b)
  PROVE  Fold(Fold(b)) = Fold(b)
BY FoldKeeps, FoldWithoutFixes
-----------------------------------------------------------------------------
(***************************************************************************)
(* How a process moves.                                                    *)
(***************************************************************************)
ProcType == proc \in [Procs -> ProcState]

\* The other processes' records stay as they are.
Alone(p) == ProcType' /\ \A q \in Procs \ {p} : proc'[q] = proc[q]

\* A process that is not there has a record of its own.
LEMMA OffTyped == Off \in ProcState /\ Off.pc = "off" /\ ~Off.replied /\ Off.key = "task"
BY ReviewAssumption DEF Off, ProcState, Steps

\* To another call with everything that it knows, or to its end.
LEMMA GotoFields ==
  ASSUME ProcType, NEW p \in Procs, NEW next \in Steps, Goto(p, next)
  PROVE  /\ Alone(p)
         /\ proc'[p].pc = next
         /\ next = "off" => proc'[p] = Off
         /\ next # "off" =>
              /\ proc'[p].key = proc[p].key /\ proc'[p].housed = proc[p].housed
              /\ proc'[p].read = proc[p].read /\ proc'[p].leased = proc[p].leased
              /\ proc'[p].replied = proc[p].replied /\ proc'[p].broke = proc[p].broke
BY OffTyped DEF Goto, Alone, ProcType, ProcState

\* On, having given its answer or been broken.
LEMMA DoneFields ==
  ASSUME ProcType, NEW p \in Procs, NEW next \in Steps, NEW broke \in BOOLEAN,
         Done(p, next, broke)
  PROVE  /\ Alone(p)
         /\ proc'[p].pc = next
         /\ next = "off" => proc'[p] = Off
         /\ next # "off" =>
              /\ proc'[p].key = proc[p].key /\ proc'[p].read = {}
              /\ proc'[p].broke = broke /\ proc'[p].replied = ~broke
BY OffTyped DEF Done, Alone, ProcType, ProcState

\* To where a run gives up its workspace, or says what became of it, or to its end.
LEMMA BreakFields ==
  ASSUME ProcType, NEW p \in Procs, Break(p)
  PROVE  /\ Alone(p)
         /\ proc'[p].pc \in {"release", "sorry", "off"}
         /\ proc'[p].pc = "off" => proc'[p] = Off /\ ~Revising(p)
         /\ proc'[p].pc = "sorry" => Revising(p)
         /\ proc'[p].pc # "off" =>
              proc'[p].key = proc[p].key /\ proc'[p].broke /\ ~proc'[p].replied
<1>1. AfterError(p) \in {"release", "sorry", "off"} /\ AfterError(p) \in Steps
  BY DEF AfterError, Steps
<1>2. Done(p, AfterError(p), TRUE)
  BY DEF Break
<1>3. /\ AfterError(p) = "off" => ~Revising(p)
      /\ AfterError(p) = "sorry" => Revising(p)
  BY DEF AfterError
<1> QED
  BY <1>1, <1>2, <1>3, DoneFields

\* Where a step of a process takes it, and what it knows then.
Moved(p) == Alone(p) /\ Knows(p)'

\* A run that breaks is where it can be.
LEMMA KnowsBreak ==
  ASSUME ProcType, NEW p \in Procs, Break(p)
  PROVE  Moved(p)
BY BreakFields, OffTyped DEF Moved, Knows, RevisionOnly, TidyOnly, Revising

\* A run that leases the branch is still a tidy.
LEMMA LeasedFields ==
  ASSUME ProcType, NEW p \in Procs, Knows(p), proc[p].pc = "head",
         local \in Branches \cup {NoBranch},
         proc' = [proc EXCEPT ![p].pc = "squash", ![p].leased = local]
  PROVE  Alone(p) /\ Knows(p)'
<1>1. proc[p] \in ProcState /\ "squash" \in Steps
  BY DEF ProcType, Steps
<1>2. /\ proc'[p] = [proc[p] EXCEPT !.pc = "squash", !.leased = local]
      /\ \A q \in Procs \ {p} : proc'[q] = proc[q]
      /\ proc' = [q \in Procs |-> proc'[q]]
  BY DEF ProcType
<1>3. /\ proc'[p] \in ProcState
      /\ proc'[p].pc = "squash" /\ proc'[p].key = proc[p].key
      /\ proc'[p].replied = proc[p].replied
  BY <1>1, <1>2 DEF ProcState
<1>4. Alone(p)
  BY <1>2, <1>3 DEF Alone, ProcType
<1>5. Knows(p)'
  BY <1>3 DEF Knows, RevisionOnly, TidyOnly, Revising
<1> QED
  BY <1>4, <1>5

\* A command of Prepare leads to the next, or breaks the run.
LEMMA PrepareMoves ==
  ASSUME ProcType, NEW p \in Procs, Knows(p), NEW here \in {"fetch", "remove", "save"},
         NEW possible, NEW command,
         NEW next \in {"remove", "save", "add"}, Prepare(p, here, possible, command, next)
  PROVE  Moved(p)
<1>1. next \in Steps /\ next # "off" /\ proc[p].pc = here
  BY DEF Steps, Prepare
<1>2. CASE Break(p)
  BY <1>2, KnowsBreak
<1>3. CASE Goto(p, next)
  BY <1>1, <1>3, GotoFields DEF Moved, Knows, RevisionOnly, TidyOnly, Revising
<1> QED
  BY <1>2, <1>3 DEF Prepare

\* A look at the branch is a move of a tidy's.
LEMMA TidyMoves ==
  ASSUME ProcType, NEW p \in Procs, Knows(p), proc[p].pc \in TidyOnly, ~proc[p].replied,
         NEW next \in {"head", "release", "force", "tell"}, Goto(p, next)
  PROVE  Moved(p)
<1>1. next \in Steps /\ next # "off"
  BY DEF Steps
<1> QED
  BY <1>1, GotoFields DEF Moved, Knows, RevisionOnly, TidyOnly, Revising

\* Every step of a process leaves it with a record that fits where it is.
LEMMA StepMoves ==
  ASSUME TypeOK, NEW p \in Procs, Knows(p), Step(p)
  PROVE  Moved(p)
<1>1. ProcType /\ proc[p] \in ProcState
  BY DEF TypeOK, ProcType
<1>2. Newest \subseteq Comments
  BY ReviewAssumption DEF TypeOK, Newest, Pending, Comments
<1>3. /\ {"off", "pick", "output", "feedback", "fetch", "claim", "answer", "revise", "log", "push",
         "labels", "release", "sorry", "squash", "tell", "force", "head"} \subseteq Steps
      /\ "task" \in Keys /\ "output" \in Keys
  BY ReviewAssumption DEF Steps
<1> USE <1>1 DEF Knows, RevisionOnly, TidyOnly, Revising
<1>4. CASE Pick(p)
  <2>1. PICK next \in {"output", "off"} : Goto(p, next)
    BY <1>4 DEF Pick
  <2> QED
    BY <1>3, <1>4, <2>1, GotoFields, OffTyped DEF Pick, Moved
<1>5. CASE Output(p)
  <2>1. PICK next \in {"feedback", "fetch", "off"} : Goto(p, next) /\ (next = "feedback" => Revising(p))
    BY <1>5 DEF Output
  <2> QED
    BY <1>3, <1>5, <2>1, GotoFields, OffTyped DEF Output, Moved
<1>6. CASE Feedback(p)
  <2>1. ASSUME NEW next \in {"claim", "answer"},
               proc' = [proc EXCEPT ![p].pc = next, ![p].read = Newest], proc[p].pc = "feedback"
        PROVE  Moved(p)
    BY <1>2, <1>3, <2>1 DEF Moved, Alone, ProcType, ProcState
  <2> QED
    BY <1>6, <2>1, KnowsBreak DEF Feedback
<1>7. CASE ClaimFeedback(p)
  <2>1. CASE Goto(p, "fetch")
    BY <1>3, <1>7, <2>1, GotoFields DEF ClaimFeedback, Moved
  <2> QED
    BY <1>7, <2>1, KnowsBreak DEF ClaimFeedback
<1>8. CASE Fetch(p) \/ RemoveOld(p) \/ Save(p)
  BY <1>8, PrepareMoves DEF Fetch, RemoveOld, Save
<1>9. CASE AddNew(p)
  <2>1. CASE Break(p)
    BY <2>1, KnowsBreak
  <2>2. CASE proc' = [proc EXCEPT ![p].pc = IF Revising(p) THEN "revise" ELSE "log",
                                  ![p].housed = TRUE]
    BY <1>3, <1>9, <2>2 DEF AddNew, Moved, Alone, ProcType, ProcState
  <2> QED
    BY <1>9, <2>1, <2>2 DEF AddNew
<1>10. CASE Revise(p)
  <2>1. ASSUME NEW next \in {"push", "answer"}, Goto(p, next), proc[p].pc = "revise"
        PROVE  Moved(p)
    BY <1>3, <2>1, GotoFields DEF Moved
  <2> QED
    BY <1>10, <2>1, KnowsBreak DEF Revise
<1>11. CASE Push(p)
  <2>1. CASE Goto(p, "answer")
    BY <1>3, <1>11, <2>1, GotoFields DEF Push, Moved
  <2> QED
    BY <1>11, <2>1, KnowsBreak DEF Push
<1>12. CASE Answer(p)
  <2>1. CASE Done(p, AfterAnswer(p), FALSE)
    <3>1. AfterAnswer(p) \in {"release", "labels"}
      BY DEF AfterAnswer
    <3> QED
      BY <1>3, <1>12, <2>1, <3>1, DoneFields DEF Answer, Moved
  <2> QED
    BY <1>12, <2>1, KnowsBreak DEF Answer
<1>13. CASE Sorry(p)
  BY <1>3, <1>13, GotoFields DEF Sorry, Moved
<1>14. CASE ReleaseFeedback(p)
  BY <1>3, <1>14, GotoFields, OffTyped DEF ReleaseFeedback, Moved
<1>15. CASE Log(p)
  <2>1. CASE Goto(p, IF HasFixes(local) THEN "head" ELSE "release") /\ proc[p].pc = "log"
    BY <2>1, TidyMoves
  <2> QED
    BY <1>15, <2>1, KnowsBreak DEF Log, Look
<1>16. CASE Lease(p)
  <2>1. CASE proc' = [proc EXCEPT ![p].pc = "squash", ![p].leased = local] /\ proc[p].pc = "head"
    <3>1. local \in Branches \cup {NoBranch}
      BY DEF TypeOK
    <3> QED
      BY <2>1, <3>1, LeasedFields DEF Moved
  <2> QED
    BY <1>16, <2>1, KnowsBreak DEF Lease, Look
<1>17. CASE Autosquash(p)
  BY <1>17, TidyMoves, KnowsBreak DEF Autosquash
<1>18. CASE ForcePush(p)
  BY <1>18, TidyMoves, KnowsBreak DEF ForcePush
<1>19. CASE Tell(p)
  <2>1. PICK broke \in BOOLEAN : Done(p, "release", broke)
    BY <1>19 DEF Tell
  <2>2. proc[p].pc = "tell"
    BY <1>19 DEF Tell
  <2>3. /\ Alone(p) /\ proc'[p].pc = "release" /\ proc'[p].key = proc[p].key
        /\ proc'[p].broke = broke /\ proc'[p].replied = ~broke
    BY <1>3, <2>1, DoneFields
  <2> QED
    BY <2>2, <2>3 DEF Moved
<1>20. CASE Release(p)
  <2>1. PICK next \in {"off", "sorry", "labels"} :
          /\ Goto(p, next)
          /\ next \in {"sorry", "labels"} => Revising(p)
          /\ next = "sorry" => proc[p].broke
    BY <1>20 DEF Release
  <2> QED
    BY <1>3, <1>20, <2>1, GotoFields, OffTyped DEF Release, Moved
<1> QED
  BY <1>4, <1>5, <1>6, <1>7, <1>8, <1>9, <1>10, <1>11, <1>12, <1>13, <1>14, <1>15, <1>16, <1>17,
     <1>18, <1>19, <1>20 DEF Step

\* So does what happens to it from outside, and its start.
LEMMA OutsideMoves ==
  ASSUME TypeOK, NEW p \in Procs, Knows(p), Start(p) \/ Stop(p) \/ Kill(p)
  PROVE  Moved(p)
<1>1. ProcType /\ proc[p] \in ProcState
  BY DEF TypeOK, ProcType
<1>2. {"off", "pick", "output"} \subseteq Steps
  BY DEF Steps
<1> USE <1>1 DEF Knows, RevisionOnly, TidyOnly, Revising
<1>3. CASE Start(p)
  <2>1. PICK k \in Keys, first \in {"pick", "output"} :
          /\ first = "pick" => k = "task"
          /\ proc' = [proc EXCEPT ![p] = [Off EXCEPT !.pc = first, !.key = k]]
    BY <1>3 DEF Start
  <2>2. [Off EXCEPT !.pc = first, !.key = k] \in ProcState
    BY <1>2, OffTyped DEF ProcState
  <2>3. /\ [Off EXCEPT !.pc = first, !.key = k].pc = first
        /\ [Off EXCEPT !.pc = first, !.key = k].key = k
        /\ ~[Off EXCEPT !.pc = first, !.key = k].replied
    BY DEF Off
  <2> HIDE DEF Off
  <2> QED
    BY <2>1, <2>2, <2>3 DEF Moved, Alone, ProcType
<1>4. CASE Stop(p)
  BY <1>4 DEF Stop, Moved, Alone, ProcType, ProcState
<1>5. CASE Kill(p)
  BY <1>2, <1>5, GotoFields, OffTyped DEF Kill, Moved
<1> QED
  BY <1>3, <1>4, <1>5

\* What a process knows of itself stays so, whatever happens.
LEMMA KnowsStep ==
  ASSUME TypeOK, \A q \in Procs : Knows(q), [Next]_vars
  PROVE  ProcType' /\ \A q \in Procs : Knows(q)'
<1>1. ProcType
  BY DEF TypeOK, ProcType
<1>2. ASSUME NEW p \in Procs, Moved(p) PROVE ProcType' /\ \A q \in Procs : Knows(q)'
  BY <1>2 DEF Moved, Alone, Knows, Revising
<1>3. CASE UNCHANGED proc
  BY <1>1, <1>3 DEF ProcType, Knows, Revising
<1>4. Person => UNCHANGED proc
  BY DEF Person, Comment, Ask, PushCommit, Close, Clear, Unlock
<1> QED
  BY <1>2, <1>3, <1>4, StepMoves, OutsideMoves DEF Next, vars
-----------------------------------------------------------------------------
(***************************************************************************)
(* What a step does to the branches and workspaces, whichever action it is *)
(* of.                                                                     *)
(***************************************************************************)
branchVars == <<remote, workVars, treeVars>>

\* Where a process counts on something of the branches.
Counting == { "remove", "save", "add", "squash", "force" }

\* It goes on to where it counts on nothing.
Free(p) == proc'[p].pc \notin Counting

Quiet(p) ==
  /\ Free(p) \/ (proc'[p].pc = proc[p].pc /\ proc'[p].leased = proc[p].leased)
  /\ UNCHANGED branchVars

Fetched(p) ==
  /\ proc'[p].pc = "remove"
  /\ FetchBranch(remote) /\ UNCHANGED <<remote, workVars>>

\* The directory is gone, and the registration too, or not.
Removed(p) ==
  /\ Free(p) \/ (proc[p].pc = "remove" /\ proc'[p].pc = "save")
  /\ RemoveTree(proc[p].key) \/ RemoveTreeCutShort(proc[p].key)
  /\ UNCHANGED <<remote, workVars>>

Saved(p) ==
  /\ proc[p].pc = "save" /\ proc'[p].pc = "add"
  /\ BackUpAttempt /\ UNCHANGED <<remote, workVars>>

\* The branch is moved to what was fetched, and it is checked out, or not.
Reset(p) ==
  /\ proc[p].pc = "add" /\ Free(p)
  /\ Addable(proc[p].key)
  /\ local' = tracked
  /\ tree' = tree \/ \E d \in Directory : tree' = [tree EXCEPT ![proc[p].key] = d]
  /\ UNCHANGED <<tracked, saved, remote, workVars>>

Committed(p) ==
  /\ proc[p].pc = "revise" /\ Free(p) /\ InDir(p) /\ made < MaxWork
  /\ made' = made + 1
  /\ \E fix \in BOOLEAN : local' = Append(local, [work |-> {made + 1}, fix |-> fix])
  /\ bare' = IF Exposing(p) THEN bare \cup {made + 1} ELSE bare
  /\ UNCHANGED <<tree, tracked, saved, remote>>

\* The branch on the remote is the clone's, and known to be, or not.
Published ==
  /\ local # NoBranch
  /\ remote' = local /\ tracked' \in {local, tracked}
  /\ UNCHANGED <<workVars, tree, local, saved>>

Pushed(p) ==
  /\ proc[p].pc = "push" /\ Free(p) /\ InDir(p) /\ IsPrefix(remote, local) /\ Published

Leased(p) ==
  /\ proc[p].pc = "head" /\ InDir(p)
  /\ proc'[p].pc = "squash" /\ proc'[p].leased = local
  /\ UNCHANGED branchVars

Squashed(p) ==
  /\ proc[p].pc = "squash" /\ InDir(p)
  /\ Free(p) \/ (proc'[p].pc = "force" /\ proc'[p].leased = proc[p].leased)
  /\ local' = Fold(local)
  /\ UNCHANGED <<tree, tracked, saved, remote, workVars>>

Forced(p) ==
  /\ proc[p].pc = "force" /\ Free(p) /\ InDir(p) /\ remote = proc[p].leased /\ Published

Effect(p) ==
  \/ Quiet(p) \/ Fetched(p) \/ Removed(p) \/ Saved(p) \/ Reset(p) \/ Committed(p)
  \/ Pushed(p) \/ Leased(p) \/ Squashed(p) \/ Forced(p)

\* Where a process can go that breaks, or leaves a commit, a push or a fold behind.
LEMMA BreakFrees ==
  ASSUME ProcType, NEW p \in Procs, Break(p)
  PROVE  Free(p)
BY BreakFields DEF Free, Counting

\* So is one that goes on to a call for which it counts on nothing.
LEMMA GotoFrees ==
  ASSUME ProcType, NEW p \in Procs, NEW next \in Steps \ Counting, Goto(p, next)
  PROVE  Free(p)
BY GotoFields DEF Free

\* The actions on the workspace.
LEMMA WorkspaceEffects ==
  ASSUME TypeOK, NEW p \in Procs,
         Fetch(p) \/ RemoveOld(p) \/ Save(p) \/ AddNew(p) \/ Release(p) \/ Kill(p)
  PROVE  Effect(p)
<1>1. ProcType /\ proc[p] \in ProcState
  BY DEF TypeOK, ProcType
<1>2. {"off", "remove", "save", "add", "revise", "log", "sorry", "labels"} \subseteq Steps
  BY DEF Steps
<1> USE <1>1 DEF Effect, branchVars
<1>3. ASSUME Break(p), UNCHANGED branchVars PROVE Quiet(p)
  BY <1>3, BreakFrees DEF Quiet
<1>4. CASE Fetch(p)
  <2>1. CASE Goto(p, "remove") /\ FetchBranch(remote) /\ UNCHANGED <<remote, workVars>>
    BY <1>2, <2>1, GotoFields DEF Fetched
  <2> QED
    BY <1>3, <1>4, <2>1 DEF Fetch, Prepare
<1>5. CASE RemoveOld(p)
  <2>1. CASE /\ Goto(p, "save") /\ RemoveTree(proc[p].key) /\ UNCHANGED <<remote, workVars>>
             /\ proc[p].pc = "remove"
    BY <1>2, <2>1, GotoFields DEF Removed
  <2> QED
    BY <1>3, <1>5, <2>1 DEF RemoveOld, Prepare
<1>6. CASE Save(p)
  <2>1. CASE /\ Goto(p, "add") /\ BackUpAttempt /\ UNCHANGED <<remote, workVars>>
             /\ proc[p].pc = "save"
    BY <1>2, <2>1, GotoFields DEF Saved
  <2> QED
    BY <1>3, <1>6, <2>1 DEF Save, Prepare
<1>7. ASSUME AddTree(proc[p].key) \/
               (Addable(proc[p].key) /\ local' = tracked /\ UNCHANGED <<tree, tracked, saved>>),
             Free(p), proc[p].pc = "add", UNCHANGED <<remote, workVars>>
      PROVE  Reset(p)
  <2>1. [known |-> TRUE, locked |-> FALSE, there |-> TRUE] \in Directory
    BY DEF Directory
  <2> QED
    BY <1>7, <2>1 DEF AddTree, Reset
<1>8. CASE AddNew(p)
  <2>1. ASSUME proc' = [proc EXCEPT ![p].pc = IF Revising(p) THEN "revise" ELSE "log",
                                    ![p].housed = TRUE]
        PROVE  Free(p)
    BY <2>1 DEF ProcType, ProcState, Free, Counting
  <2>2. CASE Free(p) /\ AddTree(proc[p].key)
    BY <1>7, <1>8, <2>2 DEF AddNew
  <2>3. CASE Break(p) /\ UNCHANGED treeVars
    BY <1>3, <1>8, <2>3 DEF AddNew
  <2>4. CASE /\ Break(p)
             /\ AddTree(proc[p].key) \/
                  (Addable(proc[p].key) /\ local' = tracked /\ UNCHANGED <<tree, tracked, saved>>)
    BY <1>7, <1>8, <2>4, BreakFrees DEF AddNew
  <2> QED
    BY <1>8, <2>1, <2>2, <2>3, <2>4 DEF AddNew
<1>9. CASE Release(p)
  <2>1. Free(p)
    <3>1. PICK next \in {"off", "sorry", "labels"} : Goto(p, next)
      BY <1>9 DEF Release
    <3> QED
      BY <1>2, <3>1, GotoFrees DEF Counting
  <2> QED
    BY <1>9, <2>1 DEF Release, Removed, Quiet
<1>10. CASE Kill(p)
  <2>1. Free(p)
    BY <1>2, <1>10, GotoFrees DEF Kill, Counting
  <2>2. CASE UNCHANGED treeVars
    BY <1>10, <2>1, <2>2 DEF Kill, Quiet
  <2>3. CASE proc[p].pc = "add" /\ AddTreeCutShort(proc[p].key)
    <3>1. \A there \in BOOLEAN : [known |-> TRUE, locked |-> TRUE, there |-> there] \in Directory
      BY DEF Directory
    <3> QED
      BY <1>10, <2>1, <2>3, <3>1 DEF Kill, AddTreeCutShort, Reset
  <2>4. CASE proc[p].pc \in {"remove", "release"} /\ RemoveTreeCutShort(proc[p].key)
    BY <1>10, <2>1, <2>4 DEF Kill, Removed
  <2> QED
    BY <1>10, <2>2, <2>3, <2>4 DEF Kill
<1> QED
  BY <1>4, <1>5, <1>6, <1>8, <1>9, <1>10

\* The actions on the branch.
LEMMA BranchEffects ==
  ASSUME TypeOK, NEW p \in Procs,
         Revise(p) \/ Push(p) \/ Log(p) \/ Lease(p) \/ Autosquash(p) \/ ForcePush(p)
  PROVE  Effect(p)
<1>1. ProcType /\ proc[p] \in ProcState
  BY DEF TypeOK, ProcType
<1>2. /\ {"push", "answer", "head", "release", "tell"} \subseteq Steps \ Counting
      /\ "force" \in Steps
  BY DEF Steps, Counting
<1> USE <1>1 DEF Effect, branchVars, treeVars
<1>3. ASSUME Break(p) PROVE Free(p)
  BY <1>3, BreakFrees
<1>4. CASE Revise(p)
  <2>1. Free(p)
    BY <1>2, <1>3, <1>4, GotoFrees DEF Revise
  <2> QED
    BY <1>4, <2>1 DEF Revise, Committed, Quiet
<1>5. CASE Push(p)
  <2>1. Free(p)
    BY <1>2, <1>3, <1>5, GotoFrees DEF Push
  <2> QED
    BY <1>5, <2>1 DEF Push, Pushed, Published, Quiet
<1>6. CASE Log(p)
  <2>1. Free(p)
    BY <1>2, <1>3, <1>6, GotoFrees DEF Log, Look
  <2> QED
    BY <1>6, <2>1 DEF Log, Look, Quiet
<1>7. CASE Lease(p)
  <2>1. CASE Break(p)
    BY <1>3, <1>7, <2>1 DEF Lease, Look, Quiet
  <2>2. CASE InDir(p) /\ proc' = [proc EXCEPT ![p].pc = "squash", ![p].leased = local]
    BY <1>7, <2>2 DEF Lease, Look, Leased, ProcType, ProcState
  <2> QED
    BY <1>7, <2>1, <2>2 DEF Lease, Look
<1>8. CASE Autosquash(p)
  <2>1. CASE (Break(p) \/ Goto(p, "tell")) /\ UNCHANGED local
    <3>1. Free(p)
      BY <1>2, <1>3, <2>1, GotoFrees
    <3> QED
      BY <1>8, <2>1, <3>1 DEF Autosquash, Quiet
  <2>2. CASE InDir(p) /\ local' = Fold(local) /\
             (Goto(p, "force") \/ Goto(p, "tell") \/ Break(p))
    <3>1. Free(p) \/ (proc'[p].pc = "force" /\ proc'[p].leased = proc[p].leased)
      BY <1>2, <1>3, <2>2, GotoFrees, GotoFields
    <3> QED
      BY <1>8, <2>2, <3>1 DEF Autosquash, Squashed
  <2> QED
    BY <1>8, <2>1, <2>2 DEF Autosquash
<1>9. CASE ForcePush(p)
  <2>1. Free(p)
    BY <1>2, <1>3, <1>9, GotoFrees DEF ForcePush
  <2> QED
    BY <1>9, <2>1 DEF ForcePush, Forced, Published, Quiet
<1> QED
  BY <1>4, <1>5, <1>6, <1>7, <1>8, <1>9

\* The actions on the conversation, a process's start and a first signal.
LEMMA QuietEffects ==
  ASSUME TypeOK, NEW p \in Procs,
         \/ Start(p) \/ Stop(p) \/ Pick(p) \/ Output(p) \/ Feedback(p) \/ ClaimFeedback(p)
         \/ Answer(p) \/ Sorry(p) \/ ReleaseFeedback(p) \/ Tell(p)
  PROVE  Effect(p)
<1>1. ProcType /\ proc[p] \in ProcState
  BY DEF TypeOK, ProcType
<1>2. {"off", "output", "feedback", "fetch", "labels", "release"} \subseteq Steps \ Counting
  BY DEF Steps, Counting
<1> USE <1>1 DEF Effect, branchVars, Quiet
<1>3. ASSUME Break(p) PROVE Free(p)
  BY <1>3, BreakFrees
<1>4. CASE Start(p)
  <2>1. PICK k \in Keys, first \in {"pick", "output"} :
          proc' = [proc EXCEPT ![p] = [Off EXCEPT !.pc = first, !.key = k]]
    BY <1>4 DEF Start
  <2>2. [Off EXCEPT !.pc = first, !.key = k].pc = first
    BY DEF Off
  <2>3. proc'[p] = [Off EXCEPT !.pc = first, !.key = k]
    BY <2>1 DEF ProcType
  <2> QED
    BY <1>4, <2>2, <2>3 DEF Start, Free, Counting
<1>5. CASE Stop(p)
  BY <1>5 DEF Stop, ProcType, ProcState
<1>6. CASE Pick(p)
  BY <1>2, <1>6, GotoFrees DEF Pick
<1>7. CASE Output(p)
  <2>1. PICK next \in {"feedback", "fetch", "off"} : Goto(p, next)
    BY <1>7 DEF Output
  <2> QED
    BY <1>2, <1>7, <2>1, GotoFrees DEF Output
<1>8. CASE Feedback(p)
  <2>1. ASSUME NEW next \in {"claim", "answer"},
               proc' = [proc EXCEPT ![p].pc = next, ![p].read = Newest]
        PROVE  Free(p)
    BY <2>1 DEF ProcType, ProcState, Free, Counting
  <2> QED
    BY <1>3, <1>8, <2>1 DEF Feedback
<1>9. CASE ClaimFeedback(p)
  BY <1>2, <1>3, <1>9, GotoFrees DEF ClaimFeedback
<1>10. CASE Answer(p)
  <2>1. AfterAnswer(p) \in {"release", "labels"}
    BY DEF AfterAnswer
  <2>2. ASSUME Done(p, AfterAnswer(p), FALSE) PROVE Free(p)
    <3>1. AfterAnswer(p) \in Steps
      BY <1>2, <2>1
    <3>2. proc'[p].pc = AfterAnswer(p)
      BY <2>2, <3>1, DoneFields
    <3> QED
      BY <1>2, <2>1, <3>2 DEF Free
  <2> QED
    BY <1>3, <1>10, <2>2 DEF Answer
<1>11. CASE Sorry(p)
  BY <1>2, <1>11, GotoFrees DEF Sorry
<1>12. CASE ReleaseFeedback(p)
  BY <1>2, <1>12, GotoFrees DEF ReleaseFeedback
<1>13. CASE Tell(p)
  <2>1. PICK broke \in BOOLEAN : Done(p, "release", broke)
    BY <1>13 DEF Tell
  <2>2. Free(p)
    BY <1>2, <2>1, DoneFields DEF Free
  <2> QED
    BY <1>13, <2>2 DEF Tell
<1> QED
  BY <1>4, <1>5, <1>6, <1>7, <1>8, <1>9, <1>10, <1>11, <1>12, <1>13

\* Everything that can happen to the branches.
LEMMA Effects ==
  ASSUME TypeOK, \A q \in Procs : Knows(q), [Next]_vars
  PROVE  \/ \E p \in Procs : Alone(p) /\ Effect(p)
         \/ UNCHANGED <<proc, branchVars>>
         \/ PushCommit
         \/ \E k \in Keys : Unlock(k)
<1>1. ASSUME NEW p \in Procs, Start(p) \/ Step(p) \/ Stop(p) \/ Kill(p)
      PROVE  Alone(p) /\ Effect(p)
  <2>1. Alone(p)
    BY <1>1, StepMoves, OutsideMoves DEF Moved
  <2>2. Effect(p)
    BY <1>1, WorkspaceEffects, BranchEffects, QuietEffects DEF Step
  <2> QED
    BY <2>1, <2>2
<1>2. CASE Comment \/ Ask \/ Close \/ Clear \/ UNCHANGED vars
  BY <1>2 DEF Comment, Ask, Close, Clear, vars, branchVars, workVars, treeVars
<1> QED
  BY <1>1, <1>2 DEF Next, Person
-----------------------------------------------------------------------------
(***************************************************************************)
(* No change to the branch is lost.                                        *)
(***************************************************************************)
\* What a process counts on is not changed by the steps of another, nor by one that goes
\* on to where it counts on nothing.
LEMMA Uncounted ==
  ASSUME NEW p \in Procs, Alone(p), Free(p), NEW q \in Procs, proc'[q].pc \in Counting
  PROVE  q # p /\ proc'[q] = proc[q]
BY DEF Alone, Free

\* In a workspace git works in there is a branch.
LEMMA InBranch ==
  ASSUME Checkouts, TypeOK, NEW p \in Procs, InDir(p)
  PROVE  WellMade(local) /\ tree[proc[p].key].known /\ proc[p].key \in Keys
BY DEF Checkouts, InDir, Workable, TypeOK, ProcState

\* The changes are numbered, and what is kept of them is of those.
LEMMA BranchTypes ==
  ASSUME TypeOK, Checkouts, NEW p \in Procs, Effect(p)
  PROVE  /\ made' \in 0..MaxWork /\ bare' \subseteq Changes
         /\ tree' \in [Keys -> Directory] /\ saved' \subseteq Changes
<1> USE DEF TypeOK, branchVars, workVars, treeVars
<1>1. CASE Quiet(p) \/ Leased(p) \/ Fetched(p) \/ Squashed(p) \/ Pushed(p) \/ Forced(p)
  BY <1>1 DEF Quiet, Leased, Fetched, FetchBranch, Squashed, Pushed, Forced, Published
<1>2. CASE Removed(p)
  <2>1. proc[p].key \in Keys /\ Nothing \in Directory
    BY DEF ProcState, Nothing, Directory
  <2>2. tree[proc[p].key] \in Directory
    BY <2>1
  <2>3. [tree[proc[p].key] EXCEPT !.there = FALSE] \in Directory
    BY <2>2 DEF Directory
  <2> QED
    BY <1>2, <2>1, <2>3 DEF Removed, RemoveTree, RemoveTreeCutShort
<1>3. CASE Saved(p)
  <2>1. local # NoBranch => Work(local) \subseteq Changes
    BY Parts DEF Checkouts, WellMade
  <2> QED
    BY <1>3, <2>1 DEF Saved, BackUpAttempt
<1>4. CASE Reset(p)
  BY <1>4 DEF Reset
<1>5. CASE Committed(p)
  <2>1. made + 1 \in Changes /\ made + 1 \in 0..MaxWork
    BY <1>5, ReviewAssumption DEF Committed, Changes
  <2> QED
    BY <1>5, <2>1 DEF Committed
<1> QED
  BY <1>1, <1>2, <1>3, <1>4, <1>5 DEF Effect

\* The commit of a change that was not made before.
LEMMA NewCommit ==
  ASSUME TypeOK, made < MaxWork, NEW fix \in BOOLEAN
  PROVE  [work |-> {made + 1}, fix |-> fix] \in Commits /\ made + 1 \in Changes
BY ReviewAssumption DEF TypeOK, Commits, Changes

\* Every step leaves one branch in one place.
LEMMA CheckoutsEffect ==
  ASSUME TypeOK, \A q \in Procs : Knows(q), Checkouts, NEW p \in Procs, Alone(p), Effect(p)
  PROVE  Checkouts'
<1>1. /\ WellMade(remote)
      /\ local = NoBranch \/ WellMade(local)
      /\ tracked = NoBranch \/ WellMade(tracked)
      /\ \A k \in Keys : tree[k].known => local # NoBranch
      /\ \A j, k \in Keys : tree[j].known /\ tree[k].known => j = k
      /\ \A q \in Procs : proc[q].pc \in {"remove", "save", "add"} => tracked # NoBranch
      /\ \A q \in Procs : proc[q].pc \in {"squash", "force"} => proc[q].leased \in Branches
  BY DEF Checkouts
<1>2. tree \in [Keys -> Directory] /\ proc[p].key \in Keys
  BY DEF TypeOK, ProcState
<1>3. \A b : WellMade(b) => b # NoBranch /\ b \in Branches
  BY ReviewAssumption DEF WellMade
<1> USE DEF Counting
<1>4. CASE Quiet(p)
  <2>1. ASSUME NEW q \in Procs, proc'[q].pc \in Counting
        PROVE  proc'[q].pc = proc[q].pc /\ proc'[q].leased = proc[q].leased
    BY <1>4, <2>1, Uncounted DEF Quiet, Alone
  <2>2. UNCHANGED <<remote, local, tracked, tree>>
    BY <1>4 DEF Quiet, branchVars, treeVars
  <2> QED
    BY <1>1, <2>1, <2>2 DEF Checkouts, WellMade
<1>5. CASE Fetched(p)
  <2>1. UNCHANGED <<remote, local, tree>> /\ tracked' = remote
    BY <1>5 DEF Fetched, FetchBranch
  <2>2. \A q \in Procs : proc'[q].pc \in {"squash", "force"} => proc'[q] = proc[q]
    BY <1>5 DEF Fetched, Alone
  <2> QED
    BY <1>1, <1>3, <2>1, <2>2 DEF Checkouts, WellMade
<1>6. CASE Removed(p)
  <2>1. UNCHANGED <<remote, local, tracked>>
    BY <1>6 DEF Removed, RemoveTree, RemoveTreeCutShort
  <2>2. \A k \in Keys : tree'[k].known => tree[k].known
    BY <1>2, <1>6 DEF Removed, RemoveTree, RemoveTreeCutShort, Nothing, Directory
  <2>3. /\ \A q \in Procs : proc'[q].pc \in {"remove", "save", "add"} =>
             proc[q].pc \in {"remove", "save", "add"}
        /\ \A q \in Procs : proc'[q].pc \in {"squash", "force"} => proc'[q] = proc[q]
    BY <1>6, Uncounted DEF Removed, Alone
  <2> QED
    BY <1>1, <2>1, <2>2, <2>3 DEF Checkouts, WellMade
<1>7. CASE Saved(p)
  <2>1. UNCHANGED <<remote, local, tracked, tree>>
    BY <1>7 DEF Saved, BackUpAttempt
  <2>2. /\ \A q \in Procs : proc'[q].pc \in {"remove", "save", "add"} =>
             proc[q].pc \in {"remove", "save", "add"}
        /\ \A q \in Procs : proc'[q].pc \in {"squash", "force"} => proc'[q] = proc[q]
    BY <1>7, Uncounted DEF Saved, Alone
  <2> QED
    BY <1>1, <2>1, <2>2 DEF Checkouts, WellMade
<1>8. CASE Reset(p)
  <2>1. UNCHANGED <<remote, tracked>> /\ local' = tracked /\ tracked # NoBranch
    BY <1>1, <1>8 DEF Reset
  <2>2. \A q \in Procs : proc'[q].pc \in Counting => proc'[q] = proc[q]
    BY <1>8, Uncounted DEF Reset
  <2>3. \A j \in Keys : tree'[j].known => j = proc[p].key \/ tree[j].known
    BY <1>2, <1>8 DEF Reset
  <2>4. \A j \in Keys : ~tree[j].known
    BY <1>8 DEF Reset, Addable
  <2> QED
    BY <1>1, <2>1, <2>2, <2>3, <2>4 DEF Checkouts, WellMade
<1>9. CASE Committed(p)
  <2>1. UNCHANGED <<remote, tracked, tree>> /\ WellMade(local)
    BY <1>9, InBranch DEF Committed
  <2>2. PICK fix \in BOOLEAN : local' = Append(local, [work |-> {made + 1}, fix |-> fix])
    BY <1>9 DEF Committed
  <2>3. WellMade(local')
    BY <1>9, <2>1, <2>2, NewCommit, AppendKeeps DEF Committed
  <2>4. \A q \in Procs : proc'[q].pc \in Counting => proc'[q] = proc[q]
    BY <1>9, Uncounted DEF Committed
  <2> QED
    BY <1>1, <1>3, <2>1, <2>3, <2>4 DEF Checkouts, WellMade
<1>10. CASE Pushed(p) \/ Forced(p)
  <2>1. /\ UNCHANGED <<local, tree>> /\ local # NoBranch
        /\ remote' = local /\ tracked' \in {local, tracked}
    BY <1>10 DEF Pushed, Forced, Published
  <2>2. \A q \in Procs : proc'[q].pc \in Counting => proc'[q] = proc[q]
    BY <1>10, Uncounted DEF Pushed, Forced
  <2> QED
    BY <1>1, <2>1, <2>2 DEF Checkouts, WellMade
<1>11. CASE Leased(p)
  <2>1. UNCHANGED <<remote, local, tracked, tree>> /\ WellMade(local)
    BY <1>11, InBranch DEF Leased, branchVars, treeVars
  <2>2. /\ \A q \in Procs : proc'[q].pc \in {"remove", "save", "add"} => proc'[q] = proc[q]
        /\ \A q \in Procs : proc'[q].pc \in {"squash", "force"} =>
             proc'[q] = proc[q] \/ proc'[q].leased = local
    BY <1>11 DEF Leased, Alone
  <2> QED
    BY <1>1, <1>3, <2>1, <2>2 DEF Checkouts, WellMade
<1>12. CASE Squashed(p)
  <2>1. UNCHANGED <<remote, tracked, tree>> /\ WellMade(local) /\ local' = Fold(local)
    BY <1>12, InBranch DEF Squashed
  <2>2. WellMade(local')
    BY <2>1, FoldKeeps
  <2>3. /\ \A q \in Procs : proc'[q].pc \in {"remove", "save", "add"} => proc'[q] = proc[q]
        /\ \A q \in Procs : proc'[q].pc \in {"squash", "force"} =>
             proc[q].pc \in {"squash", "force"} /\ proc'[q].leased = proc[q].leased
    BY <1>12, Uncounted DEF Squashed, Alone
  <2> QED
    BY <1>1, <1>3, <2>1, <2>2, <2>3 DEF Checkouts, WellMade
<1> QED
  BY <1>4, <1>5, <1>6, <1>7, <1>8, <1>9, <1>10, <1>11, <1>12 DEF Effect

\* In a tidy's workspace it is the output's branch that is checked out; in a revision's
\* it is not.
LEMMA WhoseWorkspace ==
  ASSUME TypeOK, \A q \in Procs : Knows(q), Checkouts, NEW p \in Procs, InDir(p)
  PROVE  /\ proc[p].pc \in TidyOnly => tree["output"].known
         /\ proc[p].pc \in RevisionOnly => ~tree["output"].known
<1>1. tree[proc[p].key].known /\ proc[p].key \in Keys /\ Keys = {"task", "output"}
  BY InBranch, ReviewAssumption
<1>2. /\ proc[p].pc \in TidyOnly => proc[p].key = "output"
      /\ proc[p].pc \in RevisionOnly => proc[p].key = "task"
  BY <1>1 DEF Knows, Revising
<1>3. \A j, k \in Keys : tree[j].known /\ tree[k].known => j = k
  BY DEF Checkouts
<1>4. ASSUME proc[p].key = "task" PROVE ~tree["output"].known
  <2>1. "task" \in Keys /\ "output" \in Keys /\ "task" # "output"
    BY <1>1
  <2> QED
    BY <1>1, <1>3, <1>4, <2>1
<1> QED
  BY <1>1, <1>2, <1>4

\* A push, forced or not, sends every change that it replaces.  One that is forced sends
\* none besides.
LEMMA PublishKeeps ==
  ASSUME TypeOK, \A q \in Procs : Knows(q), Checkouts, Descent, NEW p \in Procs,
         Pushed(p) \/ Forced(p)
  PROVE  /\ Work(remote) \subseteq Work(local)
         /\ Forced(p) => Work(local) = Work(remote)
<1>1. CASE Pushed(p)
  <2>1. remote \in Branches /\ local \in Branches /\ IsPrefix(remote, local)
    BY <1>1 DEF Pushed, Published, Checkouts, WellMade
  <2>2. proc[p].pc = "push"
    BY <1>1 DEF Pushed
  <2>3. ~Forced(p)
    BY <2>2 DEF Forced
  <2> QED
    BY <2>1, <2>3, PrefixWork
<1>2. CASE Forced(p)
  <2>1. proc[p].pc = "force" /\ InDir(p) /\ remote = proc[p].leased
    BY <1>2 DEF Forced
  <2>2. tree["output"].known
    BY <2>1, WhoseWorkspace DEF TidyOnly
  <2>3. Work(remote) \subseteq Work(local) /\ Work(local) \subseteq Work(tracked)
    BY <2>1, <2>2 DEF Descent
  <2>4. Work(tracked) \subseteq Work(remote)
    BY DEF Descent
  <2> QED
    BY <2>3, <2>4
<1> QED
  BY <1>1, <1>2

\* Every step keeps what is known of whose changes are whose.
LEMMA DescentEffect ==
  ASSUME TypeOK, \A q \in Procs : Knows(q), Checkouts, Descent,
         NEW p \in Procs, Alone(p), Effect(p)
  PROVE  Descent'
<1>1. /\ Work(remote) \subseteq 1..made /\ Work(local) \subseteq 1..made
      /\ Work(tracked) \subseteq Work(remote)
      /\ tree["output"].known => Work(local) \subseteq Work(tracked)
      /\ \A q \in Procs : proc[q].pc \in {"squash", "force"} =>
           /\ Work(proc[q].leased) \subseteq Work(tracked)
           /\ tree["output"].known => Work(proc[q].leased) \subseteq Work(local)
  BY DEF Descent
<1>2. tree \in [Keys -> Directory] /\ proc[p].key \in Keys /\ "output" \in Keys /\ made \in Nat
  BY ReviewAssumption DEF TypeOK, ProcState
<1>3. \A b : Work(b)' = Work(b)
  BY DEF Work
<1> USE DEF Counting
<1>4. ASSUME UNCHANGED <<remote, local, tracked, tree, made>>,
             \A q \in Procs : proc'[q].pc \in {"squash", "force"} =>
               proc[q].pc \in {"squash", "force"} /\ proc'[q].leased = proc[q].leased
      PROVE  Descent'
  BY <1>1, <1>4 DEF Descent, Work
<1>5. CASE Quiet(p)
  <2>1. UNCHANGED <<remote, local, tracked, tree, made>>
    BY <1>5 DEF Quiet, branchVars, treeVars, workVars
  <2> QED
    BY <1>4, <1>5, <2>1, Uncounted DEF Quiet, Alone
<1>6. CASE Saved(p)
  <2>1. UNCHANGED <<remote, local, tracked, tree, made>>
    BY <1>6 DEF Saved, BackUpAttempt, workVars
  <2> QED
    BY <1>4, <1>6, <2>1 DEF Saved, Alone
<1>7. CASE Fetched(p)
  <2>1. UNCHANGED <<remote, local, tree, made>> /\ tracked' = remote
    BY <1>7 DEF Fetched, FetchBranch, workVars
  <2>2. \A q \in Procs : proc'[q].pc \in {"squash", "force"} => proc'[q] = proc[q]
    BY <1>7 DEF Fetched, Alone
  <2> QED
    BY <1>1, <2>1, <2>2 DEF Descent, Work
<1>8. CASE Removed(p)
  <2>1. UNCHANGED <<remote, local, tracked, made>>
    BY <1>8 DEF Removed, RemoveTree, RemoveTreeCutShort, workVars
  <2>2. tree'["output"].known => tree["output"].known
    BY <1>2, <1>8 DEF Removed, RemoveTree, RemoveTreeCutShort, Nothing, Directory
  <2>3. \A q \in Procs : proc'[q].pc \in {"squash", "force"} => proc'[q] = proc[q]
    BY <1>8, Uncounted DEF Removed, Alone
  <2> QED
    BY <1>1, <2>1, <2>2, <2>3 DEF Descent, Work
<1>9. CASE Reset(p)
  <2>1. UNCHANGED <<remote, tracked, made>> /\ local' = tracked
    BY <1>9 DEF Reset, workVars
  <2>2. \A q \in Procs : proc'[q].pc \in Counting => proc'[q] = proc[q]
    BY <1>9, Uncounted DEF Reset
  <2> QED
    BY <1>1, <2>1, <2>2 DEF Descent, Work
<1>10. CASE Committed(p)
  <2>1. UNCHANGED <<remote, tracked, tree>> /\ WellMade(local) /\ made' = made + 1
    BY <1>10, InBranch DEF Committed
  <2>2. PICK fix \in BOOLEAN : local' = Append(local, [work |-> {made + 1}, fix |-> fix])
    BY <1>10 DEF Committed
  <2>3. Work(local') = Work(local) \cup {made + 1}
    BY <1>10, <2>1, <2>2, NewCommit, AppendKeeps DEF Committed
  <2>4. ~tree["output"].known
    BY <1>10, WhoseWorkspace DEF Committed, RevisionOnly
  <2>5. \A q \in Procs : proc'[q].pc \in Counting => proc'[q] = proc[q]
    BY <1>10, Uncounted DEF Committed
  <2>6. Work(remote) \cup Work(local') \subseteq 1..(made + 1)
    BY <1>1, <1>2, <2>3
  <2> QED
    BY <1>1, <1>3, <2>1, <2>4, <2>5, <2>6 DEF Descent
<1>11. CASE Pushed(p) \/ Forced(p)
  <2>1. /\ UNCHANGED <<local, tree, made>>
        /\ remote' = local /\ tracked' \in {local, tracked}
    BY <1>11 DEF Pushed, Forced, Published, workVars
  <2>2. \A q \in Procs : proc'[q].pc \in Counting => proc'[q] = proc[q]
    BY <1>11, Uncounted DEF Pushed, Forced
  <2>3. Work(remote) \subseteq Work(local)
    BY <1>11, PublishKeeps
  <2>4. CASE tracked' = local
    BY <1>1, <2>1, <2>2, <2>3, <2>4 DEF Descent, Work
  <2>5. CASE tracked' = tracked
    BY <1>1, <2>1, <2>2, <2>3, <2>5 DEF Descent, Work
  <2> QED
    BY <2>1, <2>4, <2>5
<1>12. CASE Leased(p)
  <2>1. UNCHANGED <<remote, local, tracked, tree, made>>
    BY <1>12 DEF Leased, branchVars, treeVars, workVars
  <2>2. tree["output"].known
    BY <1>12, WhoseWorkspace DEF Leased, TidyOnly
  <2>3. \A q \in Procs : proc'[q].pc \in {"squash", "force"} =>
          proc'[q] = proc[q] \/ proc'[q].leased = local
    BY <1>12 DEF Leased, Alone
  <2> QED
    BY <1>1, <2>1, <2>2, <2>3 DEF Descent, Work
<1>13. CASE Squashed(p)
  <2>1. UNCHANGED <<remote, tracked, tree, made>> /\ WellMade(local) /\ local' = Fold(local)
    BY <1>13, InBranch DEF Squashed, workVars
  <2>2. Work(local') = Work(local)
    BY <2>1, FoldKeeps
  <2>3. \A q \in Procs : proc'[q].pc \in {"squash", "force"} =>
          proc[q].pc \in {"squash", "force"} /\ proc'[q].leased = proc[q].leased
    BY <1>13, Uncounted DEF Squashed, Alone
  <2> QED
    BY <1>1, <1>3, <2>1, <2>2, <2>3 DEF Descent
<1> QED
  BY <1>5, <1>6, <1>7, <1>8, <1>9, <1>10, <1>11, <1>12, <1>13 DEF Effect

\* Branches that there were are as like as they were.
LEMMA CoherentAmong ==
  ASSUME Coherent, {remote', local', tracked'} \subseteq {remote, local, tracked, NoBranch}
  PROVE  Coherent'
<1>1. ASSUME NEW a \in {remote', local', tracked'} \ {NoBranch},
             NEW b \in {remote', local', tracked'} \ {NoBranch}, Work(a) = Work(b)
      PROVE  Fold(a) = Fold(b)
  BY <1>1 DEF Coherent
<1>2. \A b : Work(b)' = Work(b) /\ Fold(b)' = Fold(b)
  BY DEF Work, Fold, Place
<1> QED
  BY <1>1, <1>2 DEF Coherent

\* A branch with a new change is like no other.
LEMMA CoherentGrown ==
  ASSUME Coherent, TypeOK, Descent, NEW new, made + 1 \in Work(new),
         {remote', local', tracked'} \subseteq {remote, local, tracked, new}
  PROVE  Coherent'
<1>1. made + 1 \notin Work(remote) \cup Work(local) \cup Work(tracked)
  BY ReviewAssumption DEF Descent, TypeOK
<1>2. ASSUME NEW a \in {remote', local', tracked'} \ {NoBranch},
             NEW b \in {remote', local', tracked'} \ {NoBranch}, Work(a) = Work(b)
      PROVE  Fold(a) = Fold(b)
  <2>1. CASE a = new \/ b = new
    BY <1>1, <1>2, <2>1
  <2>2. CASE a # new /\ b # new
    BY <1>2, <2>2 DEF Coherent
  <2> QED
    BY <2>1, <2>2
<1>3. \A b : Work(b)' = Work(b) /\ Fold(b)' = Fold(b)
  BY DEF Work, Fold, Place
<1> QED
  BY <1>2, <1>3 DEF Coherent

\* Every step keeps branches of the same changes alike.
LEMMA CoherentEffect ==
  ASSUME TypeOK, Checkouts, Descent, Coherent, NEW p \in Procs, Effect(p)
  PROVE  Coherent'
<1>1. CASE \/ Quiet(p) \/ Fetched(p) \/ Removed(p) \/ Saved(p) \/ Reset(p) \/ Leased(p)
           \/ Pushed(p) \/ Forced(p)
  <2>1. {remote', local', tracked'} \subseteq {remote, local, tracked, NoBranch}
    BY <1>1 DEF Quiet, Fetched, FetchBranch, Removed, RemoveTree, RemoveTreeCutShort, Saved,
       BackUpAttempt, Reset, Leased, Pushed, Forced, Published, branchVars, treeVars
  <2> QED
    BY <2>1, CoherentAmong
<1>2. CASE Committed(p)
  <2>1. PICK fix \in BOOLEAN : local' = Append(local, [work |-> {made + 1}, fix |-> fix])
    BY <1>2 DEF Committed
  <2>2. WellMade(local)
    BY <1>2, InBranch DEF Committed
  <2>3. made + 1 \in Work(local')
    BY <1>2, <2>1, <2>2, NewCommit, AppendKeeps DEF Committed
  <2> QED
    BY <1>2, <2>3, CoherentGrown DEF Committed
<1>3. CASE Squashed(p)
  <2>1. UNCHANGED <<remote, tracked>> /\ WellMade(local) /\ local' = Fold(local)
    BY <1>3, InBranch DEF Squashed
  <2>2. Work(local') = Work(local) /\ Fold(local') = Fold(local) /\ local # NoBranch
    BY <2>1, FoldKeeps, FoldTwice, ReviewAssumption DEF WellMade
  <2>3. ASSUME NEW b \in {remote, tracked} \ {NoBranch}, Work(local) = Work(b)
        PROVE  Fold(local) = Fold(b)
    BY <2>2, <2>3 DEF Coherent
  <2>4. \A b : Work(b)' = Work(b) /\ Fold(b)' = Fold(b)
    BY DEF Work, Fold, Place
  <2>5. \A a, b \in {remote, tracked} \ {NoBranch} : Work(a) = Work(b) => Fold(a) = Fold(b)
    BY DEF Coherent
  <2> QED
    BY <2>1, <2>2, <2>3, <2>4, <2>5 DEF Coherent
<1> QED
  BY <1>1, <1>2, <1>3 DEF Effect

\* A step that leaves the branches as they are, and nobody newly about to reset, or makes
\* only more of what is kept.
LEMMA KeptBefore ==
  ASSUME WorkIsKept, BackedUp, UNCHANGED <<made, bare>>,
         (\E q \in Procs : proc'[q].pc = "add") => \E q \in Procs : proc[q].pc = "add",
         Work(local)' = Work(local), Work(remote) \subseteq Work(remote)',
         saved \subseteq saved'
  PROVE  WorkIsKept' /\ BackedUp'
BY DEF WorkIsKept, BackedUp

\* Every step keeps what was made: on the remote, on the clone's branch, or saved.
LEMMA KeptEffect ==
  ASSUME TypeOK, \A q \in Procs : Knows(q), Checkouts, Descent, WorkIsKept, BackedUp,
         NEW p \in Procs, Alone(p), Effect(p)
  PROVE  WorkIsKept' /\ BackedUp'
<1>1. /\ 1..made \ bare \subseteq Work(remote) \cup Work(local) \cup saved
      /\ \A q \in Procs : proc[q].pc = "add" => Work(local) \ bare \subseteq saved \cup Work(remote)
      /\ Work(tracked) \subseteq Work(remote)
      /\ made \in Nat
  BY ReviewAssumption DEF WorkIsKept, BackedUp, Descent, TypeOK
<1>2. \A b : Work(b)' = Work(b)
  BY DEF Work
<1>3. Work(local)' = Work(local') /\ Work(remote)' = Work(remote')
  BY DEF Work
<1> USE DEF Counting
<1>4. CASE Quiet(p)
  <2>1. UNCHANGED <<remote, local, saved, made, bare>>
    BY <1>4 DEF Quiet, branchVars, treeVars, workVars
  <2>2. ASSUME NEW q \in Procs, proc'[q].pc = "add" PROVE proc[q].pc = "add"
    BY <1>4, <2>2, Uncounted DEF Quiet, Alone
  <2> QED
    BY <1>3, <2>1, <2>2, KeptBefore
<1>5. CASE Fetched(p) \/ Removed(p) \/ Leased(p)
  <2>1. UNCHANGED <<remote, local, saved, made, bare>>
    BY <1>5 DEF Fetched, FetchBranch, Removed, RemoveTree, RemoveTreeCutShort, Leased,
       branchVars, treeVars, workVars
  <2>2. ASSUME NEW q \in Procs, proc'[q].pc = "add" PROVE proc[q].pc = "add"
    BY <1>5, <2>2, Uncounted DEF Fetched, Removed, Leased, Alone
  <2> QED
    BY <1>3, <2>1, <2>2, KeptBefore
<1>6. CASE Saved(p)
  <2>1. UNCHANGED <<remote, local, made, bare>> /\ saved \subseteq saved'
    BY <1>6 DEF Saved, BackUpAttempt, workVars
  <2>2. Work(local) \subseteq saved' \cup Work(remote)
    <3>1. CASE local = NoBranch
      BY <3>1 DEF Work
    <3>2. CASE local # NoBranch /\ IsPrefix(local, tracked)
      <4>1. local \in Branches /\ tracked \in Branches
        BY <1>6, <3>2 DEF Saved, Checkouts, WellMade
      <4> QED
        BY <1>1, <3>2, <4>1, PrefixWork
    <3>3. CASE local # NoBranch /\ ~IsPrefix(local, tracked)
      BY <1>6, <3>3 DEF Saved, BackUpAttempt
    <3> QED
      BY <3>1, <3>2, <3>3
  <2> QED
    BY <1>1, <1>3, <2>1, <2>2 DEF WorkIsKept, BackedUp
<1>7. CASE Reset(p)
  <2>1. UNCHANGED <<remote, saved, made, bare>> /\ local' = tracked /\ proc[p].pc = "add"
    BY <1>7 DEF Reset, workVars
  <2> QED
    BY <1>1, <1>3, <2>1 DEF WorkIsKept, BackedUp
<1>8. CASE Committed(p)
  <2>1. UNCHANGED <<remote, saved>> /\ WellMade(local) /\ made' = made + 1
    BY <1>8, InBranch DEF Committed
  <2>2. PICK fix \in BOOLEAN : local' = Append(local, [work |-> {made + 1}, fix |-> fix])
    BY <1>8 DEF Committed
  <2>3. Work(local') = Work(local) \cup {made + 1}
    BY <1>8, <2>1, <2>2, NewCommit, AppendKeeps DEF Committed
  <2>4. bare \subseteq bare'
    BY <1>8 DEF Committed
  <2>5. WorkIsKept'
    BY <1>1, <1>3, <2>1, <2>3, <2>4 DEF WorkIsKept
  <2>6. ASSUME NEW q \in Procs, proc'[q].pc = "add"
        PROVE  Work(local') \ bare' \subseteq saved \cup Work(remote)
    <3>1. q # p /\ proc[q].pc = "add"
      BY <1>8, <2>6, Uncounted DEF Committed
    <3>2. bare' = bare \cup {made + 1}
      BY <1>8, <3>1 DEF Committed, Exposing
    <3> QED
      BY <1>1, <2>3, <3>1, <3>2
  <2> QED
    BY <1>3, <2>1, <2>5, <2>6 DEF BackedUp
<1>9. CASE Pushed(p) \/ Forced(p)
  <2>1. UNCHANGED <<local, saved, made, bare>> /\ remote' = local
    BY <1>9 DEF Pushed, Forced, Published, workVars
  <2>2. Work(remote) \subseteq Work(local)
    BY <1>9, PublishKeeps
  <2> QED
    BY <1>1, <1>3, <2>1, <2>2 DEF WorkIsKept, BackedUp
<1>10. CASE Squashed(p)
  <2>1. UNCHANGED <<remote, saved, made, bare>> /\ WellMade(local) /\ local' = Fold(local)
    BY <1>10, InBranch DEF Squashed, workVars
  <2>2. Work(local') = Work(local)
    BY <2>1, FoldKeeps
  <2>3. ASSUME NEW q \in Procs, proc'[q].pc = "add" PROVE proc[q].pc = "add"
    BY <1>10, <2>3, Uncounted DEF Squashed, Alone
  <2> QED
    BY <1>3, <2>1, <2>2, <2>3, KeptBefore
<1> QED
  BY <1>4, <1>5, <1>6, <1>7, <1>8, <1>9, <1>10 DEF Effect

\* Someone's own commit, from another clone, only adds.
LEMMA PushCommitKeeps ==
  ASSUME TypeOK, Checkouts, Descent, Coherent, WorkIsKept, BackedUp, PushCommit
  PROVE  Checkouts' /\ Descent' /\ Coherent' /\ WorkIsKept' /\ BackedUp'
<1> DEFINE new == [work |-> {made + 1}, fix |-> FALSE]
<1>1. /\ UNCHANGED <<proc, tree, local, tracked, saved, bare>>
      /\ made' = made + 1 /\ remote' = Append(remote, new) /\ made \in Nat
  BY ReviewAssumption DEF PushCommit, treeVars, TypeOK
<1>2. new \in Commits
  BY NewCommit DEF PushCommit
<1> HIDE DEF new
<1>3. WellMade(remote') /\ Work(remote') = Work(remote) \cup new.work
  BY <1>1, <1>2, AppendKeeps DEF Checkouts
<1>4. new.work = {made + 1}
  BY DEF new
<1>5. Work(remote)' = Work(remote') /\ \A b : Work(b)' = Work(b)
  BY DEF Work
<1>6. Work(local)' = Work(local) /\ Work(tracked)' = Work(tracked)
  BY <1>1 DEF Work
<1>7. Checkouts'
  BY <1>1, <1>3 DEF Checkouts, WellMade
<1>8. Descent'
  BY <1>1, <1>3, <1>4, <1>5, <1>6 DEF Descent
<1>9. Coherent'
  BY <1>1, <1>3, <1>4, CoherentGrown
<1>10. WorkIsKept' /\ BackedUp'
  BY <1>1, <1>3, <1>4, <1>5, <1>6 DEF WorkIsKept, BackedUp
<1> QED
  BY <1>7, <1>8, <1>9, <1>10

\* The branches and workspaces are as they were, but for a lock that someone lifts.
LEMMA SameBranches ==
  ASSUME TypeOK, Checkouts, Descent, Coherent, WorkIsKept, BackedUp,
         UNCHANGED <<proc, remote, made, bare, local, tracked, saved>>,
         tree' = tree \/ \E k \in Keys : tree' = [tree EXCEPT ![k].locked = FALSE]
  PROVE  Checkouts' /\ Descent' /\ Coherent' /\ WorkIsKept' /\ BackedUp'
<1>1. \A k \in Keys : tree'[k].known = tree[k].known
  BY DEF TypeOK, Directory
<1>2. "output" \in Keys
  BY ReviewAssumption
<1>3. Checkouts'
  BY <1>1 DEF Checkouts, WellMade
<1>4. Descent'
  BY <1>1, <1>2 DEF Descent, Work
<1>5. Coherent'
  BY DEF Coherent, Work, Fold, Place
<1>6. WorkIsKept' /\ BackedUp'
  BY DEF WorkIsKept, BackedUp, Work
<1> QED
  BY <1>3, <1>4, <1>5, <1>6

\* No step takes a change away.
LEMMA BranchStep ==
  ASSUME TypeOK, \A q \in Procs : Knows(q), Checkouts, Descent, Coherent, WorkIsKept, BackedUp,
         [Next]_vars
  PROVE  Checkouts' /\ Descent' /\ Coherent' /\ WorkIsKept' /\ BackedUp'
<1>1. ASSUME NEW p \in Procs, Alone(p), Effect(p)
      PROVE  Checkouts' /\ Descent' /\ Coherent' /\ WorkIsKept' /\ BackedUp'
  BY <1>1, CheckoutsEffect, DescentEffect, CoherentEffect, KeptEffect
<1>2. CASE UNCHANGED <<proc, branchVars>>
  BY <1>2, SameBranches DEF branchVars, workVars, treeVars
<1>3. CASE \E k \in Keys : Unlock(k)
  BY <1>3, SameBranches DEF Unlock, workVars
<1> QED
  BY <1>1, <1>2, <1>3, PushCommitKeeps, Effects
-----------------------------------------------------------------------------
(***************************************************************************)
(* What a step does to the labels and to the conversation.                 *)
(***************************************************************************)
\* One that has its answer still to give read for it what it had read, or what there is.
OnlyWhatWasRead(p) ==
  Reads(p)' => (Reads(p) /\ proc'[p].read = proc[p].read) \/ proc'[p].read = Newest

\* One that answers for the in-progress label goes on doing so.
Onward(p) == (Holds(p) => Holds(p)') /\ OnlyWhatWasRead(p)

\* The label is put there by a run that will clear it; and it goes, or what went wrong
\* with it is known.
Labelled(p) ==
  \/ UNCHANGED <<asks, lapse>> /\ (Holds(p) => Holds(p)')
  \/ asks' = asks \cup {"in-progress"} /\ UNCHANGED lapse /\ Holds(p)'
  \/ asks' = {} /\ lapse' \in BOOLEAN
  \/ asks' = asks /\ lapse' = (lapse \/ Holds(p))
  \/ asks' = asks /\ lapse' = (lapse \/ "in-progress" \in asks)

\* A run says nothing, or replies to what it read, or owns to have broken.
Spoke(p) ==
  \/ UNCHANGED <<cut, heard, passed>> /\ OnlyWhatWasRead(p)
  \/ /\ Reads(p) /\ ~Reads(p)'
     /\ cut' = posted /\ heard' = heard \cup proc[p].read /\ UNCHANGED passed
  \/ /\ ~Reads(p)'
     /\ cut' = posted /\ passed' = passed \cup Pending /\ UNCHANGED heard

\* A run that breaks reads no more, and still answers for the label.
LEMMA BreakOnward ==
  ASSUME ProcType, NEW p \in Procs, Break(p)
  PROVE  Onward(p) /\ ~Reads(p)'
BY BreakFields DEF Onward, OnlyWhatWasRead, Reads, Reading, Holds, Revising

\* So does one that goes on, unless it ends.
LEMMA GotoOnward ==
  ASSUME ProcType, NEW p \in Procs, NEW next \in Steps, Goto(p, next),
         next \in {"off", "pick", "output", "feedback"} => ~Holds(p),
         next \in Reading => proc[p].pc \in Reading \/ ~Revising(p)
  PROVE  Onward(p) /\ (next \notin Reading => ~Reads(p)')
<1>1. CASE next = "off"
  BY <1>1, GotoFields, OffTyped DEF Onward, OnlyWhatWasRead, Reads, Reading, Holds, Revising
<1>2. CASE next # "off"
  BY <1>2, GotoFields DEF Onward, OnlyWhatWasRead, Reads, Reading, Holds, Revising
<1> QED
  BY <1>1, <1>2

\* A command of Prepare goes on.
LEMMA PrepareOnward ==
  ASSUME ProcType, NEW p \in Procs, NEW here \in {"fetch", "remove", "save"},
         NEW possible, NEW command,
         NEW next \in {"remove", "save", "add"}, Prepare(p, here, possible, command, next)
  PROVE  Onward(p)
<1>1. next \in Steps /\ proc[p].pc = here
  BY DEF Steps, Prepare
<1>2. CASE Break(p)
  BY <1>2, BreakOnward
<1>3. CASE Goto(p, next)
  BY <1>1, <1>3, GotoOnward DEF Reading
<1> QED
  BY <1>2, <1>3 DEF Prepare

\* The actions that leave the labels and the conversation as they are.
LEMMA SilentSteps ==
  ASSUME TypeOK, NEW p \in Procs, Knows(p),
         \/ Start(p) \/ Stop(p) \/ Pick(p) \/ Output(p) \/ Feedback(p) \/ Fetch(p)
         \/ RemoveOld(p) \/ Save(p) \/ AddNew(p) \/ Revise(p) \/ Push(p) \/ Log(p)
         \/ Lease(p) \/ Autosquash(p) \/ ForcePush(p) \/ Tell(p) \/ Release(p)
  PROVE  UNCHANGED forgeVars /\ Onward(p)
<1>1. ProcType /\ proc[p] \in ProcState
  BY DEF TypeOK, ProcType
<1>2. /\ {"off", "output", "feedback", "fetch", "answer", "push", "labels", "release", "sorry",
          "tell", "force", "head"} \subseteq Steps
  BY DEF Steps
<1>3. UNCHANGED forgeVars
  BY DEF Start, Stop, Pick, Output, Feedback, Fetch, RemoveOld, Save, Prepare, AddNew, Revise,
     Push, Log, Lease, Look, Autosquash, ForcePush, Tell, Release
<1> USE <1>1
<1>4. ASSUME Break(p) PROVE Onward(p)
  BY <1>4, BreakOnward
<1>5. CASE Start(p)
  <2>1. PICK k \in Keys, first \in {"pick", "output"} :
          proc' = [proc EXCEPT ![p] = [Off EXCEPT !.pc = first, !.key = k]]
    BY <1>5 DEF Start
  <2>2. [Off EXCEPT !.pc = first, !.key = k].pc = first
    BY DEF Off
  <2>3. proc'[p].pc = first
    BY <2>1, <2>2 DEF ProcType
  <2> QED
    BY <1>5, <2>3 DEF Start, Onward, OnlyWhatWasRead, Reads, Reading, Holds
<1>6. CASE Stop(p)
  BY <1>6 DEF Stop, Onward, OnlyWhatWasRead, Reads, Holds, Revising, ProcType, ProcState
<1>7. CASE Pick(p)
  <2>1. PICK next \in {"output", "off"} : Goto(p, next)
    BY <1>7 DEF Pick
  <2> QED
    BY <1>2, <1>7, <2>1, GotoOnward DEF Pick, Holds, Reading
<1>8. CASE Output(p)
  <2>1. PICK next \in {"feedback", "fetch", "off"} : Goto(p, next) /\ (next = "fetch" => ~Revising(p))
    BY <1>8 DEF Output
  <2> QED
    BY <1>2, <1>8, <2>1, GotoOnward DEF Output, Holds, Reading
<1>9. CASE Feedback(p)
  <2>1. ASSUME NEW next \in {"claim", "answer"},
               proc' = [proc EXCEPT ![p].pc = next, ![p].read = Newest], proc[p].pc = "feedback"
        PROVE  Onward(p)
    BY <2>1 DEF Onward, OnlyWhatWasRead, Holds, ProcType, ProcState
  <2> QED
    BY <1>4, <1>9, <2>1 DEF Feedback
<1>10. CASE Fetch(p) \/ RemoveOld(p) \/ Save(p)
  BY <1>3, <1>10, PrepareOnward DEF Fetch, RemoveOld, Save
<1>11. CASE AddNew(p)
  <2>1. CASE proc' = [proc EXCEPT ![p].pc = IF Revising(p) THEN "revise" ELSE "log",
                                  ![p].housed = TRUE]
    BY <1>11, <2>1 DEF AddNew, Onward, OnlyWhatWasRead, Reads, Reading, Holds, Revising, ProcType,
       ProcState
  <2> QED
    BY <1>4, <1>11, <2>1 DEF AddNew
<1>12. CASE Revise(p)
  <2>1. ASSUME NEW next \in {"push", "answer"}, Goto(p, next) PROVE Onward(p)
    BY <1>2, <1>12, <2>1, GotoOnward DEF Revise, Reading
  <2> QED
    BY <1>4, <1>12, <2>1 DEF Revise
<1>13. CASE Push(p)
  <2>1. ASSUME Goto(p, "answer") PROVE Onward(p)
    BY <1>2, <1>13, <2>1, GotoOnward DEF Push, Reading
  <2> QED
    BY <1>4, <1>13, <2>1 DEF Push
<1>14. ASSUME NEW next \in {"head", "release", "tell", "force"}, Goto(p, next) PROVE Onward(p)
  BY <1>2, <1>14, GotoOnward DEF Reading
<1>15. CASE Log(p)
  <2>1. ASSUME Goto(p, IF HasFixes(local) THEN "head" ELSE "release") PROVE Onward(p)
    BY <1>14, <2>1
  <2> QED
    BY <1>4, <1>15, <2>1 DEF Log, Look
<1>16. CASE Lease(p)
  <2>1. ASSUME proc' = [proc EXCEPT ![p].pc = "squash", ![p].leased = local] PROVE Onward(p)
    BY <1>16, <2>1 DEF Lease, Look, Onward, OnlyWhatWasRead, Reads, Reading, Holds, Revising,
       ProcType, ProcState
  <2> QED
    BY <1>4, <1>16, <2>1 DEF Lease, Look
<1>17. CASE Autosquash(p)
  BY <1>4, <1>14, <1>17 DEF Autosquash
<1>18. CASE ForcePush(p)
  BY <1>4, <1>14, <1>18 DEF ForcePush
<1>19. CASE Tell(p)
  <2>1. PICK broke \in BOOLEAN : Done(p, "release", broke)
    BY <1>19 DEF Tell
  <2> QED
    BY <1>2, <1>3, <2>1, DoneFields DEF Onward, OnlyWhatWasRead, Reads, Reading, Holds, Revising
<1>20. CASE Release(p)
  <2>1. PICK next \in {"off", "sorry", "labels"} : Goto(p, next) /\ (next = "off" => ~Revising(p))
    BY <1>20 DEF Release
  <2> QED
    BY <1>2, <1>3, <2>1, GotoOnward DEF Reading, Holds
<1> QED
  BY <1>3, <1>5, <1>6, <1>7, <1>8, <1>9, <1>10, <1>11, <1>12, <1>13, <1>15, <1>16, <1>17, <1>18,
     <1>19, <1>20

\* What any step of a process does to them.
LEMMA TalkEffects ==
  ASSUME TypeOK, NEW p \in Procs, Knows(p), Start(p) \/ Step(p) \/ Stop(p) \/ Kill(p)
  PROVE  UNCHANGED <<open, posted>> /\ Labelled(p) /\ Spoke(p)
<1>1. ProcType /\ proc[p] \in ProcState
  BY DEF TypeOK, ProcType
<1>2. {"off", "fetch", "labels"} \subseteq Steps
  BY DEF Steps
<1> USE <1>1
<1>3. CASE UNCHANGED forgeVars /\ Onward(p)
  BY <1>3 DEF forgeVars, Onward, Labelled, Spoke
<1>4. CASE ClaimFeedback(p)
  <2>1. Revising(p) /\ Holds(p)
    BY <1>4 DEF ClaimFeedback, Knows, RevisionOnly, Holds
  <2>2. Onward(p)
    BY <1>2, <1>4, BreakOnward, GotoOnward DEF ClaimFeedback, Reading
  <2>3. UNCHANGED <<cut, heard, passed>> /\ UNCHANGED lapse /\ UNCHANGED <<open, posted>>
    BY <1>4 DEF ClaimFeedback
  <2>4. asks' = asks \/ asks' = asks \cup {"in-progress"}
    BY <1>4 DEF ClaimFeedback
  <2> QED
    BY <2>1, <2>2, <2>3, <2>4 DEF Onward, Labelled, Spoke
<1>5. CASE Answer(p)
  <2>1. Reads(p) /\ UNCHANGED <<open, posted, passed, asks, lapse>>
    BY <1>5 DEF Answer, Knows, RevisionOnly, Reads, Reading
  <2>2. ASSUME Done(p, AfterAnswer(p), FALSE) PROVE ~Reads(p)' /\ Holds(p)'
    <3>1. AfterAnswer(p) \in {"release", "labels"} /\ AfterAnswer(p) \in Steps
      BY DEF AfterAnswer, Steps
    <3> QED
      BY <2>1, <2>2, <3>1, DoneFields DEF Reads, Reading, Holds, Revising
  <2>3. ASSUME Break(p) PROVE ~Reads(p)' /\ (Holds(p) => Holds(p)')
    BY <2>3, BreakOnward DEF Onward
  <2>4. ~Reads(p)' /\ (Holds(p) => Holds(p)')
    BY <1>5, <2>2, <2>3 DEF Answer
  <2>5. UNCHANGED <<cut, heard>> \/ (cut' = posted /\ heard' = heard \cup proc[p].read)
    BY <1>5 DEF Answer, Reply
  <2> QED
    BY <2>1, <2>4, <2>5 DEF Labelled, Spoke, OnlyWhatWasRead
<1>6. CASE Sorry(p)
  <2>1. UNCHANGED <<open, posted, heard, asks, lapse>> /\ Goto(p, "labels")
    BY <1>6 DEF Sorry
  <2>2. Onward(p) /\ ~Reads(p)'
    BY <1>2, <2>1, GotoOnward DEF Reading
  <2>3. UNCHANGED <<cut, passed>> \/ (cut' = posted /\ passed' = passed \cup Pending)
    BY <1>6 DEF Sorry, Reply
  <2> QED
    BY <2>1, <2>2, <2>3 DEF Labelled, Spoke, Onward
<1>7. CASE ReleaseFeedback(p)
  <2>1. UNCHANGED <<open, posted, cut, heard, passed>> /\ Goto(p, "off")
    BY <1>7 DEF ReleaseFeedback
  <2>2. ~Reads(p)'
    BY <1>2, <2>1, GotoFields DEF Reads, Reading
  <2>3. \/ asks' = {} /\ lapse' \in BOOLEAN
        \/ asks' = asks /\ lapse' = (lapse \/ "in-progress" \in asks)
    BY <1>7 DEF ReleaseFeedback, Landed, TypeOK
  <2> QED
    BY <2>1, <2>2, <2>3 DEF Labelled, Spoke, OnlyWhatWasRead
<1>8. CASE Kill(p)
  <2>1. /\ UNCHANGED <<open, asks, posted, cut, heard, passed>> /\ Goto(p, "off")
        /\ lapse' = (lapse \/ Holds(p))
    BY <1>8 DEF Kill
  <2>2. ~Reads(p)'
    BY <1>2, <2>1, GotoFields DEF Reads, Reading
  <2> QED
    BY <2>1, <2>2 DEF Labelled, Spoke, OnlyWhatWasRead
<1> QED
  BY <1>3, <1>4, <1>5, <1>6, <1>7, <1>8, SilentSteps DEF Step

\* The label stays accounted for.
LEMMA RequestStep ==
  ASSUME TypeOK, \A q \in Procs : Knows(q), RequestAccounted, [Next]_vars
  PROVE  RequestAccounted'
<1>1. ASSUME NEW p \in Procs, Start(p) \/ Step(p) \/ Stop(p) \/ Kill(p)
      PROVE  RequestAccounted'
  <2>1. Alone(p) /\ Labelled(p)
    BY <1>1, TalkEffects, StepMoves, OutsideMoves DEF Moved
  <2>2. \A q \in Procs \ {p} : Holds(q)' <=> Holds(q)
    BY <2>1 DEF Alone, Holds, Revising
  <2>3. SUFFICES ASSUME "in-progress" \in asks' PROVE lapse' \/ \E q \in Procs : Holds(q)'
    BY DEF RequestAccounted
  <2>4. CASE UNCHANGED <<asks, lapse>> /\ (Holds(p) => Holds(p)')
    <3>1. lapse \/ \E q \in Procs : Holds(q)
      BY <2>3, <2>4 DEF RequestAccounted
    <3> QED
      BY <2>2, <2>4, <3>1
  <2>5. CASE asks' = asks /\ lapse' = (lapse \/ Holds(p))
    <3>1. lapse \/ \E q \in Procs : Holds(q)
      BY <2>3, <2>5 DEF RequestAccounted
    <3> QED
      BY <2>2, <2>5, <3>1
  <2> QED
    BY <2>1, <2>3, <2>4, <2>5 DEF Labelled
<1>2. CASE UNCHANGED vars \/ (Person /\ ~Clear)
  <2>1. UNCHANGED <<proc, lapse>> /\ ("in-progress" \in asks' => "in-progress" \in asks)
    BY <1>2 DEF vars, Person, Comment, Ask, PushCommit, Close, Unlock, forgeVars
  <2> QED
    BY <2>1 DEF RequestAccounted, Holds, Revising
<1>3. CASE Clear
  BY <1>3 DEF Clear, RequestAccounted
<1> QED
  BY <1>1, <1>2, <1>3 DEF Next

\* What was heard grows, and so does what of it is newer than a comment.
LEMMA MoreHeard ==
  ASSUME MaxComments \in Nat, NEW S \in SUBSET Comments, NEW T \in SUBSET S, NEW c
  PROVE  /\ Cardinality({d \in T : d > c}) <= Cardinality({d \in S : d > c})
         /\ Cardinality({d \in T : d > c}) \in Nat /\ Cardinality({d \in S : d > c}) \in Nat
<1>1. IsFiniteSet(Comments)
  BY FS_Interval DEF Comments
<1>2. {d \in S : d > c} \in SUBSET Comments /\ {d \in T : d > c} \in SUBSET {d \in S : d > c}
  OBVIOUS
<1>3. IsFiniteSet({d \in S : d > c}) /\ IsFiniteSet({d \in T : d > c})
  BY <1>1, <1>2, FS_Subset
<1> QED
  BY <1>2, <1>3, FS_Subset, FS_CardinalityType

\* A comment that made way did so for as many as a run reads.
LEMMA MadeWay ==
  ASSUME TypeOK, NEW c \in Pending \ Newest
  PROVE  Cardinality({d \in Newest : d > c}) >= MaxFeedbackItems
<1>1. /\ posted \in Nat /\ cut \in Nat /\ posted <= MaxComments /\ MaxComments \in Nat
      /\ MaxFeedbackItems \in Nat \ {0}
  BY ReviewAssumption DEF TypeOK
<1>2. c \in Nat /\ c > cut /\ c <= posted /\ posted - c >= MaxFeedbackItems
  BY <1>1 DEF Pending, Newest
<1> DEFINE Final == (posted - MaxFeedbackItems + 1)..posted
<1>3. Cardinality(Final) = MaxFeedbackItems
  BY <1>1, <1>2, FS_Interval
<1>4. \A d \in Final : d \in Newest /\ d > c
  BY <1>1, <1>2 DEF Pending, Newest
<1>5. Newest \in SUBSET Comments
  BY <1>1 DEF Newest, Pending, Comments
<1>6. Final \in SUBSET Newest /\ Final = {d \in Final : d > c}
  BY <1>4
<1> HIDE DEF Final
<1> QED
  BY <1>1, <1>3, <1>5, <1>6, MoreHeard

\* What made way for enough still did when more is heard.
LEMMA EnoughHeard ==
  ASSUME MaxComments \in Nat, MaxFeedbackItems \in Nat, NEW c,
         NEW H \in SUBSET Comments, NEW G \in SUBSET H,
         Cardinality({d \in G : d > c}) >= MaxFeedbackItems
  PROVE  Cardinality({d \in H : d > c}) >= MaxFeedbackItems
<1>1. /\ Cardinality({d \in G : d > c}) <= Cardinality({d \in H : d > c})
      /\ Cardinality({d \in G : d > c}) \in Nat /\ Cardinality({d \in H : d > c}) \in Nat
  BY MoreHeard
<1> QED
  BY <1>1

\* A step of a process keeps what it says about the comments that are hidden, or will be.
LEMMA HeardEffect ==
  ASSUME TypeOK, HiddenWasHeard, AnswersCover, NEW p \in Procs, Alone(p),
         UNCHANGED posted, Spoke(p)
  PROVE  HiddenWasHeard' /\ AnswersCover'
<1>1. /\ posted \in Nat /\ cut \in Nat /\ cut <= posted /\ MaxComments \in Nat
      /\ MaxFeedbackItems \in Nat /\ posted <= MaxComments
      /\ heard \subseteq Comments /\ passed \subseteq Comments
      /\ \A q \in Procs : proc[q].read \subseteq Comments
  BY ReviewAssumption DEF TypeOK, ProcState
<1>2. /\ \A c \in 1..cut \ (heard \cup passed) :
           Cardinality({d \in heard : d > c}) >= MaxFeedbackItems
      /\ \A q \in Procs : Reads(q) => Covered(q)
  BY DEF HiddenWasHeard, AnswersCover, Reads
<1>3. heard \subseteq heard' /\ passed \subseteq passed' /\ heard' \subseteq Comments
  BY <1>1 DEF Spoke
<1>4. HiddenWasHeard'
  <2>1. CASE UNCHANGED <<cut, heard, passed>>
    BY <1>2, <2>1 DEF HiddenWasHeard
  <2>2. CASE Reads(p) /\ cut' = posted /\ heard' = heard \cup proc[p].read /\ UNCHANGED passed
    BY <1>2, <2>2 DEF HiddenWasHeard, Covered
  <2>3. CASE cut' = posted /\ passed' = passed \cup Pending /\ UNCHANGED heard
    <3>1. 1..cut' \ (heard' \cup passed') \subseteq 1..cut \ (heard \cup passed)
      BY <1>1, <2>3 DEF Pending
    <3> QED
      BY <1>2, <2>3, <3>1 DEF HiddenWasHeard
  <2> QED
    BY <2>1, <2>2, <2>3 DEF Spoke
<1>5. ASSUME NEW q \in Procs, Reads(q), proc'[q].read = proc[q].read PROVE Covered(q)'
  <2>1. ASSUME NEW c \in 1..posted \ (heard' \cup passed' \cup proc[q].read)
        PROVE  Cardinality({d \in heard' \cup proc[q].read : d > c}) >= MaxFeedbackItems
    <3>1. c \in 1..posted \ (heard \cup passed \cup proc[q].read)
      BY <1>3
    <3>2. Cardinality({d \in heard \cup proc[q].read : d > c}) >= MaxFeedbackItems
      BY <1>2, <1>5, <3>1 DEF Covered
    <3>3. /\ heard' \cup proc[q].read \in SUBSET Comments
          /\ heard \cup proc[q].read \in SUBSET (heard' \cup proc[q].read)
          /\ MaxComments \in Nat /\ MaxFeedbackItems \in Nat
      BY <1>1, <1>3
    <3> QED
      BY <3>2, <3>3, EnoughHeard
  <2> QED
    BY <1>5, <2>1 DEF Covered
<1>6. ASSUME UNCHANGED <<cut, heard, passed>>, proc'[p].read = Newest PROVE Covered(p)'
  <2>1. ASSUME NEW c \in 1..posted \ (heard \cup passed \cup Newest)
        PROVE  Cardinality({d \in heard \cup Newest : d > c}) >= MaxFeedbackItems
    <3>1. /\ heard \cup Newest \in SUBSET Comments
          /\ heard \in SUBSET (heard \cup Newest) /\ Newest \in SUBSET (heard \cup Newest)
          /\ MaxComments \in Nat /\ MaxFeedbackItems \in Nat
      <4>1. Newest \subseteq Comments
        BY <1>1 DEF Newest, Pending, Comments
      <4> QED
        BY <1>1, <4>1
    <3>2. CASE c <= cut
      <4>1. Cardinality({d \in heard : d > c}) >= MaxFeedbackItems
        BY <1>1, <1>2, <2>1, <3>2
      <4> QED
        BY <3>1, <4>1, EnoughHeard
    <3>3. CASE c > cut
      <4>1. Cardinality({d \in Newest : d > c}) >= MaxFeedbackItems
        BY <1>1, <2>1, <3>3, MadeWay DEF Pending
      <4> QED
        BY <3>1, <4>1, EnoughHeard
    <3> QED
      BY <1>1, <3>2, <3>3
  <2> QED
    BY <1>6, <2>1 DEF Covered
<1>7. ASSUME NEW q \in Procs, Reads(q)' PROVE Covered(q)'
  <2>1. CASE q # p
    <3>1. proc'[q] = proc[q] /\ Reads(q)
      BY <1>7, <2>1 DEF Alone, Reads, Revising
    <3> QED
      BY <1>5, <3>1
  <2>2. CASE q = p
    <3>1. UNCHANGED <<cut, heard, passed>>
      BY <1>7, <2>2 DEF Spoke
    <3>2. (Reads(p) /\ proc'[p].read = proc[p].read) \/ proc'[p].read = Newest
      BY <1>7, <2>2 DEF Spoke, OnlyWhatWasRead
    <3> QED
      BY <1>5, <1>6, <2>2, <3>1, <3>2
  <2> QED
    BY <2>1, <2>2
<1> QED
  BY <1>4, <1>7 DEF AnswersCover, Reads

\* A comment that comes while a run is at work is counted as passed.
LEMMA HeardComment ==
  ASSUME TypeOK, \A q \in Procs : Knows(q), HiddenWasHeard, AnswersCover, Comment
  PROVE  HiddenWasHeard' /\ AnswersCover'
<1>1. posted \in Nat /\ cut \in Nat /\ cut <= posted
  BY ReviewAssumption DEF TypeOK
<1>2. UNCHANGED <<proc, cut, heard>> /\ posted' = posted + 1 /\ passed \subseteq passed'
  BY DEF Comment
<1>3. HiddenWasHeard'
  BY <1>2 DEF HiddenWasHeard
<1>4. ASSUME NEW q \in Procs, Reads(q) PROVE Covered(q)'
  <2>1. AtWork(q)
    BY <1>4 DEF Knows, Reads, Reading, AtWork
  <2>2. passed' = passed \cup {posted + 1}
    BY <2>1 DEF Comment
  <2>3. \A c \in 1..posted \ (heard \cup passed \cup proc[q].read) :
          Cardinality({d \in heard \cup proc[q].read : d > c}) >= MaxFeedbackItems
    BY <1>4 DEF AnswersCover, Reads, Covered
  <2>4. 1..posted' \ (heard' \cup passed' \cup proc'[q].read) \subseteq
          1..posted \ (heard \cup passed \cup proc[q].read)
    BY <1>1, <1>2, <2>2
  <2> QED
    BY <1>2, <2>3, <2>4 DEF Covered
<1> QED
  BY <1>2, <1>3, <1>4 DEF AnswersCover, Reads, Revising

\* No step hides a comment that was not heard, but as the property says.
LEMMA HeardStep ==
  ASSUME TypeOK, \A q \in Procs : Knows(q), HiddenWasHeard, AnswersCover, [Next]_vars
  PROVE  HiddenWasHeard' /\ AnswersCover'
<1>1. ASSUME NEW p \in Procs, Start(p) \/ Step(p) \/ Stop(p) \/ Kill(p)
      PROVE  HiddenWasHeard' /\ AnswersCover'
  BY <1>1, HeardEffect, TalkEffects, StepMoves, OutsideMoves DEF Moved
<1>2. CASE UNCHANGED vars \/ (Person /\ ~Comment)
  <2>1. UNCHANGED <<proc, posted, cut, heard, passed>>
    BY <1>2 DEF vars, Person, Ask, PushCommit, Close, Clear, Unlock, forgeVars
  <2> QED
    BY <2>1 DEF HiddenWasHeard, AnswersCover, Covered, Reads, Revising
<1> QED
  BY <1>1, <1>2, HeardComment DEF Next
-----------------------------------------------------------------------------
(***************************************************************************)
(* The types, the inductive invariant and the theorems.                    *)
(***************************************************************************)
\* The pull request's own record stays what it is.
ForgeTypes ==
  /\ open \in BOOLEAN /\ asks \subseteq {"ready", "in-progress"}
  /\ posted \in 0..MaxComments /\ cut \in 0..posted
  /\ heard \subseteq Comments /\ passed \subseteq Comments
  /\ lapse \in BOOLEAN

\* Labels, comments and replies are of the kinds there are.
LEMMA ForgeTypesStep ==
  ASSUME TypeOK, \A q \in Procs : Knows(q), [Next]_vars
  PROVE  ForgeTypes'
<1>1. /\ open \in BOOLEAN /\ asks \subseteq {"ready", "in-progress"}
      /\ posted \in Nat /\ cut \in Nat /\ cut <= posted /\ posted <= MaxComments
      /\ heard \subseteq Comments /\ passed \subseteq Comments
      /\ lapse \in BOOLEAN /\ MaxComments \in Nat
      /\ Comments = 1..MaxComments
  BY ReviewAssumption DEF TypeOK, Comments
<1>2. ASSUME NEW p \in Procs, Start(p) \/ Step(p) \/ Stop(p) \/ Kill(p)
      PROVE  ForgeTypes'
  <2>1. UNCHANGED <<open, posted>> /\ Labelled(p) /\ Spoke(p)
    BY <1>2, TalkEffects
  <2>2. asks' \subseteq {"ready", "in-progress"}
    BY <1>1, <2>1 DEF Labelled
  <2>3. lapse' \in BOOLEAN
    BY <1>1, <2>1 DEF Labelled
  <2>4. proc[p].read \subseteq Comments /\ Pending \subseteq Comments
    BY <1>1 DEF TypeOK, ProcState, Pending
  <2>5. cut' \in {cut, posted} /\ heard' \subseteq Comments /\ passed' \subseteq Comments
    BY <1>1, <2>1, <2>4 DEF Spoke
  <2> QED
    BY <1>1, <2>1, <2>2, <2>3, <2>5 DEF ForgeTypes
<1>3. CASE Comment
  <2>1. UNCHANGED <<open, asks, cut, heard, lapse>> /\ posted' = posted + 1 /\ posted < MaxComments
    BY <1>3 DEF Comment
  <2>2. passed' \subseteq passed \cup {posted + 1}
    BY <1>3 DEF Comment
  <2> QED
    BY <1>1, <2>1, <2>2 DEF ForgeTypes
<1>4. CASE UNCHANGED vars \/ (Person /\ ~Comment)
  <2>1. /\ UNCHANGED <<posted, cut, heard, passed>> /\ open' \in BOOLEAN /\ lapse' \in BOOLEAN
        /\ asks' \subseteq {"ready", "in-progress"}
    BY <1>1, <1>4 DEF vars, Person, Ask, PushCommit, Close, Clear, Unlock, forgeVars
  <2> QED
    BY <1>1, <2>1 DEF ForgeTypes
<1> QED
  BY <1>2, <1>3, <1>4 DEF Next

\* So are the numbers of the changes, and the directories.
LEMMA WorkTypesStep ==
  ASSUME TypeOK, Checkouts, \A q \in Procs : Knows(q), [Next]_vars
  PROVE  /\ made' \in 0..MaxWork /\ bare' \subseteq Changes
         /\ tree' \in [Keys -> Directory] /\ saved' \subseteq Changes
<1>1. CASE UNCHANGED <<proc, branchVars>>
  BY <1>1 DEF TypeOK, branchVars, workVars, treeVars
<1>2. CASE PushCommit
  <2>1. made + 1 \in 0..MaxWork
    BY <1>2, ReviewAssumption DEF PushCommit, TypeOK
  <2> QED
    BY <1>2, <2>1 DEF PushCommit, TypeOK, treeVars
<1>3. CASE \E k \in Keys : Unlock(k)
  <2>1. PICK k \in Keys : Unlock(k)
    BY <1>3
  <2>2. [tree[k] EXCEPT !.locked = FALSE] \in Directory
    BY DEF TypeOK, Directory
  <2> QED
    BY <2>1, <2>2 DEF Unlock, TypeOK, workVars
<1> QED
  BY <1>1, <1>2, <1>3, BranchTypes, Effects

\* A pull request as it is opened.
LEMMA InitIInv == Init => IInv
<1> SUFFICES ASSUME Init PROVE IInv
  OBVIOUS
<1>1. /\ \A p \in Procs : proc[p] = Off
      /\ proc = [p \in Procs |-> Off]
      /\ open = TRUE /\ asks = {"ready"} /\ posted = 1 /\ cut = 0 /\ heard = {} /\ passed = {}
      /\ remote = Proposed /\ made = Cardinality(Work(Proposed)) /\ bare = {} /\ lapse = FALSE
      /\ tree = [k \in Keys |-> Nothing] /\ local = NoBranch /\ tracked = NoBranch /\ saved = {}
  BY DEF Init
<1>2. /\ WellMade(Proposed) /\ Proposed # NoBranch
      /\ MaxWork \in Nat /\ MaxComments \in Nat \ {0}
      /\ Work(Proposed) = 1..Cardinality(Work(Proposed))
  BY ReviewAssumption DEF WellMade
<1>3. Cardinality(Work(Proposed)) \in 0..MaxWork
  <2>1. Work(Proposed) \in SUBSET Changes /\ IsFiniteSet(Changes) /\ Cardinality(Changes) = MaxWork
    <3>1. Work(Proposed) \subseteq Changes
      BY <1>2, Parts DEF WellMade
    <3>2. IsFiniteSet(1..MaxWork) /\ Cardinality(1..MaxWork) = MaxWork
      BY <1>2, FS_Interval
    <3> QED
      BY <3>1, <3>2 DEF Changes
  <2>2. IsFiniteSet(Work(Proposed)) /\ Cardinality(Work(Proposed)) <= MaxWork
    BY <2>1, FS_Subset
  <2> QED
    BY <1>2, <2>2, FS_CardinalityType
<1>4. TypeOK
  <2>1. proc \in [Procs -> ProcState] /\ tree \in [Keys -> Directory]
    BY <1>1, OffTyped DEF Nothing, Directory
  <2>2. open \in BOOLEAN /\ asks \subseteq {"ready", "in-progress"} /\ lapse \in BOOLEAN
    BY <1>1
  <2>3. posted \in 0..MaxComments /\ cut \in 0..posted
    BY <1>1, <1>2
  <2>4. heard \subseteq Comments /\ passed \subseteq Comments
    BY <1>1
  <2>5. /\ remote \in Branches /\ made \in 0..MaxWork /\ bare \subseteq Changes
        /\ local \in Branches \cup {NoBranch} /\ tracked \in Branches \cup {NoBranch}
        /\ saved \subseteq Changes
    BY <1>1, <1>2, <1>3 DEF WellMade
  <2> QED
    BY <2>1, <2>2, <2>3, <2>4, <2>5 DEF TypeOK
<1>5. \A p \in Procs : Knows(p) /\ ~Holds(p) /\ proc[p].pc = "off"
  BY <1>1, OffTyped DEF Knows, RevisionOnly, TidyOnly, Holds
<1>6. Work(local) = {} /\ Work(tracked) = {}
  BY <1>1 DEF Work
<1>7. \A k \in Keys : ~tree[k].known
  BY <1>1 DEF Nothing
<1>8. Checkouts
  BY <1>1, <1>2, <1>5, <1>7 DEF Checkouts
<1>9. Descent
  BY <1>1, <1>2, <1>5, <1>6, <1>7, ReviewAssumption DEF Descent
<1>10. Coherent
  BY <1>1 DEF Coherent
<1>11. WorkIsKept /\ BackedUp
  BY <1>1, <1>2, <1>5 DEF WorkIsKept, BackedUp
<1>12. RequestAccounted /\ HiddenWasHeard /\ AnswersCover
  <2>1. 1..0 = {}
    OBVIOUS
  <2> QED
    BY <1>1, <1>5, <2>1 DEF RequestAccounted, HiddenWasHeard, AnswersCover, Reads, Reading
<1> QED
  BY <1>4, <1>5, <1>8, <1>9, <1>10, <1>11, <1>12 DEF IInv

\* No step breaks it.
LEMMA NextIInv == IInv /\ [Next]_vars => IInv'
<1> SUFFICES ASSUME IInv, [Next]_vars PROVE IInv'
  OBVIOUS
<1>1. /\ TypeOK /\ \A p \in Procs : Knows(p)
      /\ Checkouts /\ Descent /\ Coherent
      /\ WorkIsKept /\ BackedUp
      /\ RequestAccounted
      /\ HiddenWasHeard /\ AnswersCover
  BY DEF IInv
<1>2. ProcType' /\ \A p \in Procs : Knows(p)'
  BY <1>1, KnowsStep
<1>3. Checkouts' /\ Descent' /\ Coherent' /\ WorkIsKept' /\ BackedUp'
  BY <1>1, BranchStep
<1>4. RequestAccounted'
  BY <1>1, RequestStep
<1>5. HiddenWasHeard' /\ AnswersCover'
  BY <1>1, HeardStep
<1>6. TypeOK'
  <2>1. remote' \in Branches /\ local' \in Branches \cup {NoBranch} /\ tracked' \in Branches \cup {NoBranch}
    BY <1>3 DEF Checkouts, WellMade
  <2>2. ForgeTypes'
    BY <1>1, ForgeTypesStep
  <2>3. /\ made' \in 0..MaxWork /\ bare' \subseteq Changes
        /\ tree' \in [Keys -> Directory] /\ saved' \subseteq Changes
    BY <1>1, WorkTypesStep
  <2> QED
    BY <1>2, <2>1, <2>2, <2>3 DEF ProcType, ForgeTypes, TypeOK
<1> QED
  BY <1>2, <1>3, <1>4, <1>5, <1>6 DEF IInv

\* What the proofs below rest on: in every state of the program the parts of IInv hold.
THEOREM Inductive == Spec => []IInv
BY InitIInv, NextIInv, PTL DEF Spec

\* Every variable keeps its type.
THEOREM TypeCorrect == Spec => []TypeOK
<1>1. IInv => TypeOK
  BY DEF IInv
<1> QED
  BY <1>1, Inductive, PTL

\* The in-progress label is there because a run will clear it, or because a label edit
\* failed or the run was killed (revise.go, Revise and releaseLabels).
THEOREM RequestsAccounted == Spec => []RequestAccounted
<1>1. IInv => RequestAccounted
  BY DEF IInv
<1> QED
  BY <1>1, Inductive, PTL

\* No reply hides a comment that nobody read, but one that came while a run was at work,
\* or before one that broke said so, or that made way for newer ones (revise.go, answer;
\* github.go, Feedback).
THEOREM CommentsHeard == Spec => []HiddenWasHeard
<1>1. IInv => HiddenWasHeard
  BY DEF IInv
<1> QED
  BY <1>1, Inductive, PTL

\* No change that was committed is lost to a reset, a fold or a push, by however many
\* runs at once (worktree.go, Prepare; commit.go, Push and ForcePushWithLease).
THEOREM WorkKept == Spec => []WorkIsKept
<1>1. IInv => WorkIsKept
  BY DEF IInv
<1> QED
  BY <1>1, Inductive, PTL

\* The remote's branch is added to, or replaced by one that folds to the same commits
\* (commit.go, Push and ForcePushWithLease; tidy.go, fold).
THEOREM RemoteGrowsOrFolds == Spec => GrowsOrFolds
<1>1. ASSUME IInv, [Next]_vars
      PROVE  [IsPrefix(remote, remote') \/ Fold(remote') = Fold(remote)]_vars
  <2>1. /\ TypeOK /\ (\A p \in Procs : Knows(p)) /\ Checkouts /\ Descent /\ Coherent
        /\ WellMade(remote)
    BY <1>1 DEF IInv, Checkouts
  <2>2. CASE UNCHANGED remote
    BY <2>2
  <2>3. CASE PushCommit
    <3>1. [work |-> {made + 1}, fix |-> FALSE] \in Commits
      BY <2>1, <2>3, NewCommit DEF PushCommit
    <3> QED
      BY <2>1, <2>3, <3>1, AppendKeeps DEF PushCommit
  <2>4. ASSUME NEW p \in Procs, Pushed(p) PROVE IsPrefix(remote, remote')
    BY <2>4 DEF Pushed, Published
  <2>5. ASSUME NEW p \in Procs, Forced(p) PROVE Fold(remote') = Fold(remote)
    <3>1. Work(local) = Work(remote)
      BY <2>1, <2>5, PublishKeeps
    <3>2. remote' = local /\ local # NoBranch
      BY <2>5 DEF Forced, Published
    <3>3. remote # NoBranch
      BY <2>1, ReviewAssumption DEF WellMade
    <3> QED
      BY <2>1, <3>1, <3>2, <3>3 DEF Coherent
  <2>6. ASSUME NEW p \in Procs, Effect(p), ~Pushed(p), ~Forced(p) PROVE UNCHANGED remote
    BY <2>6 DEF Effect, Quiet, Fetched, Removed, Saved, Reset, Committed, Leased, Squashed,
       branchVars
  <2>7. (\E k \in Keys : Unlock(k)) \/ UNCHANGED <<proc, branchVars>> => UNCHANGED remote
    BY DEF Unlock, branchVars
  <2> QED
    BY <1>1, <2>1, <2>2, <2>3, <2>4, <2>5, <2>6, <2>7, Effects
<1> QED
  BY <1>1, Inductive, PTL DEF Spec, GrowsOrFolds
-----------------------------------------------------------------------------
(***************************************************************************)
(* What reviewers see of the runs is what Conversation lets them see.      *)
(***************************************************************************)
\* A run has notes while it is to reply for them; one that broke has yet to say so.
ToTell(p) ==
  /\ proc[p].read # {} => Reads(p)
  /\ Revising(p) /\ proc[p].broke => proc[p].pc \in {"release", "sorry", "labels"}
  /\ proc[p].pc = "sorry" => proc[p].broke
  /\ proc[p].pc = "release" /\ Revising(p) => proc[p].broke = ~proc[p].replied

\* The stage a run is in goes on, with its notes.
Staying(p) == Stage(p)' = Stage(p) /\ proc'[p].read = proc[p].read

\* It ends up in another, with these.
Turning(p, stage, read) == Stage(p)' = stage /\ proc'[p].read = read

\* A run says nothing, and comes, breaks, or goes on.
Turns(p) ==
  \/ Staying(p)
  \/ Stage(p) = "working" /\ Turning(p, "sorry", {})
  \/ Stage(p) = "away" /\ (Turning(p, "working", Newest) \/ Turning(p, "sorry", {}))

\* What reviewers see of a process that is not there.
LEMMA OffTells == Off.read = {} /\ ~Off.broke /\ ~Off.replied /\ Off.pc = "off"
BY DEF Off

\* One that breaks has that to say, when there is a reviewer to hear it.
LEMMA BreakTells ==
  ASSUME ProcType, NEW p \in Procs, Break(p)
  PROVE  /\ ToTell(p)'
         /\ Revising(p) => Turning(p, "sorry", {})
         /\ ~Revising(p) => Turning(p, "away", {})
<1>1. /\ AfterError(p) \in Steps /\ Done(p, AfterError(p), TRUE)
      /\ AfterError(p) \in {"release", "sorry", "off"}
      /\ AfterError(p) = "off" => ~Revising(p)
      /\ AfterError(p) = "sorry" => Revising(p)
  BY DEF AfterError, Steps, Break
<1>2. CASE AfterError(p) = "off"
  <2>1. proc'[p] = Off
    BY <1>1, <1>2, DoneFields
  <2> QED
    BY <1>1, <1>2, <2>1, OffTells DEF ToTell, Turning, Stage, AtWork, Holds, Reads, Reading
<1>3. CASE AfterError(p) # "off"
  <2>1. /\ proc'[p].pc = AfterError(p) /\ proc'[p].key = proc[p].key /\ proc'[p].read = {}
        /\ proc'[p].broke = TRUE /\ proc'[p].replied = FALSE
    BY <1>1, <1>3, DoneFields
  <2> QED
    BY <1>1, <1>3, <2>1 DEF ToTell, Turning, Stage, AtWork, Holds, Reads, Reading, Revising
<1> QED
  BY <1>2, <1>3

\* One that has a reply to give goes on having it.
LEMMA WorkingOn ==
  ASSUME NEW p \in Procs, Knows(p), Knows(p)', ToTell(p), proc[p].pc \in Reading,
         proc'[p].pc \in Reading, proc'[p].key = proc[p].key, proc'[p].read = proc[p].read,
         proc'[p].broke = proc[p].broke
  PROVE  ToTell(p)' /\ Staying(p)
BY DEF ToTell, Staying, Stage, AtWork, Holds, Reads, Reading, Revising, Knows

\* A run that reviewers never hear of has nothing to tell them.
LEMMA TidyTells ==
  ASSUME NEW p \in Procs, ToTell(p), ~Revising(p), ~Revising(p)', proc'[p].pc # "sorry",
         proc'[p].read \in {proc[p].read, {}}
  PROVE  ToTell(p)' /\ Staying(p)
BY DEF ToTell, Staying, Stage, AtWork, Holds, Reads

\* Nor has one that has not come yet, or has gone.
LEMMA AwayTells ==
  ASSUME NEW p \in Procs, ToTell(p), proc[p].pc \in {"off", "pick", "output"},
         proc'[p].pc \in {"off", "pick", "output", "feedback"}, ~proc'[p].broke,
         proc'[p].read \in {proc[p].read, {}}
  PROVE  ToTell(p)' /\ Staying(p)
BY DEF ToTell, Staying, Stage, AtWork, Holds, Reads, Reading

\* The actions in which a run says nothing.
LEMMA SilentTurns ==
  ASSUME TypeOK, NEW p \in Procs, Knows(p), Knows(p)', ToTell(p),
         \/ Start(p) \/ Stop(p) \/ Pick(p) \/ Output(p) \/ Feedback(p) \/ Fetch(p)
         \/ RemoveOld(p) \/ Save(p) \/ AddNew(p) \/ Revise(p) \/ Push(p) \/ Log(p)
         \/ Lease(p) \/ Autosquash(p) \/ ForcePush(p) \/ Tell(p) \/ Release(p)
  PROVE  ToTell(p)' /\ Turns(p)
<1>1. ProcType /\ proc[p] \in ProcState
  BY DEF TypeOK, ProcType
<1>2. /\ {"off", "output", "feedback", "fetch", "answer", "push", "labels", "release", "sorry",
          "tell", "force", "head", "remove", "save", "add"} \subseteq Steps
  BY DEF Steps
<1> USE <1>1
<1>3. ASSUME ToTell(p)' /\ Staying(p) PROVE ToTell(p)' /\ Turns(p)
  BY <1>3 DEF Turns
<1>4. ASSUME Break(p), proc[p].pc \in Reading \cup TidyOnly \cup {"feedback"}
      PROVE  ToTell(p)' /\ Turns(p)
  <2>1. CASE Revising(p)
    <3>1. Stage(p) \in {"working", "away"}
      BY <1>4, <2>1 DEF Knows, ToTell, Stage, AtWork, Holds, Reads, Reading, TidyOnly
    <3> QED
      BY <1>4, <2>1, <3>1, BreakTells DEF Turns
  <2>2. CASE ~Revising(p)
    <3>1. Staying(p)
      BY <1>4, <2>2, BreakTells DEF Staying, Turning, Stage, AtWork, Holds, ToTell, Reads
    <3> QED
      BY <1>3, <1>4, <3>1, BreakTells
  <2> QED
    BY <2>1, <2>2
<1>5. ASSUME NEW next \in Reading \cap Steps, Goto(p, next), proc[p].pc \in Reading
      PROVE  ToTell(p)' /\ Turns(p)
  <2>1. next # "off"
    BY DEF Reading
  <2> QED
    BY <1>3, <1>5, <2>1, GotoFields, WorkingOn
<1>6. ASSUME NEW next \in Steps \ {"sorry"}, Goto(p, next), ~Revising(p)
      PROVE  ToTell(p)' /\ Turns(p)
  <2>1. ~Revising(p)' \/ next = "off"
    BY <1>6, GotoFields DEF Revising
  <2>2. CASE next # "off"
    BY <1>3, <1>6, <2>1, <2>2, GotoFields, TidyTells
  <2>3. CASE next = "off"
    <3>1. /\ proc'[p].pc = "off" /\ proc'[p].read = {} /\ ~proc'[p].broke
          /\ proc[p].read = {}
      BY <1>6, <2>3, GotoFields, OffTells DEF ToTell, Reads
    <3>2. Stage(p) = "away" /\ Stage(p)' = "away"
      BY <1>6, <3>1 DEF Stage, AtWork, Holds
    <3>3. ToTell(p)'
      BY <3>1 DEF ToTell, Reads, Reading
    <3> QED
      BY <1>3, <3>1, <3>2, <3>3 DEF Staying
  <2> QED
    BY <2>2, <2>3
<1>7. CASE Start(p)
  <2>1. PICK k \in Keys, first \in {"pick", "output"} :
          proc' = [proc EXCEPT ![p] = [Off EXCEPT !.pc = first, !.key = k]]
    BY <1>7 DEF Start
  <2>2. proc'[p].pc = first /\ proc'[p].read = {} /\ ~proc'[p].broke
    BY <2>1 DEF ProcType, Off
  <2> QED
    BY <1>3, <1>7, <2>2, AwayTells DEF Start
<1>8. CASE Stop(p)
  <2>1. /\ proc'[p].pc = proc[p].pc /\ proc'[p].key = proc[p].key
        /\ proc'[p].read = proc[p].read /\ proc'[p].broke = proc[p].broke
        /\ proc'[p].replied = proc[p].replied
    BY <1>8 DEF Stop, ProcType, ProcState
  <2>2. ToTell(p)' /\ Staying(p)
    BY <2>1 DEF ToTell, Staying, Stage, AtWork, Holds, Reads, Revising
  <2> QED
    BY <1>3, <2>2
<1>9. ASSUME NEW next \in {"off", "output", "feedback"}, Goto(p, next),
             proc[p].pc \in {"pick", "output"}, Revising(p)
      PROVE  ToTell(p)' /\ Turns(p)
  <2>1. ~proc[p].broke
    BY <1>9 DEF ToTell
  <2>2. /\ proc'[p].pc = next /\ proc'[p].read \in {proc[p].read, {}}
        /\ ~proc'[p].broke
    BY <1>2, <1>9, <2>1, GotoFields, OffTells
  <2> QED
    BY <1>3, <1>9, <2>2, AwayTells
<1>10. CASE Pick(p)
  <2>1. PICK next \in {"output", "off"} : Goto(p, next)
    BY <1>10 DEF Pick
  <2> QED
    BY <1>9, <1>10, <2>1 DEF Pick, Knows, RevisionOnly
<1>11. CASE Output(p)
  <2>1. PICK next \in {"feedback", "fetch", "off"} : Goto(p, next) /\ (next = "fetch" => ~Revising(p))
    BY <1>11 DEF Output
  <2>2. CASE ~Revising(p)
    BY <1>2, <1>6, <2>1, <2>2
  <2>3. CASE Revising(p)
    BY <1>9, <1>11, <2>1, <2>3 DEF Output
  <2> QED
    BY <2>2, <2>3
<1>12. CASE Feedback(p)
  <2>1. Revising(p) /\ proc[p].pc = "feedback" /\ ~proc[p].broke
    BY <1>12 DEF Feedback, Knows, RevisionOnly, ToTell
  <2>2. ASSUME NEW next \in {"claim", "answer"},
               proc' = [proc EXCEPT ![p].pc = next, ![p].read = Newest]
        PROVE  ToTell(p)' /\ Turns(p)
    <3>1. /\ proc'[p].pc = next /\ proc'[p].key = proc[p].key /\ proc'[p].read = Newest
          /\ proc'[p].broke = proc[p].broke /\ proc'[p].replied = proc[p].replied
      BY <2>2 DEF ProcType, ProcState
    <3>2. Stage(p) = "away"
      BY <2>1 DEF Stage, AtWork, Holds
    <3>3. Stage(p)' = "working" /\ ToTell(p)'
      BY <2>1, <3>1 DEF Stage, AtWork, Holds, ToTell, Reads, Reading, Revising, Knows
    <3> QED
      BY <3>1, <3>2, <3>3 DEF Turns, Turning
  <2> QED
    BY <1>4, <1>12, <2>1, <2>2 DEF Feedback
<1>13. CASE Fetch(p) \/ RemoveOld(p) \/ Save(p)
  <2>1. /\ proc[p].pc \in Reading
        /\ Break(p) \/ \E next \in {"remove", "save", "add"} : Goto(p, next)
    BY <1>13 DEF Fetch, RemoveOld, Save, Prepare, Reading
  <2>2. {"remove", "save", "add"} \subseteq Reading \cap Steps
    BY <1>2 DEF Reading
  <2> QED
    BY <1>4, <1>5, <2>1, <2>2
<1>14. CASE AddNew(p)
  <2>1. proc[p].pc = "add"
    BY <1>14 DEF AddNew
  <2>2. CASE proc' = [proc EXCEPT ![p].pc = IF Revising(p) THEN "revise" ELSE "log",
                                  ![p].housed = TRUE]
    <3>1. /\ proc'[p].pc = IF Revising(p) THEN "revise" ELSE "log"
          /\ proc'[p].key = proc[p].key /\ proc'[p].read = proc[p].read
          /\ proc'[p].broke = proc[p].broke
      BY <2>2 DEF ProcType, ProcState
    <3>2. CASE Revising(p)
      BY <1>3, <2>1, <3>1, <3>2, WorkingOn DEF Reading
    <3>3. CASE ~Revising(p)
      BY <1>3, <3>1, <3>3, TidyTells DEF Revising
    <3> QED
      BY <3>2, <3>3
  <2>3. CASE Break(p)
    BY <1>4, <2>1, <2>3 DEF Reading
  <2> QED
    BY <1>14, <2>2, <2>3 DEF AddNew
<1>15. CASE Revise(p) \/ Push(p)
  <2>1. /\ proc[p].pc \in Reading
        /\ Break(p) \/ \E next \in {"push", "answer"} : Goto(p, next)
    BY <1>15 DEF Revise, Push, Reading
  <2>2. {"push", "answer"} \subseteq Reading \cap Steps
    BY <1>2 DEF Reading
  <2> QED
    BY <1>4, <1>5, <2>1, <2>2
<1>16. CASE Log(p) \/ Autosquash(p) \/ ForcePush(p)
  <2>1. /\ proc[p].pc \in TidyOnly /\ ~Revising(p)
        /\ Break(p) \/ \E next \in {"head", "release", "tell", "force"} : Goto(p, next)
    BY <1>16 DEF Log, Look, Autosquash, ForcePush, Knows, TidyOnly
  <2> QED
    BY <1>2, <1>4, <1>6, <2>1
<1>17. CASE Lease(p)
  <2>1. proc[p].pc \in TidyOnly /\ ~Revising(p)
    BY <1>17 DEF Lease, Look, Knows, TidyOnly
  <2>2. CASE proc' = [proc EXCEPT ![p].pc = "squash", ![p].leased = local]
    <3>1. proc'[p].pc = "squash" /\ proc'[p].key = proc[p].key /\ proc'[p].read = proc[p].read
      BY <2>2 DEF ProcType, ProcState
    <3> QED
      BY <1>3, <2>1, <3>1, TidyTells DEF Revising
  <2> QED
    BY <1>4, <1>17, <2>1, <2>2 DEF Lease, Look
<1>18. CASE Tell(p)
  <2>1. PICK broke \in BOOLEAN : Done(p, "release", broke)
    BY <1>18 DEF Tell
  <2>2. ~Revising(p) /\ proc'[p].pc = "release" /\ ~Revising(p)' /\ proc'[p].read = {}
    BY <1>2, <1>18, <2>1, DoneFields DEF Tell, Knows, TidyOnly, Revising
  <2> QED
    BY <1>3, <2>2, TidyTells
<1>19. CASE Release(p)
  <2>1. /\ proc[p].pc = "release"
        /\ Goto(p, IF ~Revising(p) THEN "off" ELSE IF proc[p].broke THEN "sorry" ELSE "labels")
    BY <1>19 DEF Release
  <2>2. CASE ~Revising(p)
    BY <1>2, <1>6, <2>1, <2>2
  <2>3. CASE Revising(p)
    <3>1. /\ proc'[p].pc = IF proc[p].broke THEN "sorry" ELSE "labels"
          /\ proc'[p].key = proc[p].key /\ proc'[p].read = proc[p].read
          /\ proc'[p].broke = proc[p].broke /\ proc'[p].replied = proc[p].replied
      BY <1>2, <2>1, <2>3, GotoFields
    <3>2. proc[p].broke = ~proc[p].replied /\ proc[p].read = {}
      BY <2>1, <2>3 DEF ToTell, Reads, Reading
    <3>3. ToTell(p)' /\ Staying(p)
      BY <2>1, <2>3, <3>1, <3>2 DEF ToTell, Staying, Stage, AtWork, Holds, Reads, Reading, Revising
    <3> QED
      BY <1>3, <3>3
  <2> QED
    BY <2>2, <2>3
<1> QED
  BY <1>7, <1>8, <1>10, <1>11, <1>12, <1>13, <1>14, <1>15, <1>16, <1>17, <1>18, <1>19

\* The stages of all processes, and their notes.
At == [p \in Procs |-> Stage(p)]
Notes == [p \in Procs |-> proc[p].read]

\* What one process does to them.
LEMMA OneTurns ==
  ASSUME NEW p \in Procs, Alone(p)
  PROVE  /\ At' = [At EXCEPT ![p] = Stage(p)']
         /\ Notes' = [Notes EXCEPT ![p] = proc'[p].read]
         /\ Staying(p) => UNCHANGED <<At, Notes>>
<1>1. \A q \in Procs \ {p} : Stage(q)' = Stage(q) /\ proc'[q].read = proc[q].read
  BY DEF Alone, Stage, AtWork, Holds, Revising
<1> QED
  BY <1>1 DEF At, Notes, Staying

\* One that has no more use for its notes turns to something else.
LEMMA OneForgets ==
  ASSUME NEW p \in Procs, Alone(p), NEW stage, Turning(p, stage, {})
  PROVE  Talk!Turn(p, stage) /\ Talk!Forget(p)
BY OneTurns DEF Turning, At, Notes, Talk!Turn, Talk!Note, Talk!Forget

\* A run that says nothing takes its turn as Conversation has it.
LEMMA TurnsInTalk ==
  ASSUME TypeOK, NEW p \in Procs, Alone(p), Turns(p), UNCHANGED <<asks, posted, cut, heard, passed>>
  PROVE  [Talk!Next]_Talk!vars
<1>1. Talk!Silent /\ At[p] = Stage(p)
  BY DEF Talk!Silent, At
<1>2. CASE Staying(p)
  BY <1>2, OneTurns DEF Talk!vars, At, Notes
<1>3. CASE Stage(p) = "working" /\ Turning(p, "sorry", {})
  <2>1. Talk!Turn(p, "sorry") /\ Talk!Forget(p)
    BY <1>3, OneForgets
  <2>2. Talk!Break(p)
    BY <1>1, <1>3, <2>1 DEF Talk!Break, At
  <2> QED
    BY <2>2 DEF Talk!Next
<1>4. CASE Stage(p) = "away" /\ Turning(p, "working", Newest)
  <2>1. Newest \in SUBSET Talk!Waiting
    BY ReviewAssumption DEF Newest, Pending, Talk!Waiting, TypeOK
  <2>2. Talk!Turn(p, "working") /\ Talk!Note(p, Newest)
    BY <1>4, OneTurns DEF Turning, At, Notes, Talk!Turn, Talk!Note
  <2>3. Talk!Read(p)
    BY <1>1, <1>4, <2>1, <2>2 DEF At, Talk!Read, Talk!Note
  <2> QED
    BY <2>3 DEF Talk!Next
<1>5. CASE Stage(p) = "away" /\ Turning(p, "sorry", {})
  <2>1. Talk!Turn(p, "sorry") /\ Talk!Forget(p)
    BY <1>5, OneForgets
  <2>2. Talk!Read(p)
    BY <1>1, <1>5, <2>1 DEF At, Talk!Read
  <2> QED
    BY <2>2 DEF Talk!Next
<1> QED
  BY <1>2, <1>3, <1>4, <1>5 DEF Turns

\* A claim is a claim.
LEMMA ClaimInTalk ==
  ASSUME TypeOK, NEW p \in Procs, Knows(p), Knows(p)', ToTell(p), ClaimFeedback(p)
  PROVE  ToTell(p)' /\ [Talk!Next]_Talk!vars
<1>1. ProcType /\ proc[p] \in ProcState
  BY DEF TypeOK, ProcType
<1>2. /\ Revising(p) /\ proc[p].pc = "claim" /\ Stage(p) = "working"
      /\ UNCHANGED <<posted, cut, heard, passed>>
  BY DEF ClaimFeedback, Knows, RevisionOnly, ToTell, Stage, AtWork, Holds, Revising
<1>3. PICK o \in Outcomes(p) :
        /\ asks' = IF Landed(o) THEN asks \cup {"in-progress"} ELSE asks
        /\ IF o = "ok" THEN Goto(p, "fetch") ELSE Break(p)
  BY DEF ClaimFeedback
<1>4. CASE o = "ok"
  <2>1. /\ Alone(p) /\ proc'[p].pc = "fetch" /\ proc'[p].key = proc[p].key
        /\ proc'[p].read = proc[p].read /\ proc'[p].broke = proc[p].broke
    BY <1>1, <1>3, <1>4, GotoFields DEF Steps
  <2>2. ToTell(p)' /\ Staying(p)
    BY <1>2, <2>1, WorkingOn DEF Reading
  <2>3. Talk!Claim(p)
    BY <1>2, <1>3, <1>4, <2>1, <2>2, OneTurns DEF Talk!Claim, Landed, At, Notes
  <2> QED
    BY <2>2, <2>3 DEF Talk!Next
<1>5. CASE o # "ok"
  <2>1. Alone(p) /\ ToTell(p)' /\ Turning(p, "sorry", {})
    BY <1>1, <1>2, <1>3, <1>5, BreakTells, BreakFields
  <2>2. CASE Landed(o)
    <3>1. Talk!Turn(p, "sorry") /\ Talk!Forget(p)
      BY <2>1, OneForgets
    <3>2. Talk!Claim(p)
      BY <1>2, <1>3, <2>2, <3>1 DEF Talk!Claim
    <3> QED
      BY <2>1, <3>2 DEF Talk!Next
  <2>3. CASE ~Landed(o)
    <3>1. UNCHANGED <<asks, posted, cut, heard, passed>> /\ Turns(p)
      BY <1>2, <1>3, <2>1, <2>3 DEF Turns
    <3> QED
      BY <2>1, <3>1, TurnsInTalk
  <2> QED
    BY <2>2, <2>3
<1> QED
  BY <1>4, <1>5

\* Conversation counts as Review does.
LEMMA CountsAlike == ASSUME NEW S PROVE Talk!Cardinality(S) = Cardinality(S)
BY DEF Talk!Cardinality, Cardinality

\* A reply hides only what Conversation lets it hide, since it covers all there is.
LEMMA AnswerInTalk ==
  ASSUME TypeOK, NEW p \in Procs, Knows(p), Knows(p)', ToTell(p), AnswersCover, Answer(p)
  PROVE  ToTell(p)' /\ [Talk!Next]_Talk!vars
<1>1. ProcType /\ proc[p] \in ProcState
  BY DEF TypeOK, ProcType
<1>2. /\ Revising(p) /\ proc[p].pc = "answer" /\ Stage(p) = "working" /\ Reads(p)
      /\ UNCHANGED <<asks, posted, passed>>
  BY DEF Answer, Knows, RevisionOnly, ToTell, Stage, AtWork, Holds, Revising, Reads, Reading
<1>3. PICK o \in CleanupOutcomes :
        /\ IF Landed(o) THEN Reply /\ heard' = heard \cup proc[p].read
           ELSE UNCHANGED <<cut, heard>>
        /\ IF o = "ok" THEN Done(p, AfterAnswer(p), FALSE) ELSE Break(p)
  BY DEF Answer
<1>4. o = "ok" => Alone(p) /\ ToTell(p)' /\ Turning(p, "leaving", {})
  <2>1. SUFFICES ASSUME o = "ok" PROVE Alone(p) /\ ToTell(p)' /\ Turning(p, "leaving", {})
    OBVIOUS
  <2>2. AfterAnswer(p) \in {"release", "labels"} /\ AfterAnswer(p) \in Steps
    BY DEF AfterAnswer, Steps
  <2>3. /\ Alone(p) /\ proc'[p].pc \in {"release", "labels"} /\ proc'[p].key = proc[p].key
        /\ proc'[p].read = {} /\ proc'[p].broke = FALSE /\ proc'[p].replied = TRUE
    BY <1>1, <1>3, <2>1, <2>2, DoneFields
  <2> QED
    BY <1>2, <2>3 DEF ToTell, Turning, Stage, AtWork, Holds, Reads, Reading, Revising
<1>5. o # "ok" => Alone(p) /\ ToTell(p)' /\ Turning(p, "sorry", {})
  BY <1>1, <1>2, <1>3, BreakTells, BreakFields
<1>6. CASE Landed(o)
  <2>1. 1..cut' = 1..posted /\ heard' = heard \cup Notes[p] /\ At[p] = "working"
    BY <1>2, <1>3, <1>6 DEF Reply, At, Notes
  <2>2. \A c \in Talk!Waiting \ (heard' \cup passed) :
          Talk!Cardinality({d \in heard' : d > c}) >= MaxFeedbackItems
    BY <1>2, <2>1, CountsAlike DEF AnswersCover, Reads, Covered, Talk!Waiting, Notes
  <2>3. (Talk!Turn(p, "leaving") \/ Talk!Turn(p, "sorry")) /\ Talk!Forget(p)
    BY <1>4, <1>5, OneForgets
  <2>4. Talk!Reply(p)
    BY <1>2, <2>1, <2>2, <2>3 DEF Talk!Reply, At, Notes
  <2> QED
    BY <1>4, <1>5, <2>4 DEF Talk!Next
<1>7. CASE ~Landed(o)
  <2>1. o # "ok"
    BY <1>7 DEF Landed, CleanupOutcomes, CallFaults
  <2>2. Alone(p) /\ ToTell(p)' /\ Turns(p)
    BY <1>2, <1>5, <2>1 DEF Turns
  <2>3. UNCHANGED <<asks, posted, cut, heard, passed>>
    BY <1>2, <1>3, <1>7
  <2> QED
    BY <2>2, <2>3, TurnsInTalk
<1> QED
  BY <1>6, <1>7

\* So is an apology.
LEMMA SorryInTalk ==
  ASSUME TypeOK, NEW p \in Procs, Knows(p), Knows(p)', ToTell(p), Sorry(p)
  PROVE  ToTell(p)' /\ [Talk!Next]_Talk!vars
<1>1. ProcType /\ proc[p] \in ProcState
  BY DEF TypeOK, ProcType
<1>2. /\ Revising(p) /\ proc[p].pc = "sorry" /\ Stage(p) = "sorry" /\ proc[p].read = {}
      /\ UNCHANGED <<asks, posted, heard>> /\ Goto(p, "labels")
  BY DEF Sorry, Knows, RevisionOnly, ToTell, Stage, AtWork, Holds, Revising, Reads, Reading
<1>3. /\ Alone(p) /\ proc'[p].pc = "labels" /\ proc'[p].key = proc[p].key
      /\ proc'[p].read = {} /\ proc'[p].broke = proc[p].broke
  BY <1>1, <1>2, GotoFields DEF Steps
<1>4. ToTell(p)' /\ Stage(p)' = "leaving"
  BY <1>2, <1>3 DEF ToTell, Stage, AtWork, Holds, Reads, Reading, Revising
<1>5. Notes' = Notes
  <2>1. \A q \in Procs : proc'[q].read = proc[q].read
    BY <1>2, <1>3 DEF Alone
  <2> QED
    BY <2>1 DEF Notes
<1>6. Talk!Waiting = Pending
  BY ReviewAssumption DEF Talk!Waiting, Pending, TypeOK
<1>7. \/ cut' = posted /\ passed' = passed \cup Talk!Waiting
      \/ UNCHANGED <<cut, passed>>
  BY <1>6 DEF Sorry, Reply
<1>8. Talk!Turn(p, "leaving")
  BY <1>3, <1>4, OneTurns DEF At, Talk!Turn
<1>9. Talk!Apologise(p)
  BY <1>2, <1>5, <1>7, <1>8 DEF Talk!Apologise, Notes
<1> QED
  BY <1>4, <1>9 DEF Talk!Next

\* A run ends by taking the labels off, or by being gone.
LEMMA EndInTalk ==
  ASSUME TypeOK, NEW p \in Procs, Knows(p), ToTell(p), ReleaseFeedback(p) \/ Kill(p)
  PROVE  ToTell(p)' /\ [Talk!Next]_Talk!vars
<1>1. ProcType /\ proc[p] \in ProcState
  BY DEF TypeOK, ProcType
<1>2. /\ Goto(p, "off") /\ UNCHANGED <<posted, cut, heard, passed>>
      /\ proc[p].pc # "off"
  BY DEF ReleaseFeedback, Kill
<1>3. Alone(p) /\ proc'[p] = Off
  BY <1>1, <1>2, GotoFields DEF Steps
<1>4. ToTell(p)' /\ Turning(p, "away", {})
  BY <1>3, OffTells DEF ToTell, Turning, Stage, AtWork, Holds, Revising, Reads, Reading
<1>5. CASE ReleaseFeedback(p)
  <2>1. Stage(p) = "leaving" /\ proc[p].read = {}
    BY <1>5 DEF ReleaseFeedback, Knows, RevisionOnly, Stage, AtWork, Holds, Revising, ToTell, Reads, Reading
  <2>2. asks' \in {asks, {}}
    BY <1>5 DEF ReleaseFeedback
  <2>3. \A q \in Procs : proc'[q].read = proc[q].read
    BY <1>3, <1>4, <2>1 DEF Alone, Turning
  <2>4. Talk!Turn(p, "away")
    BY <1>3, <1>4, OneForgets
  <2>5. Talk!Leave(p)
    BY <1>2, <2>1, <2>2, <2>3, <2>4 DEF Talk!Leave
  <2> QED
    BY <1>4, <2>5 DEF Talk!Next
<1>6. CASE Kill(p) /\ Stage(p) # "away"
  <2>1. Talk!Turn(p, "away") /\ Talk!Forget(p)
    BY <1>3, <1>4, OneForgets
  <2>2. Talk!Vanish(p)
    BY <1>2, <1>6, <2>1 DEF Talk!Vanish, Talk!Silent, Kill
  <2> QED
    BY <1>4, <2>2 DEF Talk!Next
<1>7. CASE Kill(p) /\ Stage(p) = "away"
  <2>1. proc[p].read = {}
    BY <1>7 DEF Stage, AtWork, Holds, Revising, ToTell, Reads, Reading, Knows
  <2>2. Turns(p) /\ UNCHANGED asks
    BY <1>4, <1>7, <2>1 DEF Turns, Staying, Turning, Kill
  <2> QED
    BY <1>2, <1>3, <1>4, <2>2, TurnsInTalk
<1> QED
  BY <1>5, <1>6, <1>7

\* What people do is what they do in Conversation.
LEMMA PeopleInTalk ==
  ASSUME TypeOK, Person
  PROVE  [Talk!Next]_Talk!vars
<1>1. UNCHANGED proc
  BY DEF Person, Comment, Ask, PushCommit, Close, Clear, Unlock
<1>2. UNCHANGED <<At, Notes>>
  BY <1>1 DEF At, Notes, Stage, AtWork, Holds, Revising
<1>3. CASE Comment
  <2>1. \A p \in Procs : AtWork(p) <=> At[p] \in {"working", "sorry"}
    BY DEF At, Stage
  <2>2. Talk!Post
    BY <1>2, <1>3, <2>1 DEF Comment, Talk!Post, At, Notes
  <2> QED
    BY <2>2 DEF Talk!Next
<1>4. CASE Ask
  <2>1. Talk!Ask
    BY <1>2, <1>4 DEF Ask, Talk!Ask, At, Notes
  <2> QED
    BY <2>1 DEF Talk!Next
<1>5. CASE Clear
  <2>1. \A p \in Procs : At[p] = "away"
    BY <1>5 DEF Clear, At, Stage, AtWork, Holds, Revising
  <2>2. Talk!Ask
    BY <1>2, <1>5, <2>1 DEF Clear, Talk!Ask, At, Notes
  <2> QED
    BY <2>2 DEF Talk!Next
<1>6. CASE PushCommit \/ Close \/ \E k \in Keys : Unlock(k)
  <2>1. UNCHANGED <<asks, posted, cut, heard, passed>>
    BY <1>6 DEF PushCommit, Close, Unlock, forgeVars
  <2> QED
    BY <1>2, <2>1 DEF Talk!vars, At, Notes
<1> QED
  BY <1>3, <1>4, <1>5, <1>6 DEF Person

\* What a run has to tell stays so, and a step is one that Conversation has.
LEMMA NextInTalk ==
  ASSUME IInv, \A p \in Procs : ToTell(p), [Next]_vars
  PROVE  /\ \A p \in Procs : ToTell(p)'
         /\ [Talk!Next]_Talk!vars
<1>1. TypeOK /\ (\A p \in Procs : Knows(p) /\ ToTell(p)) /\ AnswersCover
  BY DEF IInv
<1>2. \A p \in Procs : Knows(p)'
  BY <1>1, KnowsStep
<1>3. ASSUME NEW p \in Procs, Alone(p), ToTell(p)' PROVE \A q \in Procs : ToTell(q)'
  <2>1. ASSUME NEW q \in Procs \ {p} PROVE ToTell(q)'
    BY <1>1, <1>3, <2>1 DEF Alone, ToTell, Reads, Revising
  <2> QED
    BY <1>3, <2>1
<1>4. ASSUME NEW p \in Procs, Start(p) \/ Step(p) \/ Stop(p) \/ Kill(p)
      PROVE  (\A q \in Procs : ToTell(q)') /\ [Talk!Next]_Talk!vars
  <2>1. Alone(p)
    BY <1>1, <1>4, StepMoves, OutsideMoves DEF Moved
  <2>2. ToTell(p)' /\ [Talk!Next]_Talk!vars
    <3>1. CASE ClaimFeedback(p)
      BY <1>1, <1>2, <3>1, ClaimInTalk
    <3>2. CASE Answer(p)
      BY <1>1, <1>2, <3>2, AnswerInTalk
    <3>3. CASE Sorry(p)
      BY <1>1, <1>2, <3>3, SorryInTalk
    <3>4. CASE ReleaseFeedback(p) \/ Kill(p)
      BY <1>1, <3>4, EndInTalk
    <3>5. CASE ~(ClaimFeedback(p) \/ Answer(p) \/ Sorry(p) \/ ReleaseFeedback(p) \/ Kill(p))
      <4>1. \/ Start(p) \/ Stop(p) \/ Pick(p) \/ Output(p) \/ Feedback(p) \/ Fetch(p)
            \/ RemoveOld(p) \/ Save(p) \/ AddNew(p) \/ Revise(p) \/ Push(p) \/ Log(p)
            \/ Lease(p) \/ Autosquash(p) \/ ForcePush(p) \/ Tell(p) \/ Release(p)
        BY <1>4, <3>5 DEF Step
      <4>2. ToTell(p)' /\ Turns(p)
        BY <1>1, <1>2, <4>1, SilentTurns
      <4>3. UNCHANGED <<asks, posted, cut, heard, passed>>
        BY <1>1, <4>1, SilentSteps DEF forgeVars
      <4> QED
        BY <1>1, <2>1, <4>2, <4>3, TurnsInTalk
    <3> QED
      BY <3>1, <3>2, <3>3, <3>4, <3>5
  <2> QED
    BY <1>3, <2>1, <2>2
<1>5. CASE Person
  <2>1. UNCHANGED proc
    BY <1>5 DEF Person, Comment, Ask, PushCommit, Close, Clear, Unlock
  <2>2. \A p \in Procs : ToTell(p)'
    BY <1>1, <2>1 DEF ToTell, Reads, Revising
  <2> QED
    BY <1>1, <1>5, <2>2, PeopleInTalk
<1>6. CASE UNCHANGED vars
  <2>1. UNCHANGED <<proc, asks, posted, cut, heard, passed>>
    BY <1>6 DEF vars
  <2>2. \A p \in Procs : ToTell(p)'
    BY <1>1, <2>1 DEF ToTell, Reads, Revising
  <2>3. UNCHANGED <<At, Notes>>
    BY <2>1 DEF At, Notes, Stage, AtWork, Holds, Revising
  <2> QED
    BY <2>1, <2>2, <2>3 DEF Talk!vars, At, Notes
<1> QED
  BY <1>4, <1>5, <1>6 DEF Next

\* Runs keep to what Conversation promises the reviewers: a reply is given once and hides
\* only what was answered or is excused, a run that broke says so at most once, and the
\* labels come off last (revise.go, Revise and answer; github.go, Feedback and Reply).
THEOREM ConversationKept == Spec => KeepsTheConversation
<1>1. Init => Talk!Init /\ \A p \in Procs : ToTell(p)
  BY OffTells DEF Init, Talk!Init, Stage, AtWork, Holds, Revising, ToTell, Reads, Reading
<1>2. IInv /\ (\A p \in Procs : ToTell(p)) /\ [Next]_vars =>
        (\A p \in Procs : ToTell(p))' /\ [Talk!Next]_Talk!vars
  BY NextInTalk
<1> QED
  BY <1>1, <1>2, Inductive, PTL DEF Spec, Talk!Spec, KeepsTheConversation
=============================================================================
