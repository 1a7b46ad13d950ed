--------------------------- MODULE EngineCapProofs ---------------------------
(***************************************************************************)
(* A proof that the cap is overshot by no more than one task for each      *)
(* other run (internal/run/engine.go, pick), however runs fail, stop or    *)
(* are killed.  Nobody names a task, which is to run it whatever the cap,  *)
(* and nobody reopens an issue.                                            *)
(*                                                                         *)
(* The cap is checked in two reads and claimed later, so what bounds it is *)
(* not what a run saw but how often it can be wrong: each run may add one  *)
(* task before it has to look again, and what it sees then has the tasks   *)
(* of the others in it.                                                    *)
(***************************************************************************)
EXTENDS EngineProofs

\* Past the check of the cap, and not yet claimed; and on a task, with its pull request
\* still to be opened.
Picking == { "next", "get", "claim" }

AtWork == { "pushed", "prepare", "implement", "check", "push", "lookup", "create" }

WorksOn(r, t) == run[r].pc \in AtWork /\ run[r].task = t

\* The runs that may still add a task to what counts.
Unspent == {r \in Runs : run[r].pc \in Picking \cup AtWork}

\* The tasks that count whatever becomes of the runs that may add one.
Sunk == OpenPulls \cup {t \in Claimed : \A r \in Runs : ~WorksOn(r, t)}

\* The runs between the two reads; and those that may add a task before one of them has
\* claimed one, if it passes: it saw no more pull requests than they have.
Counting == {r \in Runs : run[r].pc = "claims"}

Ahead(s) == Unspent \cup {q \in Counting : run[q].outputs <= run[s].outputs}

\* There is room for what all of these runs may add.
RoomFor(runs) ==
  Cardinality(Sunk) + Cardinality(runs) < MaxOpenOutputs + Cardinality(Runs)

\* Each pull request opened since the run counted them is of another run, which is spent; or
\* a run that counted later has passed, and there is room.
MayPass(s) ==
  \/ Cardinality(OpenPulls) - run[s].outputs + Cardinality(Ahead(s)) <= Cardinality(Runs)
  \/ RoomFor(Ahead(s))

CapInv == RoomFor(Unspent) /\ \A s \in Counting : MayPass(s)
-----------------------------------------------------------------------------
\* Some of finitely many can be counted, and are no more.
LEMMA SomeOf ==
  ASSUME NEW T, IsFiniteSet(T), NEW S, S \subseteq T
  PROVE  IsFiniteSet(S) /\ Cardinality(S) \in Nat /\ Cardinality(S) <= Cardinality(T)
<1>1. S \in SUBSET T
  OBVIOUS
<1> QED
  BY <1>1, FS_Subset, FS_CardinalityType

\* One more, at the most.
LEMMA OneMore ==
  ASSUME NEW T, IsFiniteSet(T), NEW x, NEW S, S \subseteq T \cup {x}
  PROVE  IsFiniteSet(S) /\ Cardinality(S) \in Nat /\ Cardinality(S) <= Cardinality(T) + 1
<1>1. /\ IsFiniteSet(T \cup {x}) /\ Cardinality(T) \in Nat
      /\ Cardinality(T \cup {x}) = IF x \in T THEN Cardinality(T) ELSE Cardinality(T) + 1
  BY FS_AddElement, FS_CardinalityType
<1>2. IsFiniteSet(S) /\ Cardinality(S) \in Nat /\ Cardinality(S) <= Cardinality(T \cup {x})
  BY <1>1, SomeOf
<1> QED
  BY <1>1, <1>2

\* One fewer, at the least.
LEMMA OneFewer ==
  ASSUME NEW T, IsFiniteSet(T), NEW x \in T, NEW S, S \subseteq T \ {x}
  PROVE  IsFiniteSet(S) /\ Cardinality(S) \in Nat /\ Cardinality(S) + 1 <= Cardinality(T)
<1>1. /\ IsFiniteSet(T \ {x}) /\ Cardinality(T) \in Nat
      /\ Cardinality(T \ {x}) = Cardinality(T) - 1
  BY FS_RemoveElement, FS_CardinalityType
<1>2. IsFiniteSet(S) /\ Cardinality(S) \in Nat /\ Cardinality(S) <= Cardinality(T \ {x})
  BY <1>1, SomeOf
<1> QED
  BY <1>1, <1>2

\* Of two together, no more than of each.
LEMMA Together ==
  ASSUME NEW S, IsFiniteSet(S), NEW T, IsFiniteSet(T), NEW U, U \subseteq S \cup T
  PROVE  IsFiniteSet(U) /\ Cardinality(U) \in Nat /\ Cardinality(U) <= Cardinality(S) + Cardinality(T)
<1>1. /\ IsFiniteSet(S \cup T)
      /\ Cardinality(S \cup T) = Cardinality(S) + Cardinality(T) - Cardinality(S \cap T)
  BY FS_Union
<1>2. Cardinality(S \cap T) \in Nat /\ Cardinality(S) \in Nat /\ Cardinality(T) \in Nat
  BY SomeOf, FS_CardinalityType
<1>3. IsFiniteSet(U) /\ Cardinality(U) \in Nat /\ Cardinality(U) <= Cardinality(S \cup T)
  BY <1>1, SomeOf
<1> QED
  BY <1>1, <1>2, <1>3

\* What is counted is finite.
LEMMA Finite ==
  ASSUME TypeOK
  PROVE  /\ IsFiniteSet(Runs) /\ Cardinality(Runs) \in Nat /\ MaxOpenOutputs \in Nat
         /\ IsFiniteSet(OpenPulls) /\ Cardinality(OpenPulls) \in Nat
         /\ IsFiniteSet(Claimed) /\ Cardinality(Claimed) \in Nat
         /\ IsFiniteSet(Sunk) /\ Cardinality(Sunk) \in Nat
         /\ IsFiniteSet(Unspent) /\ Cardinality(Unspent) \in Nat
         /\ \A s : /\ IsFiniteSet(Ahead(s)) /\ Cardinality(Ahead(s)) \in Nat
                   /\ Cardinality(Ahead(s)) <= Cardinality(Runs)
         /\ \A s \in Counting : run[s].outputs \in Nat
<1>1. IsFiniteSet(Runs) /\ IsFiniteSet(Tasks) /\ MaxOpenOutputs \in Nat
  BY EngineAssumption
<1>2. OpenPulls \subseteq Tasks /\ Claimed \subseteq Tasks
  BY DEF OpenPulls, Claimed, TypeOK
<1>3. Sunk \subseteq Tasks
  BY <1>2 DEF Sunk
<1>4. Unspent \subseteq Runs /\ \A s : Ahead(s) \subseteq Runs
  BY DEF Unspent, Ahead, Counting
<1>5. \A s \in Counting : run[s].outputs \in Nat
  BY DEF Counting, TypeOK, RunState
<1> QED
  BY <1>1, <1>2, <1>3, <1>4, <1>5, SomeOf, FS_CardinalityType

\* A run that ends, or what takes a task away, leaves as much room.
LEMMA Easing ==
  ASSUME TypeOK, CapInv,
         Unspent' \subseteq Unspent, Sunk' \subseteq Sunk, OpenPulls' \subseteq OpenPulls,
         Counting' \subseteq Counting, \A s \in Counting' : run'[s].outputs = run[s].outputs
  PROVE  CapInv'
<1>1. /\ Cardinality(Sunk') \in Nat /\ Cardinality(Sunk') <= Cardinality(Sunk)
      /\ Cardinality(Unspent') \in Nat /\ Cardinality(Unspent') <= Cardinality(Unspent)
      /\ Cardinality(OpenPulls') \in Nat /\ Cardinality(OpenPulls') <= Cardinality(OpenPulls)
  BY Finite, SomeOf
<1>2. RoomFor(Unspent)'
  <2>1. Cardinality(Sunk) + Cardinality(Unspent) < MaxOpenOutputs + Cardinality(Runs)
    BY DEF CapInv, RoomFor
  <2>2. Cardinality(Sunk') + Cardinality(Unspent') < MaxOpenOutputs + Cardinality(Runs)
    BY <1>1, <2>1, Finite
  <2> QED
    BY <2>2 DEF RoomFor
<1>3. ASSUME NEW s \in Counting' PROVE MayPass(s)'
  <2>1. Ahead(s)' \subseteq Ahead(s) /\ s \in Counting /\ run'[s].outputs = run[s].outputs
    BY DEF Ahead
  <2>2. Cardinality(Ahead(s)') \in Nat /\ Cardinality(Ahead(s)') <= Cardinality(Ahead(s))
    BY <2>1, Finite, SomeOf
  <2>3. \/ Cardinality(OpenPulls) - run[s].outputs + Cardinality(Ahead(s)) <= Cardinality(Runs)
        \/ Cardinality(Sunk) + Cardinality(Ahead(s)) < MaxOpenOutputs + Cardinality(Runs)
    BY <2>1 DEF CapInv, MayPass, RoomFor
  <2>4. \/ Cardinality(OpenPulls') - run'[s].outputs + Cardinality(Ahead(s)') <= Cardinality(Runs)
        \/ Cardinality(Sunk') + Cardinality(Ahead(s)') < MaxOpenOutputs + Cardinality(Runs)
    BY <1>1, <2>1, <2>2, <2>3, Finite
  <2> QED
    BY <2>4 DEF MayPass, RoomFor
<1> QED
  BY <1>2, <1>3 DEF CapInv

\* A run that may add a task adds it, and may add no other.
LEMMA Spending ==
  ASSUME TypeOK, CapInv, NEW r \in Unspent, NEW t,
         Unspent' \subseteq Unspent \ {r}, Sunk' \subseteq Sunk \cup {t},
         OpenPulls' \subseteq OpenPulls \cup {t},
         Counting' \subseteq Counting, \A s \in Counting' : run'[s].outputs = run[s].outputs
  PROVE  CapInv'
<1>1. /\ Cardinality(Sunk') \in Nat /\ Cardinality(Sunk') <= Cardinality(Sunk) + 1
      /\ Cardinality(OpenPulls') \in Nat /\ Cardinality(OpenPulls') <= Cardinality(OpenPulls) + 1
  BY Finite, OneMore
<1>2. Cardinality(Unspent') \in Nat /\ Cardinality(Unspent') + 1 <= Cardinality(Unspent)
  BY Finite, OneFewer
<1>3. RoomFor(Unspent)'
  <2>1. Cardinality(Sunk) + Cardinality(Unspent) < MaxOpenOutputs + Cardinality(Runs)
    BY DEF CapInv, RoomFor
  <2>2. Cardinality(Sunk') + Cardinality(Unspent') < MaxOpenOutputs + Cardinality(Runs)
    BY <1>1, <1>2, <2>1, Finite
  <2> QED
    BY <2>2 DEF RoomFor
<1>4. ASSUME NEW s \in Counting' PROVE MayPass(s)'
  <2>1. r \notin Counting
    BY DEF Unspent, Counting, Picking, AtWork
  <2>2. Ahead(s)' \subseteq Ahead(s) \ {r} /\ r \in Ahead(s)
        /\ s \in Counting /\ run'[s].outputs = run[s].outputs
    BY <2>1 DEF Ahead
  <2>3. Cardinality(Ahead(s)') \in Nat /\ Cardinality(Ahead(s)') + 1 <= Cardinality(Ahead(s))
    BY <2>2, Finite, OneFewer
  <2>4. \/ Cardinality(OpenPulls) - run[s].outputs + Cardinality(Ahead(s)) <= Cardinality(Runs)
        \/ Cardinality(Sunk) + Cardinality(Ahead(s)) < MaxOpenOutputs + Cardinality(Runs)
    BY <2>2 DEF CapInv, MayPass, RoomFor
  <2>5. \/ Cardinality(OpenPulls') - run'[s].outputs + Cardinality(Ahead(s)') <= Cardinality(Runs)
        \/ Cardinality(Sunk') + Cardinality(Ahead(s)') < MaxOpenOutputs + Cardinality(Runs)
    BY <1>1, <2>2, <2>3, <2>4, Finite
  <2> QED
    BY <2>5 DEF MayPass, RoomFor
<1> QED
  BY <1>3, <1>4 DEF CapInv

\* A run counts the open pull requests.
LEMMA Reading ==
  ASSUME TypeOK, TypeOK', CapInv, NEW r \in Runs, r \notin Unspent,
         run'[r].outputs = Cardinality(OpenPulls), Counting' = Counting \cup {r},
         \A s \in Counting \ {r} : run'[s].outputs = run[s].outputs,
         Unspent' = Unspent, Sunk' = Sunk, OpenPulls' = OpenPulls, r \notin Counting
  PROVE  CapInv'
<1>1. RoomFor(Unspent)'
  BY DEF CapInv, RoomFor
<1>2. ASSUME NEW s \in Counting' PROVE MayPass(s)'
  <2>1. /\ Cardinality(Ahead(s)') \in Nat /\ Cardinality(Ahead(s)') <= Cardinality(Runs)
        /\ Cardinality(Runs) \in Nat /\ Cardinality(OpenPulls) \in Nat
    <3>1. Ahead(s)' \subseteq Runs
      BY DEF Ahead, Unspent, Counting
    <3> QED
      BY <3>1, Finite, SomeOf
  <2>2. CASE s = r
    <3>1. Cardinality(OpenPulls') - run'[s].outputs + Cardinality(Ahead(s)') <= Cardinality(Runs)
      BY <2>1, <2>2
    <3> QED
      BY <3>1 DEF MayPass
  <2>3. CASE s # r /\ Cardinality(OpenPulls) <= run[s].outputs
    <3>1. run'[s].outputs = run[s].outputs /\ run[s].outputs \in Nat
      BY <2>3, Finite
    <3>2. Cardinality(OpenPulls') - run'[s].outputs + Cardinality(Ahead(s)') <= Cardinality(Runs)
      BY <2>1, <2>3, <3>1
    <3> QED
      BY <3>2 DEF MayPass
  <2>4. CASE s # r /\ ~(Cardinality(OpenPulls) <= run[s].outputs)
    <3>1. s \in Counting /\ run'[s].outputs = run[s].outputs /\ MayPass(s)
      BY <2>4 DEF CapInv
    <3>2. Ahead(s)' = Ahead(s)
      <4>1. \A q \in Counting : run'[q].outputs = run[q].outputs
        BY <2>4
      <4>2. ~(run'[r].outputs <= run'[s].outputs)
        BY <2>4, <3>1
      <4> QED
        BY <3>1, <4>1, <4>2 DEF Ahead
    <3> QED
      BY <3>1, <3>2 DEF MayPass, RoomFor
  <2> QED
    BY <2>2, <2>3, <2>4
<1> QED
  BY <1>1, <1>2 DEF CapInv

\* A run passes the check.
LEMMA Passing ==
  ASSUME TypeOK, TypeOK', CapInv, NEW r \in Counting, UnderCap(r),
         Unspent' = Unspent \cup {r}, Counting' = Counting \ {r},
         \A s \in Counting' : run'[s].outputs = run[s].outputs,
         Sunk' = Sunk, OpenPulls' = OpenPulls
  PROVE  CapInv'
<1>1. RoomFor(Ahead(r))
  <2>1. CASE RoomFor(Ahead(r))
    BY <2>1
  <2>2. CASE Cardinality(OpenPulls) - run[r].outputs + Cardinality(Ahead(r)) <= Cardinality(Runs)
    <3>1. Cardinality(Sunk) <= Cardinality(OpenPulls) + Cardinality(Claimed)
      <4>1. Sunk \subseteq OpenPulls \cup Claimed
        BY DEF Sunk
      <4> QED
        BY <4>1, Finite, Together
    <3>2. run[r].outputs + Cardinality(Claimed) < MaxOpenOutputs
      BY DEF UnderCap
    <3>3. Cardinality(Sunk) + Cardinality(Ahead(r)) < MaxOpenOutputs + Cardinality(Runs)
      BY <2>2, <3>1, <3>2, Finite
    <3> QED
      BY <3>3 DEF RoomFor
  <2> QED
    BY <2>1, <2>2 DEF CapInv, MayPass
<1>2. ASSUME NEW U, U \subseteq Ahead(r)
      PROVE  Cardinality(Sunk) + Cardinality(U) < MaxOpenOutputs + Cardinality(Runs)
  <2>1. Cardinality(U) \in Nat /\ Cardinality(U) <= Cardinality(Ahead(r))
    BY <1>2, Finite, SomeOf
  <2>2. Cardinality(Sunk) + Cardinality(Ahead(r)) < MaxOpenOutputs + Cardinality(Runs)
    BY <1>1 DEF RoomFor
  <2> QED
    BY <2>1, <2>2, Finite
<1>3. run[r].outputs \in Nat /\ r \in Ahead(r)
  BY Finite DEF Ahead
<1>4. RoomFor(Unspent)'
  <2>1. Unspent' \subseteq Ahead(r)
    BY <1>3 DEF Ahead
  <2> QED
    BY <1>2, <2>1 DEF RoomFor
<1>5. ASSUME NEW s \in Counting' PROVE MayPass(s)'
  <2>1. s \in Counting /\ run'[s].outputs = run[s].outputs /\ MayPass(s) /\ run[s].outputs \in Nat
    BY Finite DEF CapInv
  <2>2. CASE run[r].outputs <= run[s].outputs
    <3>1. Ahead(s)' = Ahead(s)
      BY <2>1, <2>2 DEF Ahead
    <3> QED
      BY <2>1, <3>1 DEF MayPass, RoomFor
  <2>3. CASE ~(run[r].outputs <= run[s].outputs)
    <3>1. \A q \in Counting : run[q].outputs \in Nat
      BY Finite
    <3>2. Ahead(s)' \subseteq Ahead(r)
      BY <1>3, <2>1, <2>3, <3>1 DEF Ahead
    <3> QED
      BY <1>2, <3>2 DEF MayPass, RoomFor
  <2> QED
    BY <2>2, <2>3
<1> QED
  BY <1>4, <1>5 DEF CapInv

\* The ways in which a run moves: it stays one that may add no task; it may, and does or
\* lets it be; or it still may.
LEMMA RunMoves ==
  ASSUME TypeOK, CapInv, NEW r \in Runs, \A s \in Runs \ {r} : run'[s] = run[s],
         run'[r].pc # "claims",
         \/ /\ run[r].pc \notin AtWork /\ run'[r].pc \notin Picking \cup AtWork
            /\ Claimed' \subseteq Claimed /\ OpenPulls' \subseteq OpenPulls
         \/ /\ r \in Unspent /\ run'[r].pc \notin Picking \cup AtWork
            /\ Claimed' \subseteq Claimed \cup {run[r].task}
            /\ OpenPulls' \subseteq OpenPulls \cup {run[r].task}
         \/ /\ r \in Unspent /\ run'[r].pc \in Picking \cup AtWork
            /\ \A t \in Claimed' : t \in Claimed \/ WorksOn(r, t)'
            /\ OpenPulls' \subseteq OpenPulls
            /\ run[r].pc \in AtWork => run'[r].pc \in AtWork /\ run'[r].task = run[r].task
  PROVE  CapInv'
<1>1. Counting' \subseteq Counting /\ \A s \in Counting' : run'[s].outputs = run[s].outputs
  BY DEF Counting
<1>2. \A s \in Runs \ {r} : \A t : WorksOn(s, t)' <=> WorksOn(s, t)
  BY DEF WorksOn
<1>3. \A s \in Runs \ {r} : s \in Unspent' <=> s \in Unspent
  BY DEF Unspent
<1>4. CASE /\ run[r].pc \notin AtWork /\ run'[r].pc \notin Picking \cup AtWork
           /\ Claimed' \subseteq Claimed /\ OpenPulls' \subseteq OpenPulls
  <2>1. Unspent' \subseteq Unspent
    BY <1>3, <1>4 DEF Unspent
  <2>2. Sunk' \subseteq Sunk
    BY <1>2, <1>4 DEF Sunk, WorksOn
  <2> QED
    BY <1>1, <1>4, <2>1, <2>2, Easing
<1>5. CASE /\ r \in Unspent /\ run'[r].pc \notin Picking \cup AtWork
           /\ Claimed' \subseteq Claimed \cup {run[r].task}
           /\ OpenPulls' \subseteq OpenPulls \cup {run[r].task}
  <2>1. Unspent' \subseteq Unspent \ {r}
    BY <1>3, <1>5 DEF Unspent
  <2>2. Sunk' \subseteq Sunk \cup {run[r].task}
    BY <1>2, <1>5 DEF Sunk, WorksOn
  <2> QED
    BY <1>1, <1>5, <2>1, <2>2, Spending
<1>6. CASE /\ r \in Unspent /\ run'[r].pc \in Picking \cup AtWork
           /\ \A t \in Claimed' : t \in Claimed \/ WorksOn(r, t)'
           /\ OpenPulls' \subseteq OpenPulls
           /\ run[r].pc \in AtWork => run'[r].pc \in AtWork /\ run'[r].task = run[r].task
  <2>1. Unspent' \subseteq Unspent
    BY <1>3, <1>6 DEF Unspent
  <2>2. Sunk' \subseteq Sunk
    <3>1. \A t : WorksOn(r, t) => WorksOn(r, t)'
      BY <1>6 DEF WorksOn
    <3> QED
      BY <1>2, <1>6, <3>1 DEF Sunk
  <2> QED
    BY <1>1, <1>6, <2>1, <2>2, Easing
<1> QED
  BY <1>4, <1>5, <1>6

\* What a label edit makes of the claims.
LEMMA RelabelClaims ==
  ASSUME TypeOK, NEW r, run[r].task \in Tasks, NEW o, NEW added, NEW removed,
         Relabel(r, o, added, removed), UNCHANGED live
  PROVE  /\ Claimed' \subseteq Claimed \cup {run[r].task}
         /\ "in-progress" \notin added => Claimed' \subseteq Claimed
<1>1. \A t \in Tasks :
        /\ t # run[r].task => labels'[t] = labels[t]
        /\ "in-progress" \notin added /\ "in-progress" \in labels'[t] => "in-progress" \in labels[t]
  BY DEF Relabel, TypeOK
<1>2. live \subseteq Tasks
  BY DEF TypeOK
<1> QED
  BY <1>1, <1>2 DEF Claimed

\* A run's step keeps the invariant.
LEMMA StepCap ==
  ASSUME TypeOK, TypeOK', CapInv, NEW r \in Runs, KnowsTask(r), Step(r)
  PROVE  CapInv'
<1>0. /\ run \in [Runs -> RunState] /\ run[r] \in RunState
      /\ \A s \in Runs \ {r} : run'[s] = run[s]
  BY OthersKeep DEF TypeOK
<1>00. UNCHANGED <<live, labels>> => Claimed' = Claimed
  BY DEF Claimed
<1>000. UNCHANGED pr => OpenPulls' = OpenPulls
  BY DEF OpenPulls
<1>1. CASE OpenOutputs(r)
  <2>1. UNCHANGED <<live, labels, pr>> /\ run[r].pc = "outputs"
    BY <1>1 DEF OpenOutputs
  <2>2. CASE run'[r] = Off
    BY <1>0, <1>00, <1>000, <2>1, <2>2, OffFields, RunMoves DEF Picking, AtWork
  <2>3. CASE run' = [run EXCEPT ![r] = Counted(@, Cardinality(OpenPulls))]
    <3>1. run'[r].pc = "claims" /\ run'[r].outputs = Cardinality(OpenPulls)
      BY <1>0, <2>3 DEF Counted, RunState
    <3>2. r \notin Unspent /\ r \notin Counting
      BY <2>1 DEF Unspent, Counting, Picking, AtWork
    <3>3. Counting' = Counting \cup {r} /\ Unspent' = Unspent
      BY <1>0, <3>1, <3>2 DEF Counting, Unspent, Picking, AtWork
    <3>4. \A s \in Runs : \A t : WorksOn(s, t)' <=> WorksOn(s, t)
      BY <1>0, <2>1, <3>1 DEF WorksOn, AtWork
    <3>5. Sunk' = Sunk /\ OpenPulls' = OpenPulls
      BY <1>00, <1>000, <2>1, <3>4 DEF Sunk
    <3>6. \A s \in Counting \ {r} : run'[s].outputs = run[s].outputs
      BY <1>0 DEF Counting
    <3> QED
      BY <3>1, <3>2, <3>3, <3>5, <3>6, Reading
  <2>4. run' = [run EXCEPT ![r] = Counted(@, Cardinality(OpenPulls))] \/ run'[r] = Off
    BY <1>0, <1>1 DEF OpenOutputs
  <2> QED
    BY <2>2, <2>3, <2>4
<1>2. CASE InProgress(r)
  <2>1. /\ UNCHANGED <<live, labels, pr>> /\ run[r].pc = "claims"
        /\ Goto(r, "off") \/ (UnderCap(r) /\ Goto(r, "next"))
    BY <1>2 DEF InProgress
  <2>2. CASE Goto(r, "off")
    <3>1. run'[r].pc = "off"
      BY <1>0, <2>2, GotoFields
    <3> QED
      BY <1>0, <1>00, <1>000, <2>1, <3>1, RunMoves DEF Picking, AtWork
  <2>3. CASE UnderCap(r) /\ Goto(r, "next")
    <3>1. run'[r].pc = "next"
      BY <1>0, <2>3, GotoFields
    <3>2. r \in Counting
      BY <2>1 DEF Counting
    <3>3. Counting' = Counting \ {r} /\ Unspent' = Unspent \cup {r}
      BY <1>0, <3>1, <3>2 DEF Counting, Unspent, Picking, AtWork
    <3>4. \A s \in Runs : \A t : WorksOn(s, t)' <=> WorksOn(s, t)
      BY <1>0, <2>1, <3>1 DEF WorksOn, AtWork
    <3>5. Sunk' = Sunk /\ OpenPulls' = OpenPulls
      BY <1>00, <1>000, <2>1, <3>4 DEF Sunk
    <3>6. \A s \in Counting' : run'[s].outputs = run[s].outputs
      BY <1>0, <3>3 DEF Counting
    <3> QED
      BY <2>3, <3>2, <3>3, <3>5, <3>6, Passing
  <2> QED
    BY <2>1, <2>2, <2>3
\* The other steps of a run that may add a task: it still may, or it may no more.
<1>3. ASSUME run[r].pc \in Picking \cup AtWork, UNCHANGED <<live, labels, pr>>,
             run'[r].pc \in {"off", "comment", "fail", "release", "giveback", "finish"}
      PROVE  CapInv'
  <2>1. r \in Unspent /\ run'[r].pc \notin Picking \cup AtWork /\ run'[r].pc # "claims"
    BY <1>3 DEF Unspent, Picking, AtWork
  <2> QED
    BY <1>0, <1>00, <1>000, <1>3, <2>1, RunMoves
<1>4. ASSUME run[r].pc \in Picking \cup AtWork, UNCHANGED <<live, labels, pr>>,
             \/ run'[r].pc \in Picking /\ run[r].pc \in Picking
             \/ run'[r].pc \in AtWork /\ run'[r].task = run[r].task
      PROVE  CapInv'
  <2>1. /\ r \in Unspent /\ run'[r].pc \in Picking \cup AtWork /\ run'[r].pc # "claims"
        /\ run[r].pc \in AtWork => run'[r].pc \in AtWork /\ run'[r].task = run[r].task
    BY <1>4 DEF Unspent, Picking, AtWork
  <2> QED
    BY <1>0, <1>00, <1>000, <1>4, <2>1, RunMoves
<1>5. CASE NextReady(r)
  <2>1. run[r].pc = "next" /\ UNCHANGED <<live, labels, pr>>
    BY <1>5 DEF NextReady
  <2>2. run'[r].pc \in {"get", "off"}
    BY <1>0, <1>5, OntoFields, GotoFields DEF NextReady
  <2> QED
    BY <1>3, <1>4, <2>1, <2>2 DEF Picking
<1>6. CASE Get(r)
  <2>1. run[r].pc = "get" /\ UNCHANGED <<live, labels, pr>>
    BY <1>6 DEF Get
  <2>2. run'[r].pc \in {"claim", "off"}
    BY <1>0, <1>6, GotoFields DEF Get
  <2> QED
    BY <1>3, <1>4, <2>1, <2>2 DEF Picking
<1>7. CASE Claim(r)
  <2>1. run[r].pc = "claim" /\ UNCHANGED <<live, pr>> /\ run[r].task \in Tasks
    BY <1>7 DEF Claim, KnowsTask
  <2>2. PICK o \in Outcomes(r) :
          /\ Relabel(r, o, {"in-progress"}, {}) /\ Goto(r, IF o = "ok" THEN "pushed" ELSE "off")
    BY <1>7 DEF Claim
  <2>3. Claimed' \subseteq Claimed \cup {run[r].task}
    BY <2>1, <2>2, RelabelClaims
  <2>4. r \in Unspent /\ run[r].pc \notin AtWork
    BY <2>1 DEF Unspent, Picking, AtWork
  <2>5. CASE o = "ok"
    <3>1. run'[r].pc = "pushed" /\ run'[r].task = run[r].task
      BY <1>0, <2>2, <2>5, GotoFields
    <3>2. \A t \in Claimed' : t \in Claimed \/ WorksOn(r, t)'
      BY <2>3, <3>1 DEF WorksOn, AtWork
    <3>3. run'[r].pc \in Picking \cup AtWork /\ run'[r].pc # "claims"
      BY <3>1 DEF AtWork
    <3> QED
      BY <1>0, <1>000, <2>1, <2>4, <3>2, <3>3, RunMoves
  <2>6. CASE o # "ok"
    <3>1. run'[r].pc = "off"
      BY <1>0, <2>2, <2>6, GotoFields
    <3>2. run'[r].pc \notin Picking \cup AtWork /\ run'[r].pc # "claims"
      BY <3>1 DEF Picking, AtWork
    <3> QED
      BY <1>0, <1>000, <2>1, <2>3, <2>4, <3>2, RunMoves
  <2> QED
    BY <2>5, <2>6
<1>8. CASE Pushed(r)
  <2>1. run[r].pc = "pushed" /\ UNCHANGED <<live, labels, pr>>
    BY <1>8 DEF Pushed
  <2>2. \/ run'[r].pc \in {"giveback", "comment"}
        \/ run'[r].pc = "prepare" /\ run'[r].task = run[r].task
    BY <1>0, <1>8, GotoFields DEF Pushed
  <2> QED
    BY <1>3, <1>4, <2>1, <2>2 DEF AtWork
<1>9. CASE Prepare(r)
  <2>1. run[r].pc = "prepare" /\ UNCHANGED <<live, labels, pr>>
    BY <1>9 DEF Prepare
  <2>2. run'[r] = Housed(run[r]) \/ Goto(r, "giveback")
    BY <1>0, <1>9 DEF Prepare
  <2>3. run'[r].pc = "giveback" \/ (run'[r].pc = "implement" /\ run'[r].task = run[r].task)
    BY <1>0, <2>2, HousedFields, GotoFields
  <2> QED
    BY <1>3, <1>4, <2>1, <2>3 DEF AtWork
<1>10. CASE Implement(r)
  <2>1. run[r].pc = "implement" /\ UNCHANGED <<live, labels, pr>>
    BY <1>10 DEF Implement
  <2>2. \/ run'[r].pc \in {"comment", "release"}
        \/ run'[r].pc = "check" /\ run'[r].task = run[r].task
    BY <1>0, <1>10, GotoFields DEF Implement
  <2> QED
    BY <1>3, <1>4, <2>1, <2>2 DEF AtWork
<1>11. CASE Check(r)
  <2>1. run[r].pc = "check" /\ UNCHANGED <<live, labels, pr>>
    BY <1>11 DEF Check
  <2>2. run'[r] = Cleared(run[r], local[run[r].task]) \/ Goto(r, "comment") \/ Goto(r, "release")
    BY <1>0, <1>11 DEF Check
  <2>3. \/ run'[r].pc \in {"comment", "release"}
        \/ run'[r].pc = "push" /\ run'[r].task = run[r].task
    BY <1>0, <2>2, ClearedFields, GotoFields
  <2> QED
    BY <1>3, <1>4, <2>1, <2>3 DEF AtWork
<1>12. CASE Push(r)
  <2>1. run[r].pc = "push" /\ UNCHANGED <<live, labels, pr>>
    BY <1>12 DEF Push
  <2>2. run'[r].pc = "release" \/ (run'[r].pc = "lookup" /\ run'[r].task = run[r].task)
    BY <1>0, <1>12, GotoFields DEF Push
  <2> QED
    BY <1>3, <1>4, <2>1, <2>2 DEF AtWork
<1>13. CASE Lookup(r)
  <2>1. run[r].pc = "lookup" /\ UNCHANGED <<live, labels, pr>>
    BY <1>13 DEF Lookup
  <2>2. \/ run'[r].pc \in {"finish", "release"}
        \/ run'[r].pc = "create" /\ run'[r].task = run[r].task
    <3>1. CASE Proposed(r)
      BY <1>0, <3>1, ProposedFields
    <3>2. CASE Goto(r, "create") \/ Goto(r, "release")
      BY <1>0, <3>2, GotoFields
    <3> QED
      BY <1>13, <3>1, <3>2 DEF Lookup
  <2> QED
    BY <1>3, <1>4, <2>1, <2>2 DEF AtWork
<1>14. CASE Create(r)
  <2>1. run[r].pc = "create" /\ UNCHANGED <<live, labels>> /\ run[r].task \in Tasks
    BY <1>14 DEF Create, KnowsTask, Holding
  <2>2. run'[r].pc \in {"finish", "release"}
    BY <1>0, <1>14, ProposedFields, GotoFields DEF Create
  <2>3. pr' = pr \/ pr' = [pr EXCEPT ![run[r].task] = "open"]
    BY <1>14 DEF Create
  <2>4. OpenPulls' \subseteq OpenPulls \cup {run[r].task}
    BY <2>1, <2>3 DEF OpenPulls, TypeOK
  <2>5. r \in Unspent /\ run'[r].pc \notin Picking \cup AtWork /\ run'[r].pc # "claims"
    BY <2>1, <2>2 DEF Unspent, Picking, AtWork
  <2> QED
    BY <1>0, <1>00, <2>1, <2>4, <2>5, RunMoves
\* The steps of a run that may add none.
<1>15. ASSUME run[r].pc \in {"finish", "comment", "fail", "release", "giveback"},
              UNCHANGED <<live, pr>>, Claimed' \subseteq Claimed,
              run'[r].pc \in {"off", "fail", "release", "giveback"}
       PROVE  CapInv'
  <2>1. /\ run[r].pc \notin AtWork /\ run'[r].pc \notin Picking \cup AtWork
        /\ run'[r].pc # "claims"
    BY <1>15 DEF Picking, AtWork
  <2> QED
    BY <1>0, <1>000, <1>15, <2>1, RunMoves
<1>16. CASE Finish(r)
  <2>1. run[r].pc = "finish" /\ UNCHANGED <<live, pr>> /\ run[r].task \in Tasks
    BY <1>16 DEF Finish, KnowsTask, Holding
  <2>2. run'[r].pc = "release"
    BY <1>0, <1>16, GotoFields DEF Finish
  <2>3. PICK o \in Outcomes(r) : Relabel(r, o, {"done"}, {"in-progress"})
    BY <1>16 DEF Finish
  <2>4. Claimed' \subseteq Claimed
    BY <2>1, <2>3, RelabelClaims
  <2> QED
    BY <1>15, <2>1, <2>2, <2>4
<1>17. CASE Comment(r)
  <2>1. run[r].pc = "comment" /\ UNCHANGED <<live, labels, pr>>
    BY <1>17 DEF Comment
  <2>2. PICK o \in CleanupOutcomes : run'[r] = Told(run[r], o = "ok")
    BY <1>0, <1>17 DEF Comment
  <2>3. run'[r].pc = "fail"
    BY <1>0, <2>2, ToldFields
  <2> QED
    BY <1>00, <1>15, <2>1, <2>3
<1>18. CASE Fail(r)
  <2>1. run[r].pc = "fail" /\ UNCHANGED <<live, pr>> /\ run[r].task \in Tasks
    BY <1>18 DEF Fail, KnowsTask, Holding
  <2>2. PICK o \in CleanupOutcomes :
          Relabel(r, o, {"failed"}, {"in-progress"}) /\ Leave(r, Settles(r, o))
    BY <1>18 DEF Fail
  <2>3. run'[r].pc \in {"off", "release", "giveback"}
    <3>1. Settles(r, o) \in BOOLEAN
      BY <1>0 DEF Settles, RunState
    <3> QED
      BY <1>0, <2>2, <3>1, LeaveFields, OffFields
  <2>4. Claimed' \subseteq Claimed
    BY <2>1, <2>2, RelabelClaims
  <2> QED
    BY <1>15, <2>1, <2>3, <2>4
<1>19. CASE Release(r)
  <2>1. run[r].pc = "release" /\ UNCHANGED <<live, labels, pr>>
    BY <1>19 DEF Release
  <2>2. run'[r].pc \in {"off", "giveback"}
    BY <1>0, <1>19, GotoFields DEF Release
  <2> QED
    BY <1>00, <1>15, <2>1, <2>2
<1>20. CASE GiveBack(r)
  <2>1. run[r].pc = "giveback" /\ UNCHANGED <<live, pr>> /\ run[r].task \in Tasks
    BY <1>20 DEF GiveBack, KnowsTask, Holding
  <2>2. run'[r].pc = "off"
    BY <1>0, <1>20, GotoFields DEF GiveBack
  <2>3. PICK o \in CleanupOutcomes : Relabel(r, o, {}, {"in-progress"})
    BY <1>20 DEF GiveBack
  <2>4. Claimed' \subseteq Claimed
    BY <2>1, <2>3, RelabelClaims
  <2> QED
    BY <1>15, <2>1, <2>2, <2>4
<1> QED
  BY <1>1, <1>2, <1>5, <1>6, <1>7, <1>8, <1>9, <1>10, <1>11, <1>12, <1>13, <1>14, <1>16, <1>17,
     <1>18, <1>19, <1>20 DEF Step

\* What people do, short of reopening an issue, takes tasks away or changes nothing.
LEMMA PeopleCap ==
  ASSUME TypeOK, CapInv, "reopen" \notin People, NEW t \in Tasks, Person(t)
  PROVE  CapInv'
<1>0. UNCHANGED run
  BY DEF Person, Merge, Close, Reopen, Retry, Unclaim, Delete
<1>1. Unspent' = Unspent /\ Counting' = Counting /\ \A r, u : WorksOn(r, u)' <=> WorksOn(r, u)
  BY <1>0 DEF Unspent, Counting, WorksOn
<1>2. live' \subseteq live
  BY DEF Person, Merge, Close, Reopen, Retry, Unclaim, Delete
<1>3. \A u \in Tasks : "in-progress" \in labels'[u] => "in-progress" \in labels[u]
  BY DEF Person, Merge, Close, Reopen, Retry, Unclaim, Delete, TypeOK
<1>4. OpenPulls' \subseteq OpenPulls
  BY DEF Person, Merge, Close, Reopen, Retry, Unclaim, Delete, OpenPulls, TypeOK
<1>5. Claimed' \subseteq Claimed
  BY <1>2, <1>3 DEF Claimed, TypeOK
<1>6. Sunk' \subseteq Sunk
  BY <1>1, <1>4, <1>5 DEF Sunk
<1> QED
  BY <1>0, <1>1, <1>4, <1>6, Easing

\* Every step keeps the invariant, under a cap and when no task is named.
LEMMA NextCap ==
  ASSUME Named = {}, "reopen" \notin People, MaxOpenOutputs > 0,
         TypeOK, TypeOK', RunInv, CapInv, Next
  PROVE  CapInv'
<1>0. run \in [Runs -> RunState]
  BY DEF TypeOK
<1>1. ASSUME NEW r \in Runs, Step(r) PROVE CapInv'
  BY <1>1, StepCap DEF RunInv
<1>2. ASSUME NEW r \in Runs, Stop(r) PROVE CapInv'
  <2>1. /\ UNCHANGED <<live, labels, pr>> /\ \A s \in Runs \ {r} : run'[s] = run[s]
        /\ run'[r] = Stopped(run[r]) /\ run[r] \in RunState
    BY <1>0, <1>2 DEF Stop
  <2>2. \A s \in Runs : /\ run'[s].pc = run[s].pc /\ run'[s].task = run[s].task
                        /\ run'[s].outputs = run[s].outputs
    BY <2>1 DEF Stopped, RunState
  <2>3. Unspent' = Unspent /\ Counting' = Counting
    BY <2>2 DEF Unspent, Counting
  <2>4. \A s \in Runs : \A t : WorksOn(s, t)' <=> WorksOn(s, t)
    BY <2>2 DEF WorksOn
  <2>5. OpenPulls' = OpenPulls /\ Claimed' = Claimed
    BY <2>1 DEF OpenPulls, Claimed
  <2>6. Sunk' = Sunk
    BY <2>4, <2>5 DEF Sunk
  <2>7. \A s \in Counting' : run'[s].outputs = run[s].outputs
    BY <2>2 DEF Counting
  <2> QED
    BY <2>3, <2>5, <2>6, <2>7, Easing
<1>3. ASSUME NEW r \in Runs, Kill(r) PROVE CapInv'
  <2>1. UNCHANGED <<live, labels, pr>> /\ \A s \in Runs \ {r} : run'[s] = run[s]
    BY <1>3, OthersKeep DEF Kill
  <2>2. run'[r].pc = "off"
    BY <1>0, <1>3, GotoFields DEF Kill
  <2>3. OpenPulls' = OpenPulls /\ Claimed' = Claimed
    BY <2>1 DEF OpenPulls, Claimed
  <2>4. run'[r].pc \notin Picking \cup AtWork /\ run'[r].pc # "claims"
    BY <2>2 DEF Picking, AtWork
  <2>5. r \in Unspent \/ run[r].pc \notin AtWork
    BY DEF Unspent
  <2> QED
    BY <2>1, <2>3, <2>4, <2>5, RunMoves
<1>4. ASSUME NEW r \in Runs, NEW want \in Named \cup {NoTask}, Start(r, want) PROVE CapInv'
  <2>1. UNCHANGED <<live, labels, pr>> /\ \A s \in Runs \ {r} : run'[s] = run[s]
    BY <1>4, OthersKeep DEF Start
  <2>2. run[r].pc = "off" /\ run'[r].pc = "outputs"
    <3>1. PICK first \in {"get", "outputs", "next"} :
            /\ first = "get" <=> want # NoTask
            /\ first = "next" => MaxOpenOutputs = 0
            /\ run' = [run EXCEPT ![r] = First(first, want)]
      BY <1>4 DEF Start
    <3>2. first = "outputs"
      BY <1>4, <3>1
    <3> QED
      BY <1>0, <1>4, <3>1, <3>2, OffFields DEF Start
  <2>3. OpenPulls' = OpenPulls /\ Claimed' = Claimed
    BY <2>1 DEF OpenPulls, Claimed
  <2>4. /\ run[r].pc \notin AtWork /\ run'[r].pc \notin Picking \cup AtWork
        /\ run'[r].pc # "claims"
    BY <2>2 DEF Picking, AtWork
  <2> QED
    BY <2>1, <2>3, <2>4, RunMoves
<1>5. ASSUME NEW t \in Tasks, Person(t) PROVE CapInv'
  BY <1>5, PeopleCap
<1> QED
  BY <1>1, <1>2, <1>3, <1>4, <1>5 DEF Next

\* With room for what every run may add, the tasks that count are within the bound.
LEMMA CapBounds == ASSUME TypeOK, CapInv PROVE CapOvershootBounded
<1> DEFINE f == [r \in Unspent |-> run[r].task]
           T == {f[r] : r \in Unspent}
<1>1. f \in Surjection(Unspent, T)
  BY DEF Surjection
<1>2. IsFiniteSet(T) /\ Cardinality(T) <= Cardinality(Unspent)
  <2> HIDE DEF f, T
  <2> QED
    BY <1>1, Finite, FS_Surjection
<1>3. Busy \subseteq Sunk \cup T
  <2>1. ASSUME NEW t \in Claimed, NEW r \in Runs, WorksOn(r, t) PROVE t \in T
    <3>1. r \in Unspent /\ f[r] = t
      BY <2>1 DEF WorksOn, Unspent
    <3> QED
      BY <3>1
  <2> QED
    BY <2>1 DEF Busy, Sunk
<1> HIDE DEF f, T
<1>4. Cardinality(Busy) \in Nat /\ Cardinality(Busy) <= Cardinality(Sunk) + Cardinality(T)
  BY <1>2, <1>3, Finite, Together
<1>5. Cardinality(Sunk) + Cardinality(Unspent) < MaxOpenOutputs + Cardinality(Runs)
  BY DEF CapInv, RoomFor
<1>6. Cardinality(T) \in Nat
  BY <1>2, FS_CardinalityType
<1> QED
  BY <1>2, <1>4, <1>5, <1>6, Finite DEF CapOvershootBounded

\* With no task named and no issue reopened, the cap is overshot by no more than one task for
\* each other run going on, whatever fails, stops or is killed and whatever else people do.
THEOREM CapIsNearlyKept ==
  ASSUME Named = {}, "reopen" \notin People
  PROVE  Spec => []CapOvershootBounded
<1>1. CASE ~(MaxOpenOutputs > 0)
  <2>1. CapOvershootBounded
    BY <1>1 DEF CapOvershootBounded
  <2> QED
    BY <2>1, PTL
<1>2. CASE MaxOpenOutputs > 0
  <2>1. Init => CapInv
    <3> SUFFICES ASSUME Init PROVE CapInv
      OBVIOUS
    <3>1. TypeOK /\ \A r \in Runs : run[r].pc = "off"
      BY InitTyped, OffFields DEF Init
    <3>2. Unspent = {} /\ Counting = {} /\ Sunk = {}
      BY <3>1 DEF Init, Unspent, Counting, Sunk, OpenPulls, Claimed, Picking, AtWork
    <3>3. Cardinality(Unspent) = 0 /\ Cardinality(Sunk) = 0
      BY <3>2, FS_EmptySet
    <3> QED
      BY <1>2, <3>1, <3>2, <3>3, Finite DEF CapInv, RoomFor
  <2>2. IInv /\ IInv' /\ CapInv /\ [Next]_vars => CapInv'
    <3>1. CASE Next
      BY <1>2, <3>1, NextCap DEF IInv
    <3>2. ASSUME CapInv, UNCHANGED vars PROVE CapInv'
      <4>1. UNCHANGED <<Unspent, Counting, Sunk, OpenPulls>>
        BY <3>2 DEF vars, Counting, Unspent, Sunk, OpenPulls, Claimed, WorksOn
      <4>2. \A s \in Runs : Ahead(s)' = Ahead(s)
        BY <3>2, <4>1 DEF vars, Ahead
      <4>3. \A s \in Runs : MayPass(s)' <=> MayPass(s)
        BY <3>2, <4>1, <4>2 DEF vars, MayPass, RoomFor
      <4>4. \A s \in Counting : s \in Runs
        BY DEF Counting
      <4> QED
        BY <3>2, <4>1, <4>3, <4>4 DEF CapInv, RoomFor
    <3> QED
      BY <3>1, <3>2
  <2>3. IInv /\ CapInv => CapOvershootBounded
    BY CapBounds DEF IInv
  <2> QED
    BY <2>1, <2>2, <2>3, Invariance, PTL DEF Spec
<1> QED
  BY <1>1, <1>2
=============================================================================
