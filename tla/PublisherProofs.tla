--------------------------- MODULE PublisherProofs ----------------------------
(***************************************************************************)
(* Proofs about Publisher, for any files, passes, answers, checks and      *)
(* proposed branches: what a run reports of its commits, what its prompts  *)
(* show, what was judged of the work it clears, and that Publisher         *)
(* implements Attempt.                                                     *)
(***************************************************************************)
EXTENDS Publisher, SequenceTheorems, FiniteSetTheorems, WellFoundedInduction, TLAPS

\* A sequence, of whatever it is of.
IsSeq(s) == s \in Seq(ToSet(s))

\* What the run's result says of the commits that it made, if b is the branch.
Reported(b) ==
  /\ result.commits = Ids(b) \ Ids(lc.before)
  /\ Ids(lc.before) \subseteq Ids(b)

\* The results of checks that ran on the files as they are.
Current(results) == \A i \in DOMAIN results : results[i].tree = tree

\* Checks that passed, and on the files as they are.
PassedAll(results) == results = <<[ok |-> TRUE, tree |-> tree]>>

Judged == { "proposed", "inspect", "gates" }

Between == { "plangate", "plan", "change", "commits", "check", "verdict",
             "proposed", "blocked", "exhausted" }

Shapes ==
  /\ tree \in Trees /\ committed \in Trees /\ start.committed \in Trees
  /\ pass \in 1..MaxPasses
  /\ lc.mode \in {"implement", "feedback"}
  /\ DOMAIN result = {"change", "verdict", "gates", "commits"}
  /\ DOMAIN decision = {"refused", "unverified", "gates"}

\* The commits: between the passes the branch is what is reported, and in a change step what
\* the step began with, to which HEAD goes back.
Commitments ==
  /\ pc \in Between => IsSeq(branch) /\ Reported(branch)
  /\ pc \in {"agent", "takeback"} => IsSeq(start.branch) /\ Reported(start.branch)
  /\ pc \in {"inspect", "gates", "cleared"} /\ lc.mode = "feedback" => Reported(branch)

\* What the next prompt will be told, and shown.
Prompts ==
  /\ pc \in {"plangate", "plan"} => pass = 1
  /\ pc \in {"plan", "change", "verdict"} => Current(gates)
  /\ pc = "plangate" => gates = <<>>
  /\ ChecksShownAreCurrent /\ EveryPassIsAnswered

\* What was judged is what is committed, or will be found not to be before anything of an
\* implemented task is cleared.
Judgements ==
  /\ pc = "check" => tree = committed
  /\ pc \in {"verdict"} \cup Judged =>
       /\ LeavesFiles("verdict") => tree = committed
       /\ "verdict" \in lc.gates => PassedAll(result.gates)
  /\ pc \in Judged => result.verdict.passed /\ result.verdict.tree = tree
  /\ pc \in {"inspect", "gates"} /\ lc.mode = "implement" => tree = committed
  /\ pc = "gates" => decision.refused \/ Policy
  /\ pc = "cleared" => Policy
  /\ ClearedWasJudged

PubInv == Shapes /\ Commitments /\ Prompts /\ Judgements
-----------------------------------------------------------------------------
(***************************************************************************)
(* Sequences of commits.                                                   *)
(***************************************************************************)
\* A sequence is a sequence of its elements.
LEMMA OwnElements == \A S : \A s \in Seq(S) : IsSeq(s)
<1> SUFFICES ASSUME NEW S, NEW s \in Seq(S) PROVE IsSeq(s)
  OBVIOUS
<1>1. Len(s) \in Nat /\ s \in [1..Len(s) -> S]
  BY LenProperties
<1>2. \A i \in 1..Len(s) : s[i] \in ToSet(s)
  BY <1>1 DEF ToSet
<1> QED
  BY <1>1, <1>2, IsASeq DEF IsSeq

\* What a sequence that follows a branch adds to it.
LEMMA Grown ==
  ASSUME NEW b, IsSeq(b), NEW n \in Nat, NEW T, NEW made \in [1..n -> T]
  PROVE  IsSeq(b \o made) /\ ToSet(b) \subseteq ToSet(b \o made)
<1> DEFINE S == ToSet(b) \cup T
           c == b \o made
<1>1. b \in Seq(S) /\ made \in Seq(S)
  <2>1. b \in Seq(ToSet(b)) /\ made \in Seq(T)
    BY IsASeq DEF IsSeq
  <2> QED
    BY <2>1, SeqMonotonic
<1>2. c \in Seq(S) /\ Len(c) = Len(b) + Len(made) /\ (\A i \in 1..Len(b) : c[i] = b[i])
  BY <1>1, ConcatProperties
<1>3. /\ Len(b) \in Nat /\ DOMAIN b = 1..Len(b)
      /\ Len(made) \in Nat /\ DOMAIN c = 1..Len(c)
  BY <1>1, <1>2, LenProperties
<1> HIDE DEF c, S
<1>4. ASSUME NEW i \in DOMAIN b PROVE b[i] \in ToSet(c)
  <2>1. i \in DOMAIN c /\ c[i] = b[i]
    BY <1>2, <1>3
  <2> QED
    BY <2>1 DEF ToSet
<1>5. ToSet(b) \subseteq ToSet(c)
  BY <1>4 DEF ToSet
<1> QED
  BY <1>2, <1>5, OwnElements DEF c

\* Commits that are added are reported with those before them.
LEMMA ReportedGrows ==
  ASSUME NEW b, NEW c, Reported(b), ToSet(b) \subseteq ToSet(c)
  PROVE  /\ Ids(lc.before) \subseteq Ids(c)
         /\ result.commits \cup (Ids(c) \ Ids(b)) = Ids(c) \ Ids(lc.before)
<1>1. Ids(b) \subseteq Ids(c)
  BY DEF Ids
<1> QED
  BY <1>1 DEF Reported

\* Checks that did not fail passed on the files that they leave, if there are any.
LEMMA Unfailed ==
  ASSUME NEW step, NEW g \in Checked(step)
  PROVE  /\ \A i \in DOMAIN g : g[i].tree = tree'
         /\ step \in lc.gates /\ ~Failed(g) => g = <<[ok |-> TRUE, tree |-> tree']>>
<1>1. CASE step \notin lc.gates
  BY <1>1 DEF Checked
<1>2. CASE step \in lc.gates
  <2>1. PICK b \in BOOLEAN : g = <<[ok |-> b, tree |-> tree']>>
    BY <1>2 DEF Checked
  <2>2. DOMAIN g = {1} /\ g[1].tree = tree' /\ (g[1].ok <=> b)
    BY <2>1
  <2> QED
    BY <2>1, <2>2 DEF Failed
<1> QED
  BY <1>1, <1>2

\* What checks write are files as well.
LEMMA ChecksKeepTrees ==
  ASSUME NEW step, tree \in Trees, ChecksWrite(step)
  PROVE  /\ tree' \in Trees
         /\ LeavesFiles(step) => UNCHANGED tree
BY DEF ChecksWrite, LeavesFiles

\* The answers of a change step, however many commits they ask for.
Answered == UNION {Answers(n) : n \in 0..MaxAsked}

\* What becomes of an answer: nothing, its commits, or some of them and an error.
LEMMA CommitsCases ==
  ASSUME MakeCommits
  PROVE  /\ pc = "commits" /\ UNCHANGED <<lc, tree, start, shown>>
         /\ \/ Refuse /\ UNCHANGED <<branch, committed, result>>
            \/ \E asked \in Answered :
                 /\ Check(asked, ChangedPaths, branch)
                 /\ \/ Commit(asked, Len(asked)) /\ Record /\ pc' = "check"
                    \/ (\E n \in 1..Len(asked) : Commit(asked, n)) /\ pc' = "broken" /\ UNCHANGED result
                 /\ UNCHANGED <<pass, gates, findings>>
<1>1. CASE Refuse /\ UNCHANGED <<branch, committed, result>>
  BY <1>1 DEF MakeCommits
<1>2. ASSUME NEW m \in 0..MaxAsked, NEW asked \in Answers(m),
             Check(asked, ChangedPaths, branch),
             \/ Commit(asked, Len(asked)) /\ Record /\ pc' = "check"
             \/ (\E n \in 1..Len(asked) : Commit(asked, n)) /\ pc' = "broken" /\ UNCHANGED result,
             UNCHANGED <<pass, gates, findings>>
      PROVE  \E a \in Answered :
                 /\ Check(a, ChangedPaths, branch)
                 /\ \/ Commit(a, Len(a)) /\ Record /\ pc' = "check"
                    \/ (\E n \in 1..Len(a) : Commit(a, n)) /\ pc' = "broken" /\ UNCHANGED result
                 /\ UNCHANGED <<pass, gates, findings>>
  <2>1. asked \in Answered
    BY DEF Answered
  <2> QED
    BY <1>2, <2>1
<1> QED
  BY <1>1, <1>2 DEF MakeCommits

\* Commits that cover the changes leave nothing uncommitted.
LEMMA Covered ==
  ASSUME Shapes, NEW asked \in Answered, Check(asked, ChangedPaths, branch),
         Commit(asked, Len(asked))
  PROVE  committed' = tree
<1>1. PICK m \in Nat : asked \in [1..m -> Asked]
  BY DEF Answered, Answers
<1>2. DOMAIN asked = 1..Len(asked)
  BY <1>1, IsASeq, LenProperties
<1>3. \A p \in Paths : tree[p] # committed[p] => \E n \in DOMAIN asked : p \in asked[n].paths
  BY DEF Check, Uncovered, ChangedPaths
<1>4. \A p \in Paths : committed'[p] = tree[p]
  BY <1>2, <1>3 DEF Commit
<1> QED
  BY <1>4 DEF Commit, Shapes, Trees

\* Of some numbers one is the least.
LEMMA Least ==
  ASSUME NEW T \in SUBSET Nat, T # {}
  PROVE  \E m \in T : \A k \in T : m <= k
<1> DEFINE R == {ss \in Nat \X Nat : ss[1] < ss[2]}
<1>1. IsWellFoundedOn(R, Nat)
  BY NatLessThanWellFounded DEF OpToRel
<1>2. PICK m \in T : \A k \in T : <<k, m>> \notin R
  <2> HIDE DEF R
  <2> QED
    BY <1>1, WFMin
<1>3. \A k \in T : ~(k < m)
  BY <1>2
<1> QED
  BY <1>2, <1>3

\* The commits that stay when a branch is folded, counted along it.
LEMMA KeptCounts ==
  ASSUME NEW S, NEW b \in Seq(S)
  PROVE  /\ Kept(b, 0) = 0
         /\ \A i \in 0..Len(b) : Kept(b, i) \in Nat
         /\ \A i \in 1..Len(b) :
              Kept(b, i) = IF Stays(b, i) THEN Kept(b, i - 1) + 1 ELSE Kept(b, i - 1)
<1> DEFINE K(i) == {j \in 1..i : Stays(b, j)}
<1>1. Len(b) \in Nat
  BY LenProperties
<1>2. ASSUME NEW i \in 0..Len(b) PROVE IsFiniteSet(K(i)) /\ Cardinality(K(i)) \in Nat
  <2>1. IsFiniteSet(1..i) /\ K(i) \in SUBSET (1..i)
    BY <1>1, FS_Interval
  <2> QED
    BY <2>1, FS_Subset, FS_CardinalityType
<1>3. Cardinality(K(0)) = 0
  <2>1. K(0) = {}
    OBVIOUS
  <2> QED
    BY <2>1, FS_EmptySet
<1>4. ASSUME NEW i \in 1..Len(b)
      PROVE  Cardinality(K(i)) =
               IF Stays(b, i) THEN Cardinality(K(i - 1)) + 1 ELSE Cardinality(K(i - 1))
  <2>1. i - 1 \in 0..Len(b) /\ i \notin K(i - 1)
    BY <1>1
  <2>2. K(i) = IF Stays(b, i) THEN K(i - 1) \cup {i} ELSE K(i - 1)
    BY <1>1
  <2> HIDE DEF K
  <2> QED
    BY <1>2, <2>1, <2>2, FS_AddElement
<1> QED
  BY <1>2, <1>3, <1>4 DEF Kept

\* Every place on a folded branch is that of a commit that stays.
LEMMA KeptAt ==
  ASSUME NEW S, NEW b \in Seq(S), NEW n \in 1..Kept(b, Len(b))
  PROVE  \E i \in DOMAIN b : Stays(b, i) /\ Kept(b, i) = n
<1>1. /\ Kept(b, 0) = 0
      /\ \A i \in 0..Len(b) : Kept(b, i) \in Nat
      /\ \A i \in 1..Len(b) :
           Kept(b, i) = IF Stays(b, i) THEN Kept(b, i - 1) + 1 ELSE Kept(b, i - 1)
  BY KeptCounts
<1>2. Len(b) \in Nat /\ DOMAIN b = 1..Len(b)
  BY LenProperties
<1> DEFINE T == {i \in 0..Len(b) : Kept(b, i) >= n}
<1>3. T \in SUBSET Nat /\ Len(b) \in T
  BY <1>1, <1>2
<1>4. PICK m \in T : \A k \in T : m <= k
  BY <1>3, Least
<1>5. m \in 1..Len(b)
  BY <1>1, <1>2, <1>4
<1>6. m - 1 \in 0..Len(b) /\ Kept(b, m - 1) < n
  BY <1>1, <1>2, <1>4, <1>5
<1>7. Stays(b, m) /\ Kept(b, m) = n
  BY <1>1, <1>4, <1>5, <1>6
<1> QED
  BY <1>2, <1>5, <1>7

\* Of a longer stretch of the branch no fewer stay.
LEMMA KeptGrows ==
  ASSUME NEW b, NEW i \in Nat, NEW j \in Nat, i <= j
  PROVE  Kept(b, i) <= Kept(b, j)
<1> DEFINE K(n) == {k \in 1..n : Stays(b, k)}
<1>1. K(i) \subseteq K(j)
  OBVIOUS
<1>2. K(j) \in SUBSET (1..j)
  OBVIOUS
<1>3. IsFiniteSet(1..j)
  BY FS_Interval
<1>4. IsFiniteSet(K(j))
  BY <1>2, <1>3, FS_Subset
<1> HIDE DEF K
<1>5. Cardinality(K(i)) <= Cardinality(K(j))
  BY <1>1, <1>4, FS_Subset
<1> QED
  BY <1>5 DEF Kept, K

\* A commit that stays has a place after every one that stays before it.
LEMMA KeptRises ==
  ASSUME NEW S, NEW b \in Seq(S)
  PROVE  \A i, j \in DOMAIN b : i < j /\ Stays(b, j) => Kept(b, i) < Kept(b, j)
<1>1. /\ \A i \in 0..Len(b) : Kept(b, i) \in Nat
      /\ \A i \in 1..Len(b) :
           Kept(b, i) = IF Stays(b, i) THEN Kept(b, i - 1) + 1 ELSE Kept(b, i - 1)
  BY KeptCounts
<1>2. Len(b) \in Nat /\ DOMAIN b = 1..Len(b)
  BY LenProperties
<1>3. SUFFICES ASSUME NEW i \in DOMAIN b, NEW j \in DOMAIN b, i < j, Stays(b, j)
               PROVE  Kept(b, i) < Kept(b, j)
  OBVIOUS
<1>4. i \in 1..Len(b) /\ j \in 1..Len(b) /\ j - 1 \in 0..Len(b) /\ i \in 0..Len(b)
  BY <1>2, <1>3
<1>5. Kept(b, i) <= Kept(b, j - 1)
  <2>1. i \in Nat /\ j - 1 \in Nat /\ i <= j - 1
    BY <1>2, <1>3, <1>4
  <2> QED
    BY <2>1, KeptGrows
<1> QED
  BY <1>1, <1>3, <1>4, <1>5

\* A folded branch is made of the commits that stay, every one of them and in their order;
\* if all of the fixes have a target, none of those is a fix.
LEMMA FoldedElements ==
  ASSUME NEW S, NEW b \in Seq(S)
  PROVE  /\ Folded(b) \in Seq(S)
         /\ \A c \in ToSet(Folded(b)) : c \in ToSet(b) /\ (Foldable(b) => ~c.fix)
         /\ \A i \in DOMAIN b : ~b[i].fix => b[i] \in ToSet(Folded(b))
         /\ \A n, o \in DOMAIN Folded(b) : n < o =>
              \E i, j \in DOMAIN b : i < j /\ b[i] = Folded(b)[n] /\ b[j] = Folded(b)[o]
<1> DEFINE m == Kept(b, Len(b))
           At(n) == CHOOSE i \in DOMAIN b : Stays(b, i) /\ Kept(b, i) = n
<1>1. Len(b) \in Nat /\ DOMAIN b = 1..Len(b) /\ \A i \in DOMAIN b : b[i] \in S
  BY LenProperties
<1>2. m \in Nat /\ \A i \in DOMAIN b : Kept(b, i) \in Nat
  BY <1>1, KeptCounts
<1>3. ASSUME NEW n \in 1..m
      PROVE  At(n) \in DOMAIN b /\ Stays(b, At(n)) /\ Kept(b, At(n)) = n
  <2>1. \E i \in DOMAIN b : Stays(b, i) /\ Kept(b, i) = n
    BY <1>3, KeptAt
  <2> QED
    BY <2>1
<1>4. Folded(b) = [n \in 1..m |-> b[At(n)]]
  BY DEF Folded
<1>5. \A i, j \in DOMAIN b : i < j /\ Stays(b, j) => Kept(b, i) < Kept(b, j)
  BY KeptRises
<1> HIDE DEF At
<1>6. ASSUME NEW i \in DOMAIN b, ~b[i].fix
      PROVE  b[i] \in ToSet(Folded(b))
  <2>1. Stays(b, i)
    BY <1>6 DEF Stays
  <2>2. Kept(b, i) \in 1..m
    <3>1. Kept(b, i) > 0
      <4>1. Kept(b, 0) = 0 /\ Kept(b, i - 1) \in Nat /\ Kept(b, i) = Kept(b, i - 1) + 1
        BY <1>1, <2>1, KeptCounts
      <4> QED
        BY <4>1
    <3>2. Kept(b, i) <= m
      <4>1. i \in Nat /\ i <= Len(b)
        BY <1>1
      <4> QED
        BY <1>1, <4>1, KeptGrows
    <3> QED
      BY <1>2, <3>1, <3>2
  <2>3. At(Kept(b, i)) = i
    <3>1. At(Kept(b, i)) \in 1..Len(b) /\ i \in 1..Len(b)
      BY <1>1, <1>3, <2>2
    <3> QED
      BY <1>1, <1>2, <1>3, <1>5, <2>1, <2>2, <3>1
  <2> QED
    BY <1>4, <2>2, <2>3 DEF ToSet
<1>7. ASSUME NEW n \in DOMAIN Folded(b), NEW o \in DOMAIN Folded(b), n < o
      PROVE  \E i, j \in DOMAIN b : i < j /\ b[i] = Folded(b)[n] /\ b[j] = Folded(b)[o]
  <2>1. n \in 1..m /\ o \in 1..m
    BY <1>4, <1>7
  <2>2. /\ At(n) \in DOMAIN b /\ Stays(b, At(n)) /\ Kept(b, At(n)) = n
        /\ At(o) \in DOMAIN b /\ Stays(b, At(o)) /\ Kept(b, At(o)) = o
    BY <1>3, <2>1
  <2>3. At(n) < At(o)
    BY <1>1, <1>5, <1>7, <2>1, <2>2
  <2> QED
    BY <1>4, <2>1, <2>2, <2>3
<1> HIDE DEF m
<1>8. Folded(b) \in [1..m -> S]
  BY <1>1, <1>3, <1>4
<1>9. \A c \in ToSet(Folded(b)) : c \in ToSet(b) /\ (Foldable(b) => ~c.fix)
  BY <1>3, <1>4 DEF ToSet, Stays, Foldable
<1> QED
  BY <1>2, <1>6, <1>7, <1>8, <1>9, IsASeq
-----------------------------------------------------------------------------
(***************************************************************************)
(* The invariant.                                                          *)
(***************************************************************************)
\* The first state satisfies it.
LEMMA InitInv == PInit => PubInv
<1> SUFFICES ASSUME PInit PROVE PubInv
  OBVIOUS
<1> USE DEF PInit, Init
<1>1. Untouched \in Trees /\ 1 \in 1..MaxPasses
  BY LifecycleAssumption DEF Untouched, Trees, Rewritten
<1>2. pc \in {"plangate", "change"} /\ IsSeq(lc.before)
  <2>1. <<>> \in Seq(Commits)
    OBVIOUS
  <2>2. lc.before \in {<<>>} \cup Proposals /\ pc \in {"plangate", "change"}
    OBVIOUS
  <2>3. lc.before \in Seq(Commits)
    BY <2>1, <2>2, ProposalsAssumption
  <2> QED
    BY <2>2, <2>3, OwnElements
<1>3. Shapes
  <2>1. lc.mode \in {"implement", "feedback"}
    OBVIOUS
  <2> QED
    BY <1>1, <2>1 DEF Shapes, NotBegun, Undecided
<1>4. Commitments
  BY <1>2 DEF Commitments, Reported, Between
<1>5. Prompts
  BY <1>2 DEF Prompts, Current, ChecksShownAreCurrent, EveryPassIsAnswered
<1>6. Judgements
  BY <1>2 DEF Judgements, Judged, ClearedWasJudged
<1> QED
  BY <1>3, <1>4, <1>5, <1>6 DEF PubInv

\* Every step keeps the shapes.
LEMMA ShapesStep == Shapes /\ Step => Shapes'
<1> SUFFICES ASSUME Shapes, Step PROVE Shapes'
  OBVIOUS
<1> USE DEF Shapes, vars, loopVars
<1>1. CASE PlanGates /\ UNCHANGED decision
  BY <1>1, ChecksKeepTrees DEF PlanGates
<1>2. CASE (Plan \/ Break) /\ UNCHANGED decision
  BY <1>2 DEF Plan, Break
<1>10. CASE Change /\ UNCHANGED decision
  BY <1>10, ChecksKeepTrees DEF Change
<1>3. CASE Agent /\ UNCHANGED decision
  BY <1>3 DEF Agent, Edits
<1>4. CASE TakeBack /\ UNCHANGED decision
  <2>1. Untouched \in Trees
    BY LifecycleAssumption DEF Untouched, Trees, Rewritten
  <2> QED
    BY <1>4, <2>1 DEF TakeBack, NotBegun
<1>5. ASSUME NEW found, Again(found) PROVE pass' \in 1..MaxPasses
  BY <1>5, LifecycleAssumption DEF Again
<1>6. CASE MakeCommits /\ UNCHANGED decision
  <2>1. ASSUME NEW asked, NEW n, Commit(asked, n) PROVE committed' \in Trees
    BY <2>1 DEF Commit, Trees
  <2>2. committed' \in Trees
    BY <1>6, <2>1 DEF MakeCommits
  <2>3. pass' \in 1..MaxPasses
    BY <1>6, <1>5 DEF MakeCommits, Refuse
  <2>4. DOMAIN result' = {"change", "verdict", "gates", "commits"}
    BY <1>6 DEF MakeCommits, Record
  <2> QED
    BY <1>6, <2>2, <2>3, <2>4 DEF MakeCommits
<1>7. CASE VerdictGates /\ UNCHANGED decision
  <2>1. pass' \in 1..MaxPasses
    BY <1>7, <1>5 DEF VerdictGates
  <2>2. DOMAIN result' = {"change", "verdict", "gates", "commits"}
    BY <1>7 DEF VerdictGates
  <2>3. tree' \in Trees
    BY <1>7, ChecksKeepTrees DEF VerdictGates
  <2> QED
    BY <1>7, <2>1, <2>2, <2>3 DEF VerdictGates
<1>8. CASE Verdict /\ UNCHANGED decision
  <2>1. pass' \in 1..MaxPasses
    BY <1>8, <1>5 DEF Verdict
  <2>2. DOMAIN result' = {"change", "verdict", "gates", "commits"}
    BY <1>8 DEF Verdict
  <2> QED
    BY <1>8, <2>1, <2>2 DEF Verdict
<1>9. CASE Answer \/ Unverified \/ Fold \/ Keep \/ Inspect \/ Fail
  BY <1>9 DEF Answer, Unverified, Fold, Keep, Inspect, Fail
<1>11. CASE PublishGates
  <2>1. tree' \in Trees
    BY <1>11, ChecksKeepTrees DEF PublishGates
  <2> QED
    BY <1>11, <2>1 DEF PublishGates
<1> QED
  BY <1>1, <1>2, <1>3, <1>4, <1>6, <1>7, <1>8, <1>9, <1>10, <1>11 DEF Step, LifecycleStep

\* What is reported of a branch stays so as long as neither changes.
LEMMA SameReport ==
  /\ Reported(branch) /\ UNCHANGED <<lc, branch>> /\ result'.commits = result.commits =>
       Reported(branch)'
  /\ Reported(start.branch) /\ UNCHANGED <<lc, start>> /\ result'.commits = result.commits =>
       Reported(start.branch)'
  /\ UNCHANGED branch => (IsSeq(branch)' <=> IsSeq(branch))
  /\ UNCHANGED start => (IsSeq(start.branch)' <=> IsSeq(start.branch))
BY DEF Reported, IsSeq

\* Every step keeps account of the commits.
LEMMA CommitmentsStep == Shapes /\ Commitments /\ Step => Commitments'
<1> SUFFICES ASSUME Shapes, Commitments, Step PROVE Commitments'
  OBVIOUS
<1> USE SameReport DEF vars, loopVars, Between
<1>1. CASE PlanGates
  BY <1>1 DEF PlanGates, Commitments, Shapes
<1>2. CASE Plan \/ Break
  BY <1>2 DEF Plan, Break, Commitments, Working
<1>3. CASE Change
  <2>1. IsSeq(branch) /\ Reported(branch) /\ start'.branch = branch /\ UNCHANGED <<lc, result>>
       /\ pc' = "agent"
    BY <1>3 DEF Change, Commitments
  <2>2. IsSeq(start'.branch) /\ Reported(start.branch)'
    BY <2>1 DEF Reported
  <2> QED
    BY <2>1, <2>2 DEF Commitments, IsSeq
<1>4. CASE Agent
  BY <1>4 DEF Agent, Commitments, Shapes
<1>5. CASE TakeBack
  <2>1. /\ IsSeq(start.branch) /\ Reported(start.branch) /\ branch' = start.branch
        /\ UNCHANGED <<lc, result>> /\ pc' \in {"blocked", "commits"}
    BY <1>5 DEF TakeBack, Commitments
  <2>2. IsSeq(branch') /\ Reported(branch)'
    BY <2>1 DEF Reported
  <2> QED
    BY <2>1, <2>2 DEF Commitments, IsSeq
<1>6. ASSUME NEW found, Again(found) PROVE pc' \in {"change", "exhausted"}
  BY <1>6 DEF Again
<1>7. CASE MakeCommits
  <2>1. IsSeq(branch) /\ Reported(branch)
    BY <1>7 DEF MakeCommits, Commitments
  <2>2. CASE Refuse /\ UNCHANGED <<branch, committed, result>>
    BY <1>6, <1>7, <2>1, <2>2 DEF MakeCommits, Refuse, Commitments
  <2>3. CASE pc' = "broken"
    BY <2>3 DEF Commitments
  <2>4. ASSUME NEW asked \in Answered, Commit(asked, Len(asked)), Record, pc' = "check", UNCHANGED lc
        PROVE  Commitments'
    <3>1. PICK m \in Nat : asked \in [1..m -> Asked]
      BY DEF Answered, Answers
    <3>2. Len(asked) \in Nat
      BY <3>1, IsASeq, LenProperties
    <3> DEFINE made == [k \in 1..Len(asked) |-> Made(asked, k)]
    <3>3. made \in [1..Len(asked) -> {Made(asked, k) : k \in 1..Len(asked)}]
      OBVIOUS
    <3>4. branch' = branch \o made
      BY <2>4 DEF Commit
    <3>5. IsSeq(branch') /\ ToSet(branch) \subseteq ToSet(branch')
      BY <2>1, <3>2, <3>3, <3>4, Grown
    <3>6. /\ Ids(lc.before) \subseteq Ids(branch')
          /\ result.commits \cup (Ids(branch') \ Ids(branch)) = Ids(branch') \ Ids(lc.before)
      BY <2>1, <3>5, ReportedGrows
    <3>7. result'.commits = result.commits \cup (Ids(branch') \ Ids(branch))
      BY <2>4 DEF Record, Shapes
    <3>8. Reported(branch)'
      BY <2>4, <3>6, <3>7 DEF Reported, Ids
    <3> QED
      BY <2>4, <3>5, <3>8 DEF Commitments, IsSeq
  <2> QED
    BY <1>7, <2>2, <2>3, <2>4, CommitsCases
<1>8. CASE VerdictGates
  <2>1. result'.commits = result.commits /\ UNCHANGED <<lc, branch>>
    BY <1>8 DEF VerdictGates, Shapes
  <2>2. pc = "check" /\ pc' \in {"change", "exhausted", "verdict"}
    BY <1>6, <1>8 DEF VerdictGates
  <2> QED
    BY <2>1, <2>2 DEF Commitments
<1>9. CASE Verdict
  <2>1. result'.commits = result.commits /\ UNCHANGED <<lc, branch>>
    BY <1>9 DEF Verdict, Shapes
  <2>2. pc = "verdict" /\ pc' \in {"change", "exhausted", "proposed"}
    BY <1>6, <1>9 DEF Verdict
  <2> QED
    BY <2>1, <2>2 DEF Commitments
<1>10. CASE Answer \/ Unverified \/ Fold \/ Keep
  BY <1>10 DEF Answer, Unverified, Fold, Keep, Commitments
<1>11. CASE Inspect \/ PublishGates \/ Fail
  BY <1>11 DEF Inspect, PublishGates, Fail, Commitments
<1> QED
  BY <1>1, <1>2, <1>3, <1>4, <1>5, <1>7, <1>8, <1>9, <1>10, <1>11 DEF Step, LifecycleStep

\* Results that are about the files as they are stay so while both do.
LEMMA SameResults ==
  UNCHANGED tree =>
    /\ UNCHANGED gates => (Current(gates)' <=> Current(gates))
    /\ UNCHANGED shown => (Current(shown)' <=> Current(shown))
    /\ result'.gates = result.gates => (PassedAll(result.gates)' <=> PassedAll(result.gates))
    /\ UNCHANGED decision => (PassedAll(decision.gates)' <=> PassedAll(decision.gates))
BY DEF Current, PassedAll

\* What a pass that came to nothing leaves to the next.
LEMMA AgainTells ==
  ASSUME NEW found, found # "none" \/ FailedWithoutDefects', pass \in 1..MaxPasses, Again(found)
  PROVE  /\ pc' \in {"change", "exhausted"}
         /\ EveryPassIsAnswered'
BY DEF Again, EveryPassIsAnswered

\* Every step keeps the prompts true.
LEMMA PromptsStep == Shapes /\ Prompts /\ Step => Prompts'
<1> SUFFICES ASSUME Shapes, Prompts, Step PROVE Prompts'
  OBVIOUS
<1> USE SameResults DEF vars, loopVars, Prompts
<1>1. CASE PlanGates
  <2>1. PICK g \in Checked("plan") : gates' = g
    BY <1>1 DEF PlanGates
  <2>2. Current(gates)'
    BY <1>1, <2>1, Unfailed DEF PlanGates, Current
  <2>3. pass' = 1 /\ pc' \in {"blocked", "plan"}
    BY <1>1 DEF PlanGates
  <2> QED
    BY <2>2, <2>3 DEF ChecksShownAreCurrent, EveryPassIsAnswered
<1>2. CASE Plan
  BY <1>2 DEF Plan, ChecksShownAreCurrent, EveryPassIsAnswered
<1>3. CASE Change
  <2>1. pc' = "agent" /\ pc = "change"
    BY <1>3 DEF Change
  <2>2. Current(shown)'
    <3>1. CASE "change" \in lc.gates
      <4>1. shown' \in Checked("change")
        BY <1>3, <3>1 DEF Change
      <4> QED
        BY <4>1, Unfailed DEF Current
    <3>2. CASE "change" \notin lc.gates
      BY <1>3, <2>1, <3>2 DEF Change, ChecksWrite, Current
    <3> QED
      BY <3>1, <3>2
  <2>3. ChecksShownAreCurrent'
    BY <2>1, <2>2 DEF Current, ChecksShownAreCurrent
  <2> QED
    BY <2>1, <2>3 DEF EveryPassIsAnswered
<1>4. CASE Agent \/ TakeBack
  BY <1>4 DEF Agent, TakeBack, ChecksShownAreCurrent, EveryPassIsAnswered
<1>5. CASE MakeCommits
  <2>1. CASE Refuse
    <3>1. pc' \in {"change", "exhausted"} /\ EveryPassIsAnswered'
      BY <2>1, AgainTells DEF Refuse, Shapes
    <3>2. Current(gates)'
      BY <2>1 DEF Refuse, Current
    <3> QED
      BY <3>1, <3>2 DEF ChecksShownAreCurrent
  <2>2. CASE pc' \in {"check", "broken"}
    BY <2>2 DEF ChecksShownAreCurrent, EveryPassIsAnswered
  <2> QED
    BY <1>5, <2>1, <2>2 DEF MakeCommits
<1>6. CASE VerdictGates
  <2>1. PICK g \in Checked("verdict") :
          /\ gates' = g
          /\ Again("checks") \/ (pc' = "verdict" /\ UNCHANGED <<pass, findings>>)
    BY <1>6 DEF VerdictGates
  <2>2. Current(gates)'
    BY <1>6, <2>1, Unfailed DEF VerdictGates, Current
  <2>3. pc' \in {"change", "exhausted", "verdict"} /\ EveryPassIsAnswered'
    BY <2>1, AgainTells DEF Shapes, EveryPassIsAnswered
  <2> QED
    BY <2>2, <2>3 DEF ChecksShownAreCurrent
<1>7. CASE Verdict
  <2>1. \/ Again("verdict")
        \/ FailedWithoutDefects' /\ Again("none")
        \/ pc' = "proposed"
    BY <1>7 DEF Verdict, FailedWithoutDefects, Shapes
  <2>2. pc' \in {"change", "exhausted", "proposed"} /\ EveryPassIsAnswered'
    BY <2>1, AgainTells DEF Shapes, EveryPassIsAnswered
  <2>3. Current(gates)'
    BY <1>7 DEF Verdict
  <2> QED
    BY <2>2, <2>3 DEF ChecksShownAreCurrent
<1>8. CASE Break
  BY <1>8 DEF Break, ChecksShownAreCurrent, EveryPassIsAnswered
<1>9. CASE Answer \/ Unverified \/ Fold \/ Keep \/ Inspect \/ PublishGates \/ Fail
  BY <1>9 DEF Answer, Unverified, Fold, Keep, Inspect, PublishGates, Fail, ChecksShownAreCurrent,
     EveryPassIsAnswered
<1> QED
  BY <1>1, <1>2, <1>3, <1>4, <1>5, <1>6, <1>7, <1>8, <1>9 DEF Step, LifecycleStep

\* Every step keeps the judgements about what is committed.
LEMMA JudgementsStep == Shapes /\ Judgements /\ Step => Judgements'
<1> SUFFICES ASSUME Shapes, Judgements, Step PROVE Judgements'
  OBVIOUS
<1> USE SameResults DEF vars, loopVars, Judgements, Judged
<1>0. ASSUME pc' # "cleared" PROVE ClearedWasJudged'
  BY <1>0 DEF ClearedWasJudged
<1>1. CASE PlanGates \/ Plan \/ Change \/ Agent \/ TakeBack \/ Break
  BY <1>0, <1>1 DEF PlanGates, Plan, Change, Agent, TakeBack, Break
<1>2. CASE MakeCommits
  <2>1. CASE pc' \in {"change", "exhausted", "broken"}
    BY <1>0, <2>1
  <2>2. ASSUME NEW asked \in Answered, Check(asked, ChangedPaths, branch),
               Commit(asked, Len(asked)), pc' = "check", UNCHANGED tree
        PROVE  Judgements'
    BY <1>0, <2>2, Covered
  <2> QED
    BY <1>2, <2>1, <2>2, CommitsCases DEF Refuse, Again
<1>3. CASE VerdictGates
  <2>1. PICK g \in Checked("verdict") :
          /\ result' = [result EXCEPT !.gates = g]
          /\ ~Failed(g) \/ pc' \in {"change", "exhausted"}
    BY <1>3 DEF VerdictGates, Again
  <2>2. result'.gates = g
    BY <2>1 DEF Shapes
  <2>3. UNCHANGED <<lc, committed>> /\ ChecksWrite("verdict")
       /\ pc' \in {"change", "exhausted", "verdict"} /\ pc = "check"
    BY <1>3 DEF VerdictGates, Again
  <2>4. pc' = "verdict" => ("verdict" \in lc.gates => PassedAll(result.gates)')
    BY <2>1, <2>2, Unfailed DEF PassedAll
  <2>5. LeavesFiles("verdict")' => tree' = committed'
    BY <2>3, ChecksKeepTrees DEF Shapes, LeavesFiles
  <2> QED
    BY <1>0, <2>3, <2>4, <2>5
<1>4. CASE Verdict
  <2>1. PICK passed, defects \in BOOLEAN :
          /\ result' = [result EXCEPT !.verdict =
               [given |-> TRUE, passed |-> passed, defects |-> defects, tree |-> tree]]
          /\ passed \/ pc' \in {"change", "exhausted"}
    BY <1>4 DEF Verdict, Again
  <2>2. /\ result'.gates = result.gates
        /\ (result'.verdict.passed <=> passed) /\ result'.verdict.tree = tree
    BY <2>1 DEF Shapes
  <2>3. UNCHANGED <<lc, tree, committed>>
       /\ pc' \in {"change", "exhausted", "proposed"} /\ pc = "verdict"
    BY <1>4 DEF Verdict, Again
  <2> QED
    BY <1>0, <2>1, <2>2, <2>3 DEF LeavesFiles
<1>5. CASE Answer \/ Unverified \/ Fail
  BY <1>0, <1>5 DEF Answer, Unverified, Fail
<1>6. CASE Fold
  <2>1. pc' = "inspect" => tree = committed
    BY <1>6 DEF Fold, ChangedPaths, Shapes, Trees
  <2> QED
    BY <1>0, <1>6, <2>1 DEF Fold, LeavesFiles
<1>7. CASE Keep
  BY <1>0, <1>7 DEF Keep, LeavesFiles
<1>8. CASE Inspect
  <2>1. pc' \in {"refused", "gates"} /\ UNCHANGED <<lc, tree, committed, branch, result>>
       /\ pc = "inspect"
    BY <1>8 DEF Inspect
  <2>2. pc' = "gates" => decision'.refused \/ Policy
    BY <1>8 DEF Inspect, Shapes
  <2>3. Policy' <=> Policy
    BY <2>1 DEF Policy
  <2> QED
    BY <1>0, <2>1, <2>2, <2>3 DEF LeavesFiles
<1>9. CASE PublishGates
  <2>1. PICK g \in Checked("publish") :
          /\ decision' = [decision EXCEPT !.gates = g, !.refused = decision.refused \/ Failed(g)]
          /\ pc' = IF decision.refused \/ Failed(g) THEN "refused" ELSE "cleared"
    BY <1>9 DEF PublishGates
  <2>2. UNCHANGED <<lc, committed, branch, result>> /\ pc = "gates" /\ ChecksWrite("publish")
    BY <1>9 DEF PublishGates
  <2>3. decision'.gates = g
    BY <2>1 DEF Shapes
  <2>4. tree' \in Trees /\ (LeavesFiles("publish") => tree' = tree)
    BY <2>2, ChecksKeepTrees DEF Shapes
  <2>5. ASSUME pc' = "cleared" PROVE ClearedWasJudged'
    <3>1. "publish" \in lc.gates => decision'.gates = <<[ok |-> TRUE, tree |-> tree']>>
      BY <2>1, <2>3, <2>5, Unfailed
    <3>2. /\ result.verdict.passed /\ result.verdict.tree = tree
          /\ "verdict" \in lc.gates => result.gates = <<[ok |-> TRUE, tree |-> tree]>>
      BY <2>2 DEF PassedAll
    <3>3. lc.mode = "implement" \/ LeavesFiles("verdict") => tree = committed
      BY <2>2
    <3>4. (LeavesFiles("verdict")' <=> LeavesFiles("verdict"))
          /\ (LeavesFiles("publish")' <=> LeavesFiles("publish"))
      BY <2>2 DEF LeavesFiles
    <3> QED
      BY <2>2, <2>4, <3>1, <3>2, <3>3, <3>4 DEF ClearedWasJudged
  <2>6. (pc' = "cleared" => Policy) /\ (Policy' <=> Policy)
    BY <2>1, <2>2 DEF Policy
  <2> QED
    BY <1>0, <2>1, <2>5, <2>6
<1> QED
  BY <1>1, <1>2, <1>3, <1>4, <1>5, <1>6, <1>7, <1>8, <1>9 DEF Step, LifecycleStep

\* The invariant is inductive.
LEMMA InvStep == PubInv /\ [Next]_allVars => PubInv'
<1>1. ASSUME PubInv, Step PROVE PubInv'
  BY <1>1, ShapesStep, CommitmentsStep, PromptsStep, JudgementsStep DEF PubInv
<1>2. ASSUME PubInv, UNCHANGED allVars PROVE PubInv'
  BY <1>2, SameReport, SameResults DEF PubInv, allVars, vars, Shapes, Commitments, Prompts,
     Judgements, Judged, Policy, ChecksShownAreCurrent, EveryPassIsAnswered,
     FailedWithoutDefects, ClearedWasJudged, LeavesFiles
<1> QED
  BY <1>1, <1>2 DEF Next

\* It holds of every run of a lifecycle and the decision on it.
LEMMA Invariance == Spec => []PubInv
BY InitInv, InvStep, PTL DEF Spec

\* However a run ends short of an error, its result names the commits that it left on the
\* branch and no other.
THEOREM EveryCommitIsReported == Spec => []CommitsAreReported
<1>1. PubInv => CommitsAreReported
  BY DEF PubInv, Commitments, Between, Reported, CommitsAreReported
<1> QED
  BY <1>1, Invariance, PTL

\* A change step is shown checks of the files that it starts from.
THEOREM PromptsShowTheFiles == Spec => []ChecksShownAreCurrent
BY Invariance, PTL DEF PubInv, Prompts

\* A pass after the first is told what was wrong with the one before it, unless the step that
\* judges failed its files and named no defect.
THEOREM PassesAreTold == Spec => []EveryPassIsAnswered
BY Invariance, PTL DEF PubInv, Prompts

\* What is cleared is what the verdict and the checks were about.
THEOREM ClearedIsWhatWasJudged == Spec => []ClearedWasJudged
BY Invariance, PTL DEF PubInv, Judgements

\* A run that implements a task publishes no fix; a revision publishes all of its own.
THEOREM FixesReachReviewers == Spec => []FixesAreForReviewers
<1>1. ASSUME PubInv, pc = "cleared" PROVE FixesAreForReviewers
  <2>1. CASE lc.mode = "feedback"
    <3>1. Ids(branch) = Ids(lc.before) \cup result.commits
      BY <1>1, <2>1 DEF PubInv, Commitments, Reported
    <3> QED
      BY <2>1, <3>1 DEF FixesAreForReviewers, Ids
  <2>2. CASE lc.mode = "implement"
    BY <1>1, <2>2 DEF PubInv, Judgements, Policy, FixesAreForReviewers
  <2> QED
    BY <1>1, <2>1, <2>2 DEF PubInv, Shapes
<1>2. PubInv => FixesAreForReviewers
  BY <1>1 DEF FixesAreForReviewers
<1> QED
  BY <1>2, Invariance, PTL
-----------------------------------------------------------------------------
(***************************************************************************)
(* The types.                                                              *)
(***************************************************************************)
\* Checks say whether they passed, and on what.
LEMMA CheckedTyped ==
  ASSUME NEW step, tree' \in Trees, NEW g \in Checked(step)
  PROVE  g \in Results
<1> DEFINE R == [ok : BOOLEAN, tree : Trees]
<1>1. \A b \in BOOLEAN : [ok |-> b, tree |-> tree'] \in R
  OBVIOUS
<1>2. <<>> \in Seq(R) /\ \A r \in R : <<r>> \in Seq(R)
  OBVIOUS
<1> QED
  BY <1>1, <1>2 DEF Checked, Results

\* A pass that came to nothing has another after it, within the cap, or none.
LEMMA AgainTyped ==
  ASSUME pass \in 1..MaxPasses, NEW found \in {"none", "commits", "checks", "verdict"}, Again(found)
  PROVE  pass' \in 1..MaxPasses /\ findings' \in Finding /\ pc' \in {"change", "exhausted"}
<1>1. MaxPasses \in Nat
  BY LifecycleAssumption
<1>2. findings' = [from |-> found, pass |-> pass] /\ pass \in 0..MaxPasses
  BY <1>1 DEF Again
<1> QED
  BY <1>1, <1>2 DEF Again, Finding

\* What an answer asks for, and what of it checks out.
LEMMA AskedParts ==
  ASSUME NEW asked \in Answered
  PROVE  /\ Len(asked) \in Nat /\ DOMAIN asked = 1..Len(asked)
         /\ \A k \in DOMAIN asked : asked[k].fix \in BOOLEAN
         /\ Check(asked, ChangedPaths, branch) => \A k \in DOMAIN asked :
              /\ ~asked[k].fix => asked[k].subject \in Acceptable
              /\ asked[k].fix => \E i \in DOMAIN branch : asked[k].names = {branch[i].id}
<1>1. PICK m \in Nat : asked \in [1..m -> Asked]
  BY DEF Answered, Answers
<1>2. Len(asked) = m /\ DOMAIN asked = 1..m
  BY <1>1, IsASeq, LenProperties
<1>3. \A a \in Asked : a.fix \in BOOLEAN
  BY DEF Asked
<1>4. ASSUME Check(asked, ChangedPaths, branch), NEW k \in DOMAIN asked
      PROVE  /\ ~asked[k].fix => asked[k].subject \in Acceptable
             /\ asked[k].fix => \E i \in DOMAIN branch : asked[k].names = {branch[i].id}
  <2>1. ~asked[k].fix => asked[k].subject \in Acceptable
    BY <1>4 DEF Check, Unacceptable
  <2>2. asked[k].fix => \E c \in ToSet(branch) : asked[k].names = {c.id}
    BY <1>4 DEF Check, Unfoldable
  <2> QED
    BY <2>1, <2>2 DEF ToSet
<1> QED
  BY <1>1, <1>2, <1>3, <1>4

\* The commit that is made of what was asked for.
LEMMA MadeParts ==
  ASSUME branch \in Seq(Commits), NEW asked \in Answered,
         Check(asked, ChangedPaths, branch), NEW k \in DOMAIN asked
  PROVE  /\ Made(asked, k) \in Commits
         /\ Made(asked, k).id = Len(branch) + k /\ Made(asked, k).by = "engine"
         /\ Made(asked, k).fix = asked[k].fix
         /\ ~asked[k].fix => Made(asked, k).subject = asked[k].subject
         /\ asked[k].fix => \E o \in DOMAIN branch :
              /\ asked[k].names = {branch[o].id}
              /\ Made(asked, k).subject = branch[o].subject /\ Made(asked, k).of = branch[o].id
<1>1. /\ Len(asked) \in Nat /\ DOMAIN asked = 1..Len(asked)
      /\ asked[k].fix \in BOOLEAN /\ (~asked[k].fix => asked[k].subject \in Subjects)
      /\ asked[k].fix => \E i \in DOMAIN branch : asked[k].names = {branch[i].id}
  BY AskedParts DEF Subjects
<1>2. Len(branch) \in Nat /\ \A i \in DOMAIN branch : branch[i] \in Commits
  BY LenProperties
<1> DEFINE of == CHOOSE i \in DOMAIN branch : branch[i].id \in asked[k].names
<1>3. asked[k].fix => of \in DOMAIN branch /\ asked[k].names = {branch[of].id}
  BY <1>1
<1>4. Made(asked, k) =
        [ id      |-> Len(branch) + k,
          by      |-> "engine",
          subject |-> IF asked[k].fix THEN branch[of].subject ELSE asked[k].subject,
          fix     |-> asked[k].fix,
          of      |-> IF asked[k].fix THEN branch[of].id ELSE 0 ]
  BY DEF Made
<1> HIDE DEF of
<1>5. /\ Len(branch) + k \in Nat
      /\ (IF asked[k].fix THEN branch[of].subject ELSE asked[k].subject) \in Subjects
      /\ (IF asked[k].fix THEN branch[of].id ELSE 0) \in Nat
  BY <1>1, <1>2, <1>3 DEF Commits
<1>6. Made(asked, k) \in Commits
  BY <1>1, <1>4, <1>5 DEF Commits
<1> QED
  BY <1>3, <1>4, <1>6

\* The branch after some of the commits asked for were made.
LEMMA CommitParts ==
  ASSUME branch \in Seq(Commits), tree \in Trees, committed \in Trees, NEW asked \in Answered,
         Check(asked, ChangedPaths, branch), NEW n \in 0..Len(asked), Commit(asked, n)
  PROVE  /\ branch' \in Seq(Commits) /\ committed' \in Trees
         /\ Len(branch) \in Nat /\ Len(branch') = Len(branch) + n
         /\ \A i \in 1..Len(branch) : branch'[i] = branch[i]
         /\ \A k \in 1..n : branch'[Len(branch) + k] = Made(asked, k)
<1> DEFINE made == [k \in 1..n |-> Made(asked, k)]
<1>1. Len(asked) \in Nat /\ DOMAIN asked = 1..Len(asked)
  BY AskedParts
<1>2. \A k \in 1..n : k \in DOMAIN asked /\ Made(asked, k) \in Commits
  BY <1>1, MadeParts
<1>3. made \in Seq(Commits) /\ Len(made) = n /\ \A k \in 1..n : made[k] = Made(asked, k)
  <2>1. made \in [1..n -> Commits] /\ n \in Nat
    BY <1>1, <1>2
  <2>2. made \in Seq(Commits)
    BY <2>1, IsASeq
  <2>3. Len(made) = n
    <3>1. DOMAIN made = 1..n /\ DOMAIN made = 1..Len(made) /\ Len(made) \in Nat
      BY <2>2, LenProperties
    <3> HIDE DEF made
    <3> QED
      BY <2>1, <3>1
  <2> QED
    BY <2>2, <2>3
<1>4. branch' = branch \o made /\ committed' \in Trees
  BY DEF Commit, Trees
<1> HIDE DEF made
<1>5. Len(branch) \in Nat
  BY LenProperties
<1>6. /\ branch' \in Seq(Commits) /\ Len(branch') = Len(branch) + n
      /\ \A i \in 1..(Len(branch) + n) :
           branch'[i] = IF i <= Len(branch) THEN branch[i] ELSE made[i - Len(branch)]
  BY <1>3, <1>4, ConcatProperties
<1>7. ASSUME NEW k \in 1..n PROVE branch'[Len(branch) + k] = Made(asked, k)
  <2>1. Len(branch) + k \in 1..(Len(branch) + n) /\ ~(Len(branch) + k <= Len(branch))
        /\ Len(branch) + k - Len(branch) = k
    BY <1>1, <1>5
  <2> QED
    BY <1>3, <1>6, <2>1
<1>8. ASSUME NEW i \in 1..Len(branch) PROVE branch'[i] = branch[i]
  BY <1>1, <1>5, <1>6
<1> QED
  BY <1>4, <1>5, <1>6, <1>7, <1>8

\* The first state is of the types.
LEMMA InitType == PInit => TypeOK
<1> SUFFICES ASSUME PInit PROVE TypeOK
  OBVIOUS
<1>1. Untouched \in Trees /\ 1 \in 1..MaxPasses /\ MaxPasses \in Nat
  BY LifecycleAssumption DEF Untouched, Trees, Rewritten
<1>2. /\ lc \in [mode : {"implement", "feedback"}, gates : Gatings, before : Seq(Commits)]
      /\ branch \in Seq(Commits) /\ pc \in {"plangate", "change"}
  <2>1. <<>> \in Seq(Commits)
    OBVIOUS
  <2>2. PICK g \in Gatings :
          \/ lc = [mode |-> "implement", gates |-> g, before |-> <<>>] /\ pc = "plangate"
          \/ \E b \in Proposals :
               lc = [mode |-> "feedback", gates |-> g, before |-> b] /\ pc = "change"
    BY DEF PInit, Init
  <2>3. branch = lc.before
    BY DEF PInit, Init
  <2>4. CASE lc = [mode |-> "implement", gates |-> g, before |-> <<>>] /\ pc = "plangate"
    BY <2>1, <2>3, <2>4
  <2>5. CASE \E b \in Proposals :
               lc = [mode |-> "feedback", gates |-> g, before |-> b] /\ pc = "change"
    <3>1. PICK b \in Proposals : lc = [mode |-> "feedback", gates |-> g, before |-> b]
      BY <2>5
    <3>2. b \in Seq(Commits)
      BY ProposalsAssumption
    <3> QED
      BY <2>3, <2>5, <3>1, <3>2
  <2> QED
    BY <2>2, <2>4, <2>5
<1>3. <<>> \in Results
  BY DEF Results
<1>4. start \in [branch : Seq(Commits), committed : Trees]
  <2>1. <<>> \in Seq(Commits)
    OBVIOUS
  <2> QED
    BY <1>1, <2>1 DEF PInit, Init, NotBegun
<1>5. findings \in Finding
  BY <1>1 DEF PInit, Init, NothingFound, Finding
<1>6. NoVerdict \in Verdicts
  BY <1>1 DEF NoVerdict, Verdicts
<1>7. result \in [ change : {"none", "complete", "needs_more", "blocked"}, verdict : Verdicts,
                   gates : Results, commits : SUBSET Nat ]
  BY <1>3, <1>6 DEF PInit, Init
<1>8. decision \in [refused : BOOLEAN, unverified : BOOLEAN, gates : Results]
  BY <1>3 DEF PInit, Undecided
<1>9. /\ pass \in 1..MaxPasses /\ tree \in Trees /\ committed \in Trees
      /\ shown \in Results /\ gates \in Results
  BY <1>1, <1>3 DEF PInit, Init
<1> QED
  BY <1>2, <1>4, <1>5, <1>7, <1>8, <1>9 DEF TypeOK, LifecycleTypeOK, Working

\* What a type says of each variable, a name for each that steps change.
ResultTypes == [ change : {"none", "complete", "needs_more", "blocked"}, verdict : Verdicts,
                 gates : Results, commits : SUBSET Nat ]

DecisionTypes == [refused : BOOLEAN, unverified : BOOLEAN, gates : Results]

\* A step of the lifecycle keeps the types.
LEMMA LifecycleTypes == TypeOK /\ LifecycleStep /\ UNCHANGED decision => TypeOK'
<1> SUFFICES ASSUME TypeOK, LifecycleStep, UNCHANGED decision PROVE TypeOK'
  OBVIOUS
<1> DEFINE LcTypes == [mode : {"implement", "feedback"}, gates : Gatings, before : Seq(Commits)]
           StartTypes == [branch : Seq(Commits), committed : Trees]
<1>0. /\ lc \in LcTypes /\ pass \in 1..MaxPasses /\ tree \in Trees /\ committed \in Trees
      /\ branch \in Seq(Commits) /\ start \in StartTypes
      /\ shown \in Results /\ gates \in Results /\ findings \in Finding
      /\ result \in ResultTypes /\ decision \in DecisionTypes
      /\ pc \in Working \cup Ended \cup Deciding \cup Decided
  BY DEF TypeOK, LifecycleTypeOK, ResultTypes, DecisionTypes
<1>00. Untouched \in Trees /\ <<>> \in Results /\ NotBegun \in StartTypes
  <2>1. Untouched \in Trees
    BY LifecycleAssumption DEF Untouched, Trees, Rewritten
  <2>2. <<>> \in Seq(Commits) /\ <<>> \in Results
    BY DEF Results
  <2> QED
    BY <2>1, <2>2 DEF NotBegun
<1> SUFFICES /\ lc' \in LcTypes /\ pass' \in 1..MaxPasses /\ tree' \in Trees
             /\ committed' \in Trees
             /\ branch' \in Seq(Commits) /\ start' \in StartTypes
             /\ shown' \in Results /\ gates' \in Results /\ findings' \in Finding
             /\ result' \in ResultTypes /\ pc' \in Working \cup Ended
  BY <1>0 DEF TypeOK, LifecycleTypeOK, ResultTypes, DecisionTypes
<1> HIDE DEF LcTypes, StartTypes
<1>1. CASE PlanGates
  <2>1. tree' \in Trees
    BY <1>0, <1>1, ChecksKeepTrees DEF PlanGates
  <2>2. PICK g \in Checked("plan") :
          gates' = g /\ result' = [result EXCEPT !.gates = g] /\ pc' \in {"blocked", "plan"}
    BY <1>1 DEF PlanGates
  <2>3. g \in Results
    BY <2>1, <2>2, CheckedTyped
  <2>4. result' \in ResultTypes
    BY <1>0, <2>2, <2>3 DEF ResultTypes
  <2>5. UNCHANGED <<lc, pass, committed, branch, start, shown, findings>>
    BY <1>1 DEF PlanGates
  <2> QED
    BY <1>0, <2>1, <2>2, <2>3, <2>4, <2>5 DEF Working, Ended
<1>2. CASE Plan \/ Break
  BY <1>0, <1>2 DEF Plan, Break, loopVars, Working, Ended
<1>3. CASE Change
  <2>1. tree' \in Trees
    BY <1>0, <1>3, ChecksKeepTrees DEF Change
  <2>2. shown' \in Results
    BY <1>0, <1>3, <2>1, CheckedTyped DEF Change
  <2>3. start' \in StartTypes
    BY <1>0, <1>3 DEF Change, StartTypes
  <2>4. UNCHANGED <<lc, pass, committed, branch, gates, findings, result>> /\ pc' = "agent"
    BY <1>3 DEF Change
  <2> QED
    BY <1>0, <2>1, <2>2, <2>3, <2>4 DEF Working
<1>4. CASE Agent
  <2>1. tree' \in Trees /\ committed' \in Trees
    BY <1>0, <1>4 DEF Agent, Edits
  <2>2. RogueCommit \in Commits
    BY DEF RogueCommit, Commits, Subjects
  <2>3. Append(branch, RogueCommit) \in Seq(Commits)
    BY <1>0, <2>2, AppendProperties
  <2>4. branch # <<>> => Append(Front(branch), RogueCommit) \in Seq(Commits)
    <3>1. Front(branch) \in Seq(Commits)
      BY <1>0, LenProperties, SubSeqProperties DEF Front
    <3> QED
      BY <2>2, <3>1, AppendProperties
  <2>5. branch' \in Seq(Commits)
    BY <1>0, <1>4, <2>3, <2>4 DEF Agent
  <2>6. result' \in ResultTypes
    BY <1>0, <1>4 DEF Agent, ResultTypes
  <2>7. UNCHANGED <<lc, pass, start, shown, gates, findings>> /\ pc' = "takeback"
    BY <1>4 DEF Agent
  <2> QED
    BY <1>0, <2>1, <2>5, <2>6, <2>7 DEF Working
<1>5. CASE TakeBack
  <2>1. /\ branch' = start.branch /\ committed' = start.committed
        /\ start' = NotBegun /\ shown' = <<>> /\ pc' \in {"blocked", "commits"}
        /\ UNCHANGED <<lc, pass, tree, gates, findings, result>>
    BY <1>5 DEF TakeBack
  <2>2. start.branch \in Seq(Commits) /\ start.committed \in Trees
    BY <1>0 DEF StartTypes
  <2> QED
    BY <1>0, <1>00, <2>1, <2>2 DEF Working, Ended
<1>6. CASE MakeCommits
  <2>0. UNCHANGED <<lc, tree, start, shown>>
    BY <1>6 DEF MakeCommits
  <2>1. CASE /\ Refuse
             /\ UNCHANGED <<branch, committed, result>>
    <3>1. pass' \in 1..MaxPasses /\ findings' \in Finding /\ pc' \in {"change", "exhausted"}
      BY <1>0, <2>1, AgainTyped DEF Refuse
    <3>2. gates' = <<>> /\ UNCHANGED <<branch, committed, result>>
      BY <2>1 DEF Refuse
    <3> QED
      BY <1>0, <1>00, <2>0, <3>1, <3>2 DEF Working, Ended
  <2>2. ASSUME NEW asked \in Answered, NEW n \in 0..Len(asked),
               Check(asked, ChangedPaths, branch), Commit(asked, n),
               \/ Record /\ pc' = "check"
               \/ pc' = "broken" /\ UNCHANGED result,
               UNCHANGED <<pass, gates, findings>>
        PROVE  /\ pass' \in 1..MaxPasses /\ committed' \in Trees /\ branch' \in Seq(Commits)
               /\ gates' \in Results /\ findings' \in Finding /\ result' \in ResultTypes
               /\ pc' \in Working \cup Ended
    <3>1. branch' \in Seq(Commits) /\ committed' \in Trees
      BY <1>0, <2>2, CommitParts
    <3>2. Ids(branch') \subseteq Nat
      <4>1. \A c \in ToSet(branch') : c \in Commits
        BY <3>1, LenProperties DEF ToSet
      <4> QED
        BY <4>1 DEF Ids, Commits
    <3>3. result' \in ResultTypes
      <4>1. CASE Record
        <5>1. result' = [result EXCEPT !.commits = result.commits \cup (Ids(branch') \ Ids(branch))]
          BY <4>1 DEF Record
        <5> QED
          BY <1>0, <3>2, <5>1 DEF ResultTypes
      <4> QED
        BY <1>0, <2>2, <4>1
    <3>4. pc' \in Working \cup Ended
      BY <2>2 DEF Working, Ended
    <3> QED
      BY <1>0, <2>2, <3>1, <3>3, <3>4
  <2>3. CASE \E asked \in Answered :
               /\ Check(asked, ChangedPaths, branch)
               /\ \/ Commit(asked, Len(asked)) /\ Record /\ pc' = "check"
                  \/ (\E n \in 1..Len(asked) : Commit(asked, n)) /\ pc' = "broken" /\ UNCHANGED result
               /\ UNCHANGED <<pass, gates, findings>>
    <3>1. PICK asked \in Answered :
            /\ Check(asked, ChangedPaths, branch)
            /\ \/ Commit(asked, Len(asked)) /\ Record /\ pc' = "check"
               \/ (\E n \in 1..Len(asked) : Commit(asked, n)) /\ pc' = "broken" /\ UNCHANGED result
            /\ UNCHANGED <<pass, gates, findings>>
      BY <2>3
    <3>2. Len(asked) \in Nat
      BY AskedParts
    <3>3. PICK n \in 0..Len(asked) :
            /\ Commit(asked, n)
            /\ \/ Record /\ pc' = "check"
               \/ pc' = "broken" /\ UNCHANGED result
      BY <3>1, <3>2
    <3>4. /\ pass' \in 1..MaxPasses /\ committed' \in Trees /\ branch' \in Seq(Commits)
          /\ gates' \in Results /\ findings' \in Finding /\ result' \in ResultTypes
          /\ pc' \in Working \cup Ended
      BY <2>2, <3>1, <3>3
    <3> QED
      BY <1>0, <2>0, <3>4
  <2> QED
    BY <1>6, <2>1, <2>3, CommitsCases
<1>7. CASE VerdictGates
  <2>1. tree' \in Trees
    BY <1>0, <1>7, ChecksKeepTrees DEF VerdictGates
  <2>2. PICK g \in Checked("verdict") :
          /\ gates' = g /\ result' = [result EXCEPT !.gates = g]
          /\ Again("checks") \/ (pc' = "verdict" /\ UNCHANGED <<pass, findings>>)
    BY <1>7 DEF VerdictGates
  <2>3. g \in Results
    BY <2>1, <2>2, CheckedTyped
  <2>4. result' \in ResultTypes
    BY <1>0, <2>2, <2>3 DEF ResultTypes
  <2>5. pass' \in 1..MaxPasses /\ findings' \in Finding /\ pc' \in {"change", "exhausted", "verdict"}
    BY <1>0, <2>2, AgainTyped
  <2>6. UNCHANGED <<lc, committed, branch, start, shown>>
    BY <1>7 DEF VerdictGates
  <2> QED
    BY <1>0, <2>1, <2>2, <2>3, <2>4, <2>5, <2>6 DEF Working, Ended
<1>8. CASE Verdict
  <2>1. PICK passed, defects \in BOOLEAN :
          /\ result' = [result EXCEPT !.verdict =
               [given |-> TRUE, passed |-> passed, defects |-> defects, tree |-> tree]]
          /\ \/ pc' = "proposed" /\ UNCHANGED <<pass, findings>>
             \/ Again(IF defects THEN "verdict" ELSE "none")
    BY <1>8 DEF Verdict
  <2>2. [given |-> TRUE, passed |-> passed, defects |-> defects, tree |-> tree] \in Verdicts
    BY <1>0 DEF Verdicts
  <2>3. result' \in ResultTypes
    BY <1>0, <2>1, <2>2 DEF ResultTypes
  <2>4. pass' \in 1..MaxPasses /\ findings' \in Finding /\ pc' \in {"change", "exhausted", "proposed"}
    BY <1>0, <2>1, AgainTyped
  <2>5. UNCHANGED <<lc, tree, committed, branch, start, shown, gates>>
    BY <1>8 DEF Verdict
  <2> QED
    BY <1>0, <2>3, <2>4, <2>5 DEF Working, Ended
<1> QED
  BY <1>1, <1>2, <1>3, <1>4, <1>5, <1>6, <1>7, <1>8 DEF LifecycleStep

\* A step of the decision keeps the types.
LEMMA DecisionTypesStep ==
  TypeOK /\ (Answer \/ Unverified \/ Fold \/ Keep \/ Inspect \/ PublishGates \/ Fail) => TypeOK'
<1> SUFFICES ASSUME TypeOK, Answer \/ Unverified \/ Fold \/ Keep \/ Inspect \/ PublishGates \/ Fail
             PROVE  TypeOK'
  OBVIOUS
<1>0. /\ tree \in Trees /\ branch \in Seq(Commits) /\ decision \in DecisionTypes
      /\ lc \in [mode : {"implement", "feedback"}, gates : Gatings, before : Seq(Commits)]
      /\ pass \in 1..MaxPasses /\ committed \in Trees
      /\ start \in [branch : Seq(Commits), committed : Trees]
      /\ shown \in Results /\ gates \in Results /\ findings \in Finding
      /\ result \in ResultTypes
  BY DEF TypeOK, LifecycleTypeOK, ResultTypes, DecisionTypes
<1>1. UNCHANGED <<lc, pass, start, shown, gates, findings, result, committed>>
  BY DEF Answer, Unverified, Fold, Keep, Inspect, PublishGates, Fail, loopVars
<1> SUFFICES /\ tree' \in Trees /\ branch' \in Seq(Commits) /\ decision' \in DecisionTypes
             /\ pc' \in Working \cup Ended \cup Deciding \cup Decided
  BY <1>0, <1>1 DEF TypeOK, LifecycleTypeOK, ResultTypes, DecisionTypes
<1>2. CASE Answer \/ Unverified \/ Fail
  BY <1>0, <1>2 DEF Answer, Unverified, Fail, DecisionTypes, Decided, Ended
<1>3. CASE Fold
  <2>1. Folded(branch) \in Seq(Commits)
    BY <1>0, FoldedElements
  <2>2. branch' \in Seq(Commits) /\ UNCHANGED tree /\ pc' \in {"inspect", "refused"}
    BY <1>0, <1>3, <2>1 DEF Fold
  <2>3. Verified \in BOOLEAN
    BY DEF Verified
  <2>4. decision' \in DecisionTypes
    BY <1>0, <1>3, <2>3 DEF Fold, DecisionTypes
  <2> QED
    BY <1>0, <2>2, <2>4 DEF Deciding, Decided
<1>4. CASE Keep
  <2>1. Verified \in BOOLEAN
    BY DEF Verified
  <2> QED
    BY <1>0, <1>4, <2>1 DEF Keep, DecisionTypes, Deciding
<1>5. CASE Inspect
  BY <1>0, <1>5 DEF Inspect, DecisionTypes, Deciding, Decided
<1>6. CASE PublishGates
  <2>1. tree' \in Trees
    BY <1>0, <1>6, ChecksKeepTrees DEF PublishGates
  <2>2. PICK g \in Checked("publish") :
          /\ decision' = [decision EXCEPT !.gates = g, !.refused = decision.refused \/ Failed(g)]
          /\ pc' \in {"refused", "cleared"}
    BY <1>6 DEF PublishGates
  <2>3. g \in Results /\ Failed(g) \in BOOLEAN
    BY <2>1, <2>2, CheckedTyped DEF Failed
  <2>4. decision' \in DecisionTypes
    BY <1>0, <2>2, <2>3 DEF DecisionTypes
  <2> QED
    BY <1>0, <1>6, <2>1, <2>2, <2>4 DEF PublishGates, Decided
<1> QED
  BY <1>2, <1>3, <1>4, <1>5, <1>6

\* Every step keeps the types.
LEMMA TypeStep == TypeOK /\ [Next]_allVars => TypeOK'
<1>1. ASSUME TypeOK, UNCHANGED allVars PROVE TypeOK'
  BY <1>1 DEF TypeOK, LifecycleTypeOK, allVars, vars
<1> QED
  BY <1>1, LifecycleTypes, DecisionTypesStep DEF Next, Step

\* Every variable has its type, in every run of a lifecycle and the decision on it.
THEOREM TypeCorrect == Spec => []TypeOK
BY InitType, TypeStep, PTL DEF Spec
-----------------------------------------------------------------------------
(***************************************************************************)
(* Whose commits they are.                                                 *)
(***************************************************************************)
\* Every fix of the engine's comes after a commit that it is called like and was made for.
Aimed(b) ==
  \A i \in DOMAIN b : b[i].fix /\ b[i].by = "engine" =>
    \E j \in 1..(i - 1) : ~b[j].fix /\ b[j].subject = b[i].subject /\ b[j].id = b[i].of

\* The commits from before the run and then the engine's, numbered in their order, and their
\* fixes with a target if those before could be told apart.
Own(b) ==
  /\ \A i \in DOMAIN b : b[i].id = i /\ b[i].by # "agent"
  /\ \A i \in DOMAIN lc.before : i \in DOMAIN b /\ b[i] = lc.before[i]
  /\ ToldApart(lc.before) => ToldApart(b) /\ Aimed(b)

\* What the agent does to the branch is seen in a change step only.
Histories ==
  /\ pc \in Between => Own(branch)
  /\ pc \in {"agent", "takeback"} => Own(start.branch)
  /\ pc \in {"inspect", "gates"} =>
       /\ \A c \in ToSet(branch) : c.by # "agent"
       /\ lc.mode = "feedback" => Own(branch)

\* A commit asked for that checks out: a fix is of a commit on the branch that is not one, and
\* what is new is called as nothing else is.
LEMMA CheckedParts ==
  ASSUME branch \in Seq(Commits), Own(branch), NEW asked \in Answered,
         Check(asked, ChangedPaths, branch), NEW k \in DOMAIN asked
  PROVE  /\ asked[k].fix => \E o \in DOMAIN branch :
              /\ ~branch[o].fix /\ branch[o].id = o
              /\ Made(asked, k).subject = branch[o].subject /\ Made(asked, k).of = o
         /\ ~asked[k].fix =>
              /\ \A j \in DOMAIN branch : ~branch[j].fix => branch[j].subject # asked[k].subject
              /\ \A l \in 1..(k - 1) : ~asked[l].fix => asked[l].subject # asked[k].subject
<1>1. ASSUME asked[k].fix
      PROVE  \E o \in DOMAIN branch :
               /\ ~branch[o].fix /\ branch[o].id = o
               /\ Made(asked, k).subject = branch[o].subject /\ Made(asked, k).of = o
  <2>1. PICK c \in ToSet(branch) : ~c.fix /\ asked[k].names = {c.id}
    BY <1>1 DEF Check, Unfoldable
  <2>2. PICK j \in DOMAIN branch : branch[j] = c
    BY <2>1 DEF ToSet
  <2>3. PICK o \in DOMAIN branch :
          /\ asked[k].names = {branch[o].id}
          /\ Made(asked, k).subject = branch[o].subject /\ Made(asked, k).of = branch[o].id
    BY <1>1, MadeParts
  <2>4. branch[o].id = o /\ branch[j].id = j
    BY DEF Own
  <2>5. o = j
    BY <2>1, <2>2, <2>3, <2>4
  <2> QED
    BY <2>1, <2>2, <2>3, <2>4, <2>5
<1>2. ASSUME ~asked[k].fix
      PROVE  /\ \A j \in DOMAIN branch : ~branch[j].fix => branch[j].subject # asked[k].subject
             /\ \A l \in 1..(k - 1) : ~asked[l].fix => asked[l].subject # asked[k].subject
  <2>1. /\ ~\E c \in ToSet(branch) : ~c.fix /\ c.subject = asked[k].subject
        /\ ~\E l \in 1..(k - 1) : ~asked[l].fix /\ asked[l].subject = asked[k].subject
    BY <1>2 DEF Check, Ambiguous
  <2>2. \A j \in DOMAIN branch : branch[j] \in ToSet(branch)
    BY DEF ToSet
  <2> QED
    BY <2>1, <2>2
<1> QED
  BY <1>1, <1>2

\* The engine's commits leave a branch of its own one.
LEMMA OwnGrows ==
  ASSUME TypeOK, Own(branch), NEW asked \in Answered,
         Check(asked, ChangedPaths, branch), Commit(asked, Len(asked))
  PROVE  Own(branch')
<1> DEFINE n == Len(branch)
           m == Len(asked)
<1>1. branch \in Seq(Commits) /\ tree \in Trees /\ committed \in Trees
  BY DEF TypeOK, LifecycleTypeOK
<1>2. m \in Nat /\ DOMAIN asked = 1..m
  BY AskedParts
<1>3. /\ n \in Nat /\ Len(branch') = n + m /\ branch' \in Seq(Commits)
      /\ \A i \in 1..n : branch'[i] = branch[i]
      /\ \A k \in 1..m : branch'[n + k] = Made(asked, k)
  <2>1. m \in 0..Len(asked)
    BY <1>2
  <2> QED
    BY <1>1, <2>1, CommitParts
<1>4. DOMAIN branch = 1..n /\ DOMAIN branch' = 1..(n + m)
  BY <1>1, <1>3, LenProperties
<1>5. \A k \in 1..m : /\ Made(asked, k).id = n + k /\ Made(asked, k).by = "engine"
                      /\ Made(asked, k).fix = asked[k].fix
                      /\ ~asked[k].fix => Made(asked, k).subject = asked[k].subject
  BY <1>1, <1>2, MadeParts
<1>6. \A k \in 1..m :
        /\ asked[k].fix => \E o \in 1..n :
             /\ ~branch[o].fix /\ branch[o].id = o
             /\ Made(asked, k).subject = branch[o].subject /\ Made(asked, k).of = o
        /\ ~asked[k].fix =>
             /\ \A j \in 1..n : ~branch[j].fix => branch[j].subject # asked[k].subject
             /\ \A l \in 1..(k - 1) : ~asked[l].fix => asked[l].subject # asked[k].subject
  <2>1. ASSUME NEW k \in DOMAIN asked
        PROVE  /\ asked[k].fix => \E o \in DOMAIN branch :
                    /\ ~branch[o].fix /\ branch[o].id = o
                    /\ Made(asked, k).subject = branch[o].subject /\ Made(asked, k).of = o
               /\ ~asked[k].fix =>
                    /\ \A j \in DOMAIN branch :
                         ~branch[j].fix => branch[j].subject # asked[k].subject
                    /\ \A l \in 1..(k - 1) :
                         ~asked[l].fix => asked[l].subject # asked[k].subject
    BY <1>1, CheckedParts, Zenon
  <2> HIDE DEF n, m
  <2> QED
    BY <1>2, <1>4, <2>1, Zenon
<1> HIDE DEF n, m
<1>7. ASSUME NEW i \in 1..(n + m), i \notin 1..n
      PROVE  \E k \in 1..m : i = n + k /\ branch'[i] = Made(asked, k)
  <2>1. i - n \in 1..m /\ i = n + (i - n)
    BY <1>2, <1>3, <1>7
  <2> QED
    BY <1>3, <2>1
<1>8. ASSUME NEW i \in DOMAIN branch' PROVE branch'[i].id = i /\ branch'[i].by # "agent"
  <2>1. CASE i \in 1..n
    BY <1>3, <1>4, <2>1 DEF Own
  <2>2. CASE i \notin 1..n
    BY <1>4, <1>5, <1>7, <2>2
  <2> QED
    BY <2>1, <2>2
<1>9. ASSUME NEW i \in DOMAIN lc.before PROVE i \in DOMAIN branch' /\ branch'[i] = lc.before[i]
  <2>1. i \in 1..n /\ branch[i] = lc.before[i]
    BY <1>4 DEF Own
  <2> QED
    BY <1>2, <1>3, <1>4, <2>1
<1>10. ASSUME ToldApart(lc.before) PROVE ToldApart(branch') /\ Aimed(branch')
  <2>1. ToldApart(branch) /\ Aimed(branch)
    BY <1>10 DEF Own
  <2>2. ASSUME NEW i \in 1..(n + m), NEW j \in 1..(n + m), ~branch'[i].fix, ~branch'[j].fix,
               branch'[i].subject = branch'[j].subject, i < j
        PROVE  FALSE
    <3>1. CASE j \in 1..n
      <4>1. i \in 1..n
        BY <1>3, <2>2, <3>1
      <4> QED
        BY <1>3, <1>4, <2>1, <2>2, <3>1, <4>1 DEF ToldApart
    <3>2. CASE j \notin 1..n
      <4>1. PICK k \in 1..m : j = n + k /\ branch'[j] = Made(asked, k)
        BY <1>7, <3>2
      <4>2. ~asked[k].fix /\ branch'[j].subject = asked[k].subject
        BY <1>5, <2>2, <4>1
      <4>3. CASE i \in 1..n
        BY <1>3, <1>6, <2>2, <4>2, <4>3
      <4>4. CASE i \notin 1..n
        <5>1. PICK l \in 1..m : i = n + l /\ branch'[i] = Made(asked, l)
          BY <1>7, <4>4
        <5>2. ~asked[l].fix /\ branch'[i].subject = asked[l].subject
          BY <1>5, <2>2, <5>1
        <5>3. l \in 1..(k - 1)
          BY <1>2, <1>3, <2>2, <4>1, <5>1
        <5> QED
          BY <1>6, <2>2, <4>2, <5>2, <5>3
      <4> QED
        BY <4>3, <4>4
    <3> QED
      BY <3>1, <3>2
  <2>3. ToldApart(branch')
    <3>1. ASSUME NEW i \in 1..(n + m), NEW j \in 1..(n + m), ~branch'[i].fix, ~branch'[j].fix,
                 branch'[i].subject = branch'[j].subject
          PROVE  i = j
      <4>1. ~(i < j) /\ ~(j < i)
        BY <2>2, <3>1
      <4> QED
        BY <1>2, <1>3, <4>1
    <3> QED
      BY <1>4, <3>1 DEF ToldApart
  <2>4. ASSUME NEW i \in 1..(n + m), branch'[i].fix, branch'[i].by = "engine"
        PROVE  \E j \in 1..(i - 1) :
                 /\ ~branch'[j].fix /\ branch'[j].subject = branch'[i].subject
                 /\ branch'[j].id = branch'[i].of
    <3>1. CASE i \in 1..n
      <4>1. PICK j \in 1..(i - 1) :
              ~branch[j].fix /\ branch[j].subject = branch[i].subject /\ branch[j].id = branch[i].of
        BY <1>3, <1>4, <2>1, <2>4, <3>1 DEF Aimed
      <4>2. j \in 1..n
        BY <1>3, <3>1, <4>1
      <4> QED
        BY <1>3, <3>1, <4>1, <4>2
    <3>2. CASE i \notin 1..n
      <4>1. PICK k \in 1..m : i = n + k /\ branch'[i] = Made(asked, k)
        BY <1>7, <3>2
      <4>2. asked[k].fix
        BY <1>5, <2>4, <4>1
      <4>3. PICK o \in 1..n :
              /\ ~branch[o].fix /\ branch[o].id = o
              /\ Made(asked, k).subject = branch[o].subject /\ Made(asked, k).of = o
        BY <1>6, <4>2
      <4>4. branch'[o] = branch[o] /\ o \in 1..(i - 1)
        BY <1>2, <1>3, <4>1, <4>3
      <4> QED
        BY <4>1, <4>3, <4>4
    <3> QED
      BY <3>1, <3>2
  <2> QED
    BY <1>4, <2>3, <2>4 DEF Aimed
<1> QED
  BY <1>8, <1>9, <1>10 DEF Own

\* No commit on a branch of its own is an agent's.
LEMMA OwnIsNoAgents == ASSUME NEW b, Own(b) PROVE \A c \in ToSet(b) : c.by # "agent"
BY DEF Own, ToSet

\* The branch that a run finds is of its own.
LEMMA InitHistories == PInit => Histories
<1> SUFFICES ASSUME PInit PROVE Histories
  OBVIOUS
<1>1. PICK g \in Gatings :
        \/ lc = [mode |-> "implement", gates |-> g, before |-> <<>>] /\ pc = "plangate"
        \/ \E b \in Proposals :
             lc = [mode |-> "feedback", gates |-> g, before |-> b] /\ pc = "change"
  BY DEF PInit, Init
<1>2. branch = lc.before /\ (lc.before = <<>> \/ lc.before \in Proposals)
  BY <1>1 DEF PInit, Init
<1>3. \A i \in DOMAIN lc.before : lc.before[i].id = i /\ lc.before[i].by = "person"
  <2>1. CASE lc.before = <<>>
    BY <2>1
  <2>2. CASE lc.before \in Proposals
    BY <2>2, ProposalsAssumption
  <2> QED
    BY <1>2, <2>1, <2>2
<1>4. Own(branch)
  BY <1>2, <1>3 DEF Own, Aimed
<1>5. pc \in {"plangate", "change"}
  BY <1>1
<1> QED
  BY <1>4, <1>5 DEF Histories

\* Every step keeps it.
LEMMA HistoriesStep == TypeOK /\ Histories /\ Step => Histories'
<1> SUFFICES ASSUME TypeOK, Histories, Step PROVE Histories'
  OBVIOUS
<1>0. UNCHANGED lc
  BY DEF Step, LifecycleStep, PlanGates, Plan, Change, Agent, TakeBack, MakeCommits, VerdictGates,
     Verdict, Break, Answer, Unverified, Fold, Keep, Inspect, PublishGates, Fail, loopVars
<1>2. CASE PlanGates \/ Plan \/ VerdictGates \/ Verdict
  <2>1. UNCHANGED branch /\ pc \in Between /\ pc' \in Between
    BY <1>2 DEF PlanGates, Plan, VerdictGates, Verdict, Again, Between, loopVars
  <2>2. Own(branch) /\ Own(branch')
    BY <2>1 DEF Histories
  <2>3. Own(branch)'
    BY <1>0, <2>2 DEF Own
  <2> QED
    BY <2>1, <2>3 DEF Histories, Between
<1>3. CASE Change
  <2>1. pc = "change" /\ pc' = "agent" /\ start'.branch = branch
    BY <1>3 DEF Change
  <2>2. Own(start'.branch)
    BY <2>1 DEF Histories, Between
  <2>3. Own(start.branch)'
    BY <1>0, <2>2 DEF Own
  <2> QED
    BY <2>1, <2>3 DEF Histories, Between
<1>4. CASE Agent
  <2>1. pc = "agent" /\ pc' = "takeback" /\ UNCHANGED start
    BY <1>4 DEF Agent
  <2>2. Own(start'.branch)
    BY <2>1 DEF Histories
  <2>3. Own(start.branch)'
    BY <1>0, <2>2 DEF Own
  <2> QED
    BY <2>1, <2>3 DEF Histories, Between
<1>5. CASE TakeBack
  <2>1. pc = "takeback" /\ branch' = start.branch /\ pc' \in {"blocked", "commits"}
    BY <1>5 DEF TakeBack
  <2>2. Own(branch')
    BY <2>1 DEF Histories
  <2>3. Own(branch)'
    BY <1>0, <2>2 DEF Own
  <2> QED
    BY <2>1, <2>3 DEF Histories, Between
<1>6. CASE MakeCommits
  <2>1. pc = "commits" /\ Own(branch)
    BY <1>6 DEF MakeCommits, Histories, Between
  <2>2. \/ UNCHANGED branch /\ pc' \in {"change", "exhausted"}
        \/ pc' = "check" /\ \E asked \in Answered :
             Check(asked, ChangedPaths, branch) /\ Commit(asked, Len(asked))
        \/ pc' = "broken"
    BY <1>6, CommitsCases DEF Refuse, Again
  <2>3. CASE UNCHANGED branch /\ pc' \in {"change", "exhausted"}
    <3>1. Own(branch)'
      BY <1>0, <2>1, <2>3 DEF Own
    <3> QED
      BY <2>3, <3>1 DEF Histories, Between
  <2>4. CASE pc' = "check" /\ \E asked \in Answered :
               Check(asked, ChangedPaths, branch) /\ Commit(asked, Len(asked))
    <3>1. Own(branch')
      BY <2>1, <2>4, OwnGrows
    <3>2. Own(branch)'
      BY <1>0, <3>1 DEF Own
    <3> QED
      BY <2>4, <3>2 DEF Histories, Between
  <2>5. CASE pc' = "broken"
    BY <2>5 DEF Histories, Between
  <2> QED
    BY <2>2, <2>3, <2>4, <2>5
<1>7. CASE Break \/ Fail
  BY <1>7 DEF Break, Fail, Histories, Between
<1>8. CASE Answer \/ Unverified \/ PublishGates
  <2>1. pc' \in {"answered", "refused", "cleared"}
    BY <1>8 DEF Answer, Unverified, PublishGates
  <2> QED
    BY <2>1 DEF Histories, Between
<1>9. CASE Fold
  <2>1. pc = "proposed" /\ lc.mode = "implement" /\ pc' \in {"inspect", "refused"}
    BY <1>9 DEF Fold
  <2>2. \A c \in ToSet(branch) : c.by # "agent"
    BY <2>1, OwnIsNoAgents DEF Histories, Between
  <2>3. branch \in Seq(Commits)
    BY DEF TypeOK, LifecycleTypeOK
  <2>4. pc' = "inspect" => \A c \in ToSet(branch') : c.by # "agent"
    BY <1>9, <2>2, <2>3, FoldedElements DEF Fold
  <2> QED
    BY <1>0, <2>1, <2>4 DEF Histories, Between
<1>10. CASE Keep
  <2>1. pc = "proposed" /\ pc' = "inspect" /\ UNCHANGED branch
    BY <1>10 DEF Keep
  <2>2. Own(branch)
    BY <2>1 DEF Histories, Between
  <2>3. Own(branch)'
    BY <1>0, <2>1, <2>2 DEF Own
  <2>4. \A c \in ToSet(branch') : c.by # "agent"
    BY <2>1, <2>2, OwnIsNoAgents
  <2> QED
    BY <2>1, <2>3, <2>4 DEF Histories, Between
<1>11. CASE Inspect
  <2>1. pc = "inspect" /\ pc' \in {"refused", "gates"} /\ UNCHANGED branch
    BY <1>11 DEF Inspect
  <2>2. /\ \A c \in ToSet(branch') : c.by # "agent"
        /\ lc.mode = "feedback" => Own(branch)
    BY <2>1 DEF Histories
  <2>3. lc'.mode = "feedback" => Own(branch)'
    BY <1>0, <2>1, <2>2 DEF Own
  <2> QED
    BY <2>1, <2>2, <2>3 DEF Histories, Between
<1> QED
  BY <1>2, <1>3, <1>4, <1>5, <1>6, <1>7, <1>8, <1>9, <1>10, <1>11 DEF Step, LifecycleStep

\* The histories hold of every run, with the types.
LEMMA OwnWork == Spec => [](TypeOK /\ Histories)
<1>1. ASSUME TypeOK, Histories, [Next]_allVars PROVE Histories'
  <2>1. CASE UNCHANGED allVars
    BY <1>1, <2>1 DEF Histories, Own, allVars, vars
  <2>2. CASE ~UNCHANGED allVars
    BY <1>1, <2>2, HistoriesStep DEF Next
  <2> QED
    BY <2>1, <2>2
<1> QED
  BY <1>1, InitType, InitHistories, TypeStep, PTL DEF Spec

\* What is judged is the commits from before the run and the engine's, and all the work there
\* is.
THEOREM CommittedWorkIsJudged == Spec => []JudgesCommittedWork
<1>1. ASSUME PubInv, TypeOK, Histories, pc \in {"check", "verdict"} \cup Deciding
      PROVE  /\ \/ pc = "check"
                \/ LeavesFiles("verdict")
                \/ lc.mode = "implement" /\ pc \in {"inspect", "gates"}
                => ChangedPaths = {}
             /\ \A c \in ToSet(branch) : c.by # "agent"
             /\ lc.mode = "feedback" => IsPrefix(lc.before, branch)
  <2>1. ASSUME \/ pc = "check"
               \/ LeavesFiles("verdict")
               \/ lc.mode = "implement" /\ pc \in {"inspect", "gates"}
        PROVE  ChangedPaths = {}
    <3>1. tree = committed
      BY <1>1, <2>1 DEF PubInv, Judgements, Deciding, Judged
    <3> QED
      BY <3>1 DEF ChangedPaths
  <2>2. \A c \in ToSet(branch) : c.by # "agent"
    <3>1. CASE pc \in Between
      BY <1>1, <3>1, OwnIsNoAgents DEF Histories
    <3>2. CASE pc \notin Between
      BY <1>1, <3>2 DEF Histories, Deciding, Between
    <3> QED
      BY <3>1, <3>2
  <2>3. ASSUME lc.mode = "feedback" PROVE IsPrefix(lc.before, branch)
    <3>1. Own(branch)
      BY <1>1, <2>3 DEF Histories, Deciding, Between
    <3>2. lc.before \in Seq(Commits) /\ branch \in Seq(Commits)
      BY <1>1 DEF TypeOK, LifecycleTypeOK
    <3> DEFINE a == lc.before
    <3>3. /\ Len(a) \in Nat /\ DOMAIN a = 1..Len(a)
          /\ Len(branch) \in Nat /\ DOMAIN branch = 1..Len(branch)
      BY <3>2, LenProperties
    <3>4. \A i \in 1..Len(a) : i \in 1..Len(branch) /\ branch[i] = a[i]
      BY <3>1, <3>3 DEF Own
    <3> HIDE DEF a
    <3>5. Len(a) <= Len(branch)
      BY <3>3, <3>4
    <3>6. SubSeq(a, 1, Len(a)) = SubSeq(branch, 1, Len(a))
      BY <3>2, <3>3, <3>4, <3>5 DEF a
    <3> QED
      BY <3>5, <3>6 DEF IsPrefix, a
  <2> QED
    BY <2>1, <2>2, <2>3
<1>2. PubInv /\ TypeOK /\ Histories => JudgesCommittedWork
  BY <1>1 DEF JudgesCommittedWork
<1> QED
  BY <1>2, OwnWork, Invariance, PTL

\* Every fix that the engine made, git folds into the commit that it was made for.
THEOREM FixesFindTheirTargets == Spec => []FixesFoldWhereMeant
<1>1. ASSUME TypeOK, Histories, pc \in {"check", "proposed"}, ToldApart(lc.before),
             NEW i \in DOMAIN branch, branch[i].fix, branch[i].by = "engine"
      PROVE  Candidates(branch, i) # {} /\ branch[Target(branch, i)].id = branch[i].of
  <2>1. ToldApart(branch) /\ Aimed(branch)
    BY <1>1 DEF Histories, Own, Between
  <2>2. Len(branch) \in Nat /\ DOMAIN branch = 1..Len(branch)
    BY <1>1, LenProperties DEF TypeOK, LifecycleTypeOK
  <2>3. PICK j \in 1..(i - 1) :
          ~branch[j].fix /\ branch[j].subject = branch[i].subject /\ branch[j].id = branch[i].of
    BY <1>1, <2>1 DEF Aimed
  <2>4. ASSUME NEW k \in Candidates(branch, i) PROVE k = j
    <3>1. k \in DOMAIN branch /\ j \in DOMAIN branch
      BY <1>1, <2>2, <2>3 DEF Candidates
    <3>2. ~branch[k].fix /\ branch[k].subject = branch[i].subject
      BY DEF Candidates
    <3> QED
      BY <2>1, <2>3, <3>1, <3>2 DEF ToldApart
  <2>5. Candidates(branch, i) = {j} /\ j \in Nat
    BY <2>3, <2>4 DEF Candidates
  <2>6. Target(branch, i) = j
    BY <2>5 DEF Target
  <2> QED
    BY <2>3, <2>5, <2>6
<1>2. TypeOK /\ Histories => FixesFoldWhereMeant
  BY <1>1 DEF FixesFoldWhereMeant
<1> QED
  BY <1>2, OwnWork, PTL

-----------------------------------------------------------------------------
(***************************************************************************)
(* Publisher implements Attempt.                                           *)
(***************************************************************************)
\* A branch with an agent's commit on top, or in the place of the last.
Strayed(b, c) ==
  \E n \in {Len(b), Len(b) + 1} :
    /\ DOMAIN c = 1..n /\ n > 0
    /\ c[n].by = "agent"
    /\ \A i \in 1..(n - 1) : c[i] = b[i]

\* Where HEAD is while an agent is at work, and that there is something to publish before
\* the gates decide on it.
Heads ==
  /\ pc = "agent" => branch = start.branch
  /\ pc = "takeback" => branch = start.branch \/ Strayed(start.branch, branch)
  /\ pc = "gates" => branch # <<>>

\* What an agent commits is one commit.
LEMMA AgentStrays ==
  ASSUME TypeOK, Agent
  PROVE  UNCHANGED branch \/ Strayed(branch, branch')
<1>1. branch \in Seq(Commits)
  BY DEF TypeOK, LifecycleTypeOK
<1>2. Len(branch) \in Nat /\ DOMAIN branch = 1..Len(branch)
  BY <1>1, LenProperties
<1>3. RogueCommit.by = "agent"
  BY DEF RogueCommit
<1>4. ASSUME NEW f \in Seq(Commits), Len(f) \in {Len(branch), Len(branch) - 1},
             \A i \in 1..Len(f) : f[i] = branch[i], branch' = Append(f, RogueCommit)
      PROVE  Strayed(branch, branch')
  <2> DEFINE r == RogueCommit
             n == Len(f) + 1
  <2> HIDE DEF r
  <2>1. Len(f) \in Nat
    BY LenProperties
  <2>2. DOMAIN branch' = 1..(Len(f) + 1) /\ branch'[Len(f) + 1] = r
        /\ \A i \in 1..Len(f) : branch'[i] = f[i]
    BY <1>4, <2>1 DEF r
  <2>3. n \in {Len(branch), Len(branch) + 1} /\ n > 0 /\ n - 1 = Len(f)
    <3>1. Len(f) = Len(branch) \/ Len(f) = Len(branch) - 1
      BY <1>4
    <3>2. Len(branch) \in Nat
      BY <1>2
    <3>3. n = Len(branch) \/ n = Len(branch) + 1
      BY <2>1, <3>1, <3>2
    <3>4. n > 0 /\ n - 1 = Len(f)
      BY <2>1
    <3> QED
      BY <3>3, <3>4
  <2>4. DOMAIN branch' = 1..n /\ branch'[n].by = "agent"
        /\ \A i \in 1..(n - 1) : branch'[i] = branch[i]
    BY <1>3, <1>4, <2>2, <2>3 DEF r
  <2> QED
    BY <2>3, <2>4 DEF Strayed
<1>5. CASE branch' = Append(branch, RogueCommit)
  BY <1>1, <1>2, <1>4, <1>5
<1>6. CASE branch # <<>> /\ branch' = Append(Front(branch), RogueCommit)
  <2>1. Len(branch) > 0
    BY <1>1, <1>2, <1>6
  <2>2. Front(branch) = [i \in 1..(Len(branch) - 1) |-> branch[i]]
    BY <1>1, <1>2, <2>1 DEF Front
  <2>3. Front(branch) \in Seq(Commits) /\ Len(Front(branch)) = Len(branch) - 1
    BY <1>1, <1>2, <2>1 DEF Front
  <2>4. \A i \in 1..Len(Front(branch)) : Front(branch)[i] = branch[i]
    BY <2>2, <2>3
  <2> QED
    BY <1>4, <1>6, <2>3, <2>4
<1> QED
  BY <1>5, <1>6 DEF Agent

\* Every step keeps HEAD there.
LEMMA HeadsStep == TypeOK /\ Heads /\ Step => Heads'
<1> SUFFICES ASSUME TypeOK, Heads, Step PROVE Heads'
  OBVIOUS
<1>1. CASE Agent
  BY <1>1, AgentStrays DEF Agent, Heads
<1>2. CASE Change
  <2>1. pc' = "agent" /\ UNCHANGED branch /\ start' = [branch |-> branch, committed |-> committed]
    BY <1>2 DEF Change
  <2> QED
    BY <2>1 DEF Heads
<1>3. CASE Inspect
  BY <1>3 DEF Inspect, Heads
<1>4. CASE PlanGates \/ Plan \/ TakeBack \/ VerdictGates \/ Verdict \/ Break
  <2>1. pc' \notin {"agent", "takeback", "gates"}
    BY <1>4 DEF PlanGates, Plan, TakeBack, VerdictGates, Verdict, Break, Again
  <2> QED
    BY <2>1 DEF Heads
<1>5. CASE MakeCommits
  <2>1. pc' \notin {"agent", "takeback", "gates"}
    BY <1>5 DEF MakeCommits, Refuse, Again
  <2> QED
    BY <2>1 DEF Heads
<1>6. CASE Answer \/ Unverified \/ Fold \/ Keep \/ PublishGates \/ Fail
  <2>1. pc' \notin {"agent", "takeback", "gates"}
    BY <1>6 DEF Answer, Unverified, Fold, Keep, PublishGates, Fail
  <2> QED
    BY <2>1 DEF Heads
<1> QED
  BY <1>1, <1>2, <1>3, <1>4, <1>5, <1>6 DEF Step, LifecycleStep

\* In every run HEAD is there.
LEMMA HeadsHold == Spec => []Heads
<1>1. PInit => Heads
  <2>1. PInit => pc \in {"plangate", "change"}
    BY DEF PInit, Init
  <2> QED
    BY <2>1 DEF Heads
<1>2. TypeOK /\ Heads /\ [Next]_allVars => Heads'
  <2>1. ASSUME Heads, UNCHANGED allVars PROVE Heads'
    BY <2>1 DEF Heads, Strayed, allVars, vars
  <2> QED
    BY <2>1, HeadsStep DEF Next
<1> QED
  BY <1>1, <1>2, TypeCorrect, PTL DEF Spec

\* A run begins as an attempt does.
LEMMA FirstInAttempt == PInit => Attempted!Init
<1> SUFFICES ASSUME PInit PROVE Attempted!Init
  OBVIOUS
<1>1. PICK g \in Gatings :
        \/ lc = [mode |-> "implement", gates |-> g, before |-> <<>>] /\ pc = "plangate"
        \/ \E b \in Proposals :
             lc = [mode |-> "feedback", gates |-> g, before |-> b] /\ pc = "change"
  BY DEF PInit, Init
<1>2. \/ lc.mode # "feedback" /\ lc.before = <<>>
      \/ lc.mode = "feedback" /\ lc.before \in Proposals
  BY <1>1
<1>3. Stage = "working" /\ Work = lc.before /\ result.commits = {}
  BY <1>1 DEF PInit, Init, Stage, Work, Working
<1> QED
  BY <1>2, <1>3 DEF Attempted!Init

\* A step that leaves the commits alone either gets the attempt no further or ends the work.
LEMMA StopsInAttempt ==
  ASSUME pc \in Working \ {"agent", "takeback"},
         pc' \in (Working \ {"agent", "takeback"}) \cup {"proposed", "blocked", "exhausted"},
         UNCHANGED <<lc, branch>>, result'.commits = result.commits
  PROVE  Attempted!Next \/ UNCHANGED Attempted!vars
<1>1. Stage = "working" /\ UNCHANGED Work
  BY DEF Stage, Work, Working
<1>2. Stage' \in {"working", "proposed", "blocked", "exhausted"}
  BY DEF Stage, Working
<1>3. CASE Stage' = "working"
  BY <1>1, <1>3 DEF Attempted!vars
<1>4. CASE Stage' # "working"
  BY <1>1, <1>2, <1>4 DEF Attempted!Next, Attempted!Stop
<1> QED
  BY <1>3, <1>4

\* What an agent does is not there to be seen, and then it is taken back.
LEMMA AgentInAttempt ==
  ASSUME TypeOK, Heads, Change \/ Agent \/ TakeBack
  PROVE  Attempted!Next \/ UNCHANGED Attempted!vars
<1>1. UNCHANGED lc /\ result'.commits = result.commits
  BY DEF Change, Agent, TakeBack, TypeOK, LifecycleTypeOK
<1>2. CASE Change
  <2>1. pc = "change" /\ pc' = "agent" /\ start' = [branch |-> branch, committed |-> committed]
    BY <1>2 DEF Change
  <2>2. UNCHANGED Work /\ UNCHANGED Stage
    BY <2>1 DEF Work, Stage, Working
  <2> QED
    BY <1>1, <2>2 DEF Attempted!vars
<1>3. CASE Agent
  <2>1. pc = "agent" /\ pc' = "takeback" /\ UNCHANGED start
    BY <1>3 DEF Agent
  <2>2. UNCHANGED Work /\ UNCHANGED Stage
    BY <2>1 DEF Work, Stage, Working
  <2> QED
    BY <1>1, <2>2 DEF Attempted!vars
<1>4. CASE TakeBack
  <2>1. pc = "takeback" /\ pc' \in {"blocked", "commits"} /\ branch' = start.branch
    BY <1>4 DEF TakeBack
  <2>2. UNCHANGED Work /\ Stage = "working" /\ Stage' \in {"blocked", "working"}
    BY <2>1 DEF Work, Stage, Working
  <2>3. CASE Stage' = "working"
    BY <1>1, <2>2, <2>3 DEF Attempted!vars
  <2>4. CASE Stage' = "blocked"
    BY <1>1, <2>2, <2>4 DEF Attempted!Next, Attempted!Stop
  <2> QED
    BY <2>2, <2>3, <2>4
<1> QED
  BY <1>2, <1>3, <1>4

\* Commits that are made are the engine's, on top of those there were.
LEMMA CommitGrows ==
  ASSUME TypeOK, pc = "commits", NEW asked \in Answered, NEW n \in 0..Len(asked),
         Check(asked, ChangedPaths, branch), Commit(asked, n), pc' \notin {"agent", "takeback"}
  PROVE  /\ DOMAIN Work \subseteq DOMAIN Work'
         /\ Attempted!Grow
<1>1. branch \in Seq(Commits) /\ tree \in Trees /\ committed \in Trees
  BY DEF TypeOK, LifecycleTypeOK
<1>2. /\ branch' \in Seq(Commits)
      /\ Len(branch) \in Nat /\ Len(branch') = Len(branch) + n
      /\ \A i \in 1..Len(branch) : branch'[i] = branch[i]
      /\ \A k \in 1..n : branch'[Len(branch) + k] = Made(asked, k)
  BY <1>1, CommitParts
<1>3. Len(asked) \in Nat /\ DOMAIN asked = 1..Len(asked)
  BY AskedParts
<1>4. \A k \in 1..n : Made(asked, k).by = "engine"
  BY <1>1, <1>3, MadeParts
<1>5. DOMAIN branch = 1..Len(branch) /\ DOMAIN branch' = 1..(Len(branch) + n)
  BY <1>1, <1>2, LenProperties
<1>6. ASSUME NEW i \in DOMAIN branch'
      PROVE  IF i \in DOMAIN branch THEN branch'[i] = branch[i] ELSE branch'[i].by = "engine"
  <2>1. CASE i \in DOMAIN branch
    BY <1>2, <1>5, <2>1
  <2>2. CASE i \notin DOMAIN branch
    <3>1. i - Len(branch) \in 1..n /\ Len(branch) + (i - Len(branch)) = i
      BY <1>2, <1>3, <1>5, <1>6, <2>2
    <3> QED
      BY <1>2, <1>4, <2>2, <3>1
  <2> QED
    BY <2>1, <2>2
<1>7. Work = branch /\ Work' = branch'
  BY DEF Work
<1>8. DOMAIN branch \subseteq DOMAIN branch'
  BY <1>2, <1>3, <1>5
<1> QED
  BY <1>6, <1>7, <1>8 DEF Attempted!Grow

\* The commits of an answer are made and reported, or it breaks at one, or none is.
LEMMA CommitsInAttempt ==
  ASSUME TypeOK, PubInv, MakeCommits, PubInv'
  PROVE  Attempted!Next \/ UNCHANGED Attempted!vars
<1>1. pc = "commits" /\ UNCHANGED lc /\ Stage = "working"
  BY DEF MakeCommits, Stage, Working
<1>2. CASE Refuse /\ UNCHANGED <<branch, committed, result>>
  <2>1. pc' \in {"change", "exhausted"}
    BY <1>2 DEF Refuse, Again
  <2> QED
    BY <1>1, <1>2, <2>1, StopsInAttempt DEF Working
<1>3. ASSUME NEW asked \in Answered, Check(asked, ChangedPaths, branch),
             Commit(asked, Len(asked)), Record, pc' = "check"
      PROVE  Attempted!Commit
  <2>1. Len(asked) \in 0..Len(asked)
    BY AskedParts
  <2>2. DOMAIN Work \subseteq DOMAIN Work' /\ Attempted!Grow
    BY <1>1, <1>3, <2>1, CommitGrows
  <2>3. Reported(branch)'
    BY <1>3 DEF PubInv, Commitments, Between
  <2>4. Work' = branch' /\ Stage' = "working"
    BY <1>3 DEF Work, Stage, Working
  <2>5. result'.commits = Attempted!Ids(Work') \ Attempted!Ids(lc'.before)
    BY <2>3, <2>4 DEF Reported, Ids, ToSet, Attempted!Ids
  <2> QED
    BY <1>1, <2>2, <2>4, <2>5 DEF Attempted!Commit
<1>4. ASSUME NEW asked \in Answered, NEW n \in 1..Len(asked),
             Check(asked, ChangedPaths, branch), Commit(asked, n), pc' = "broken", UNCHANGED result
      PROVE  Attempted!Commit
  <2>1. n \in 0..Len(asked)
    BY AskedParts
  <2>2. DOMAIN Work \subseteq DOMAIN Work' /\ Attempted!Grow
    BY <1>1, <1>4, <2>1, CommitGrows
  <2>3. Stage' = "broken"
    BY <1>4 DEF Stage, Working
  <2> QED
    BY <1>1, <1>4, <2>2, <2>3 DEF Attempted!Commit
<1> QED
  BY <1>2, <1>3, <1>4, CommitsCases DEF Attempted!Next

\* A run that breaks leaves the commits there were, or what its agent made of them.
LEMMA BreakInAttempt ==
  ASSUME TypeOK, Heads, Break \/ Fail
  PROVE  Attempted!Next
<1>1. UNCHANGED <<lc, branch, start, result>> /\ pc' = "broken"
  BY DEF Break, Fail, loopVars
<1>2. Stage' = "broken" /\ Work' = branch
  BY <1>1 DEF Stage, Work, Working
<1>3. Stage \in {"working", "proposed", "deciding"}
  BY DEF Break, Fail, Stage, Deciding, Working
<1>4. \/ UNCHANGED Work
      \/ Stage = "working" /\ Strayed(start.branch, branch) /\ Work = start.branch
  BY <1>1, <1>2 DEF Heads, Work, Stage, Working
<1>5. CASE UNCHANGED Work
  BY <1>1, <1>2, <1>3, <1>5 DEF Attempted!Next, Attempted!Break
<1>6. CASE Stage = "working" /\ Strayed(start.branch, branch) /\ Work = start.branch
  <2>1. Attempted!Stray
    BY <1>2, <1>6 DEF Strayed, Attempted!Stray
  <2> QED
    BY <1>1, <1>2, <1>3, <1>6, <2>1 DEF Attempted!Next, Attempted!Break
<1> QED
  BY <1>4, <1>5, <1>6

\* Folding drops fixes, and neither loses nor reorders anything else.
LEMMA FoldSquashes ==
  ASSUME TypeOK, pc = "proposed", branch' = Folded(branch), pc' \in {"inspect", "refused"}
  PROVE  /\ Attempted!Squash
         /\ Foldable(branch) => \A n \in DOMAIN Work' : ~Work'[n].fix
<1>1. branch \in Seq(Commits)
  BY DEF TypeOK, LifecycleTypeOK
<1>2. Work = branch /\ Work' = Folded(branch)
  BY DEF Work
<1>3. /\ \A c \in ToSet(Folded(branch)) : c \in ToSet(branch) /\ (Foldable(branch) => ~c.fix)
      /\ \A i \in DOMAIN branch : ~branch[i].fix => branch[i] \in ToSet(Folded(branch))
      /\ \A n, o \in DOMAIN Folded(branch) : n < o =>
           \E i, j \in DOMAIN branch :
             i < j /\ branch[i] = Folded(branch)[n] /\ branch[j] = Folded(branch)[o]
  BY <1>1, FoldedElements
<1> DEFINE f == Folded(branch)
<1> HIDE DEF f
<1>4. \A n \in DOMAIN f : f[n] \in ToSet(f)
  BY DEF ToSet
<1>5. \A n \in DOMAIN f : \E i \in DOMAIN branch : branch[i] = f[n]
  <2>1. \A c \in ToSet(f) : c \in ToSet(branch)
    BY <1>3 DEF f
  <2>2. \A c \in ToSet(branch) : \E i \in DOMAIN branch : branch[i] = c
    BY DEF ToSet
  <2> QED
    BY <1>4, <2>1, <2>2
<1>6. \A i \in DOMAIN branch : branch[i].fix \/ \E n \in DOMAIN f : f[n] = branch[i]
  <2>1. \A i \in DOMAIN branch : ~branch[i].fix => branch[i] \in ToSet(f)
    BY <1>3 DEF f
  <2>2. \A c \in ToSet(f) : \E n \in DOMAIN f : f[n] = c
    BY DEF ToSet
  <2> QED
    BY <2>1, <2>2
<1>7. Foldable(branch) => \A n \in DOMAIN f : ~f[n].fix
  BY <1>3, <1>4 DEF f
<1>8. Attempted!Squash
  BY <1>2, <1>3, <1>5, <1>6 DEF f, Attempted!Squash
<1> QED
  BY <1>2, <1>7, <1>8 DEF f

\* What a run decides on its work, an attempt may.
LEMMA DecisionInAttempt ==
  ASSUME TypeOK, Heads, Answer \/ Unverified \/ Fold \/ Keep \/ Inspect \/ PublishGates
  PROVE  Attempted!Next \/ UNCHANGED Attempted!vars
<1>1. UNCHANGED <<lc, result>>
  BY DEF Answer, Unverified, Fold, Keep, Inspect, PublishGates, loopVars
<1>2. lc.mode \in {"implement", "feedback"}
  BY DEF TypeOK, LifecycleTypeOK
<1>3. CASE Answer \/ Keep
  <2>1. /\ pc = "proposed" /\ lc.mode = "feedback" /\ UNCHANGED branch
        /\ \/ result.commits = {} /\ pc' = "answered"
           \/ result.commits # {} /\ pc' = "inspect"
    BY <1>3 DEF Answer, Keep
  <2>2. Stage = "proposed" /\ UNCHANGED Work
    BY <2>1 DEF Stage, Work, Working
  <2>3. pc' = "answered" => Stage' = "answered"
    BY DEF Stage, Working
  <2>4. pc' = "inspect" => Stage' = "deciding"
    BY DEF Stage, Working
  <2> QED
    BY <1>1, <2>1, <2>2, <2>3, <2>4 DEF Attempted!Next, Attempted!Answer, Attempted!Keep
<1>4. CASE Fold
  <2>1. /\ pc = "proposed" /\ lc.mode = "implement"
        /\ \/ Foldable(branch) /\ branch' = Folded(branch) /\ pc' = "inspect"
           \/ (UNCHANGED branch \/ branch' = Folded(branch)) /\ pc' = "refused"
    BY <1>4 DEF Fold
  <2>2. Stage = "proposed" /\ lc.mode # "feedback"
    BY <2>1 DEF Stage, Working
  <2>3. CASE Foldable(branch) /\ branch' = Folded(branch) /\ pc' = "inspect"
    <3>1. Stage' = "deciding"
      BY <2>3 DEF Stage, Working
    <3>2. Attempted!Squash /\ \A n \in DOMAIN Work' : ~Work'[n].fix
      BY <2>1, <2>3, FoldSquashes
    <3> QED
      BY <1>1, <2>2, <3>1, <3>2 DEF Attempted!Next, Attempted!Fold
  <2>4. CASE (UNCHANGED branch \/ branch' = Folded(branch)) /\ pc' = "refused"
    <3>1. Stage' = "refused"
      BY <2>4 DEF Stage, Working
    <3>2. Attempted!Squash \/ UNCHANGED Work
      <4>1. CASE UNCHANGED branch
        BY <2>1, <2>4, <4>1 DEF Work
      <4>2. CASE branch' = Folded(branch)
        BY <2>1, <2>4, <4>2, FoldSquashes
      <4> QED
        BY <2>4, <4>1, <4>2
    <3> QED
      BY <1>1, <2>2, <3>1, <3>2 DEF Attempted!Next, Attempted!Fold
  <2> QED
    BY <2>1, <2>3, <2>4
<1>5. CASE Inspect
  <2>1. pc = "inspect" /\ pc' \in {"refused", "gates"} /\ UNCHANGED branch
    BY <1>5 DEF Inspect
  <2>2. Stage = "deciding" /\ UNCHANGED Work /\ Stage' \in {"refused", "deciding"}
    BY <2>1 DEF Stage, Work, Working
  <2> QED
    BY <1>1, <2>2 DEF Attempted!Next, Attempted!Decide, Attempted!vars
<1>6. CASE PublishGates
  <2>1. pc = "gates" /\ pc' \in {"refused", "cleared"} /\ UNCHANGED branch
    BY <1>6 DEF PublishGates
  <2>2. /\ Stage = "deciding" /\ UNCHANGED Work /\ Stage' \in {"refused", "cleared"}
        /\ Work # <<>>
    BY <2>1 DEF Stage, Work, Working, Heads
  <2> QED
    BY <1>1, <2>2 DEF Attempted!Next, Attempted!Decide
<1>7. CASE Unverified
  <2>1. /\ pc = "proposed" /\ pc' = "refused" /\ UNCHANGED branch
        /\ lc.mode = "implement" \/ result.commits # {}
    BY <1>7 DEF Unverified
  <2>2. Stage = "proposed" /\ Stage' = "refused" /\ UNCHANGED Work
    BY <2>1 DEF Stage, Work, Working
  <2> QED
    BY <1>1, <1>2, <2>1, <2>2 DEF Attempted!Next, Attempted!Fold, Attempted!Keep
<1> QED
  BY <1>3, <1>4, <1>5, <1>6, <1>7

\* Every step of a run is one of an attempt, or one that an attempt does not see.
LEMMA NextInAttempt ==
  ASSUME TypeOK, PubInv, Heads, [Next]_allVars, PubInv'
  PROVE  [Attempted!Next]_(Attempted!vars)
<1>1. CASE UNCHANGED allVars
  BY <1>1 DEF allVars, vars, Attempted!vars, Stage, Work
<1>2. CASE PlanGates \/ Plan \/ VerdictGates \/ Verdict
  <2>1. UNCHANGED <<lc, branch>> /\ result'.commits = result.commits
    BY <1>2 DEF PlanGates, Plan, VerdictGates, Verdict, PubInv, Shapes, loopVars
  <2>2. /\ pc \in Working \ {"agent", "takeback"}
        /\ pc' \in (Working \ {"agent", "takeback"}) \cup {"proposed", "blocked", "exhausted"}
    BY <1>2 DEF PlanGates, Plan, VerdictGates, Verdict, Again, Working
  <2> QED
    BY <2>1, <2>2, StopsInAttempt
<1>3. CASE Change \/ Agent \/ TakeBack
  BY <1>3, AgentInAttempt
<1>4. CASE MakeCommits
  BY <1>4, CommitsInAttempt
<1>5. CASE Break \/ Fail
  BY <1>5, BreakInAttempt
<1>6. CASE Answer \/ Unverified \/ Fold \/ Keep \/ Inspect \/ PublishGates
  BY <1>6, DecisionInAttempt
<1> QED
  BY <1>1, <1>2, <1>3, <1>4, <1>5, <1>6 DEF Next, Step, LifecycleStep

\* Publisher implements Attempt: of every run of a lifecycle and the decision on its work,
\* whatever its agents commit on their own and wherever it breaks, what is left on the branch
\* and what is reported of it is what an attempt may leave.
THEOREM AttemptKept == Spec => KeepsToTheAttempt
<1>1. TypeOK /\ PubInv /\ Heads /\ [Next]_allVars /\ PubInv' => [Attempted!Next]_(Attempted!vars)
  BY NextInAttempt
<1> QED
  BY <1>1, FirstInAttempt, TypeCorrect, Invariance, HeadsHold, PTL
  DEF Spec, KeepsToTheAttempt, Attempted!Spec
=============================================================================
