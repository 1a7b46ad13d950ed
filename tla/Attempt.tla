------------------------------- MODULE Attempt -------------------------------
(***************************************************************************)
(* What an attempt may do to the branch it works on, and what it says of   *)
(* it, whatever its agents do and whatever fails: the engine's commits are *)
(* added at the end, and none is lost, reordered or rewritten while there  *)
(* is work to do; every one of them is reported; the decision on the work  *)
(* may fold it once, if nobody has read it yet; and only what was decided  *)
(* on is cleared.  Commits of an agent's own are there only if the attempt *)
(* broke.  Publisher implements this, and it is all of an attempt that the *)
(* engine and the reviser build on.                                        *)
(***************************************************************************)
EXTENDS Integers, Sequences

CONSTANT Proposals  \* the branches that an attempt at a review may find

VARIABLES
  revising, \* it answers a review
  before,   \* the commits that were there when it began
  stage,    \* "working", "proposed", "deciding", or how it ended
  work,     \* the commits there are
  reported  \* the ids of the commits that it says it made

vars == <<revising, before, stage, work, reported>>

Init ==
  /\ \/ ~revising /\ before = <<>>
     \/ revising /\ before \in Proposals
  /\ stage = "working"
  /\ work = before
  /\ reported = {}

Ids(commits) == {commits[i].id : i \in DOMAIN commits}

\* What was there is still there, and what is new is the engine's.
Grow ==
  \A i \in DOMAIN work' : IF i \in DOMAIN work THEN work'[i] = work[i] ELSE work'[i].by = "engine"

\* An agent's own commit, on top of the others or in the place of the last of them.
Stray ==
  \E n \in {Len(work), Len(work) + 1} :
    /\ DOMAIN work' = 1..n /\ n > 0
    /\ work'[n].by = "agent"
    /\ \A i \in 1..(n - 1) : work'[i] = work[i]

\* Folding drops fixes.  Every other commit stays, and in its place among the others.
Squash ==
  /\ \A n \in DOMAIN work' : \E i \in DOMAIN work : work[i] = work'[n]
  /\ \A i \in DOMAIN work : work[i].fix \/ \E n \in DOMAIN work' : work'[n] = work[i]
  /\ \A m, n \in DOMAIN work' :
       m < n => \E i, j \in DOMAIN work : i < j /\ work[i] = work'[m] /\ work[j] = work'[n]

Commit ==
  /\ stage = "working"
  /\ DOMAIN work \subseteq DOMAIN work' /\ Grow
  /\ \/ reported' = Ids(work') \ Ids(before) /\ UNCHANGED stage
     \/ stage' = "broken" /\ UNCHANGED reported
  /\ UNCHANGED <<revising, before>>

\* The work passed, or there is no use in going on.
Stop ==
  /\ stage = "working"
  /\ stage' \in {"proposed", "blocked", "exhausted"}
  /\ UNCHANGED <<revising, before, work, reported>>

Break ==
  /\ stage \in {"working", "proposed", "deciding"}
  /\ stage' = "broken"
  /\ UNCHANGED work \/ (stage = "working" /\ Stray)
  /\ UNCHANGED <<revising, before, reported>>

\* A review without anything to push is answered.
Answer ==
  /\ stage = "proposed" /\ revising /\ reported = {}
  /\ stage' = "answered"
  /\ UNCHANGED <<revising, before, work, reported>>

\* A reviewer has read what is revised: nothing of it is folded, and it may be refused as it is.
Keep ==
  /\ stage = "proposed" /\ revising /\ reported # {}
  /\ stage' \in {"deciding", "refused"}
  /\ UNCHANGED <<revising, before, work, reported>>

\* Nothing is decided on with fixes left to fold; work that is refused may be folded or not.
Fold ==
  /\ stage = "proposed" /\ ~revising
  /\ \/ /\ stage' = "deciding"
        /\ Squash /\ \A n \in DOMAIN work' : ~work'[n].fix
     \/ /\ stage' = "refused"
        /\ Squash \/ UNCHANGED work
  /\ UNCHANGED <<revising, before, reported>>

\* Nothing is cleared without commits.
Decide ==
  /\ stage = "deciding"
  /\ \/ stage' = "refused"
     \/ stage' = "cleared" /\ work # <<>>
  /\ UNCHANGED <<revising, before, work, reported>>

Next == Commit \/ Stop \/ Break \/ Answer \/ Keep \/ Fold \/ Decide

Spec == Init /\ [][Next]_vars
=============================================================================
