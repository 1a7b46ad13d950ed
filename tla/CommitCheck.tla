----------------------------- MODULE CommitCheck -----------------------------
(***************************************************************************)
(* Which commits a change step may ask the engine for                      *)
(* (internal/commit/commit.go, Check), and how git later folds the fixes   *)
(* among them (internal/git/commit.go, Autosquash).                        *)
(*                                                                         *)
(* A commit on the branch is a record with its id (its SHA), its subject,  *)
(* and whether it is a fix waiting to be folded; a fix's subject is that   *)
(* of the commit it names, after git's own prefix.  A commit asked for has *)
(* its paths, its subject, and, when it is a fix, the ids on the branch    *)
(* that start with the SHA it gave: none, also for one that is too short,  *)
(* or several.                                                             *)
(***************************************************************************)
EXTENDS Integers, SequencesExt

CONSTANT Acceptable  \* the subjects the commit policy accepts

\* What is wrong, by the number of the commit it is about.
WithoutPaths(asked) == {n \in DOMAIN asked : asked[n].paths = {}}

Repeated(asked) ==
  {n \in DOMAIN asked : \E m \in 1..(n - 1) : asked[m].paths \cap asked[n].paths # {}}

Unchanged(asked, changed) == {n \in DOMAIN asked : ~(asked[n].paths \subseteq changed)}

Unfoldable(asked, branch) ==
  {n \in DOMAIN asked :
     /\ asked[n].fix
     /\ ~\E c \in ToSet(branch) : ~c.fix /\ asked[n].names = {c.id}}

Unacceptable(asked) == {n \in DOMAIN asked : ~asked[n].fix /\ asked[n].subject \notin Acceptable}

\* Mutant: a new commit may be called what one on the branch is called.
AmbiguousInTheAnswer(asked, branch) ==
  {n \in DOMAIN asked :
     /\ ~asked[n].fix
     /\ \E m \in 1..(n - 1) : ~asked[m].fix /\ asked[m].subject = asked[n].subject}

\* A fix finds its target by subject, so every new commit needs one of its own.
Ambiguous(asked, branch) ==
  {n \in DOMAIN asked :
     /\ ~asked[n].fix
     /\ \/ \E c \in ToSet(branch) : ~c.fix /\ c.subject = asked[n].subject
        \/ \E m \in 1..(n - 1) : ~asked[m].fix /\ asked[m].subject = asked[n].subject}

\* Changes that no commit asked for covers; with none asked for, all of them.
Uncovered(asked, changed) == changed \ UNION {asked[n].paths : n \in DOMAIN asked}

\* No problem with any commit, nor with the set of them.
Check(asked, changed, branch) ==
  /\ WithoutPaths(asked) = {}
  /\ Repeated(asked) = {}
  /\ Unchanged(asked, changed) = {}
  /\ Unfoldable(asked, branch) = {}
  /\ Unacceptable(asked) = {}
  /\ Ambiguous(asked, branch) = {}
  /\ Uncovered(asked, changed) = {}
-----------------------------------------------------------------------------
\* The commits before the i-th that git could fold it into, and the one it takes:
\* the first that is called what the fix names.
Candidates(branch, i) ==
  {j \in 1..(i - 1) : ~branch[j].fix /\ branch[j].subject = branch[i].subject}

Target(branch, i) == CHOOSE j \in Candidates(branch, i) : \A k \in Candidates(branch, i) : j <= k

\* Every fix on the branch goes somewhere.
Foldable(branch) == \A i \in DOMAIN branch : branch[i].fix => Candidates(branch, i) # {}

\* The i-th commit is there after a rebase that folds: git leaves alone a fix without a
\* target.
Stays(branch, i) == ~branch[i].fix \/ Candidates(branch, i) = {}

\* How many of the first i commits stay.
Kept(branch, i) == Cardinality({j \in 1..i : Stays(branch, j)})

Folded(branch) ==
  [n \in 1..Kept(branch, Len(branch)) |->
     branch[CHOOSE i \in DOMAIN branch : Stays(branch, i) /\ Kept(branch, i) = n]]
=============================================================================
