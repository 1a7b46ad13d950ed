------------------------------ MODULE Worktree ------------------------------
(***************************************************************************)
(* The worktree executor (internal/executor/worktree/worktree.go), for one *)
(* pull request's branch in one clone: the directory each key has, what    *)
(* git has registered of it, the local branch, the remote-tracking ref and *)
(* the backups of earlier attempts.  Each action is one git command, with   *)
(* the looks that decide on it.  The executor's lock covers one operating- *)
(* system process, so between the commands of one process another's run.   *)
(***************************************************************************)
EXTENDS Integers, SequencesExt

CONSTANTS
  Keys,      \* the workspace keys: each names one directory
  NoBranch   \* what there is of a branch that is not there

VARIABLES
  tree,    \* each key's directory: is it there, and what git has registered of it
  local,   \* the branch in the clone
  tracked, \* the clone's idea of the branch on the remote
  saved    \* the changes kept under refs/loomlc/attempts

treeVars == <<tree, local, tracked, saved>>
-----------------------------------------------------------------------------
\* A commit is the changes it holds, and whether it is a fix waiting to be folded.
Work(branch) == IF branch = NoBranch THEN {} ELSE UNION {c.work : c \in ToSet(branch)}

Directory == [known : BOOLEAN, locked : BOOLEAN, there : BOOLEAN]

Nothing == [known |-> FALSE, locked |-> FALSE, there |-> FALSE]

\* git works in a directory that is there and registered.
Workable(k) == tree[k].known /\ tree[k].there
-----------------------------------------------------------------------------
\* The branch's tracking ref is fetched by name, whatever the clone's refspec says.
FetchBranch(remote) ==
  /\ remote # NoBranch
  /\ tracked' = remote
  /\ UNCHANGED <<tree, local, saved>>

\* What is left of a workspace is removed: one that git does not know is deleted, and a
\* registration goes with its directory.  A locked directory is left alone; of a locked
\* one that is gone the registration is cleared.
Removable(k) == ~(tree[k].locked /\ tree[k].there)

RemoveTree(k) ==
  /\ Removable(k)
  /\ tree' = [tree EXCEPT ![k] = Nothing]
  /\ UNCHANGED <<local, tracked, saved>>

\* A removal that is cut short leaves the registration of a directory that is gone.
RemoveTreeCutShort(k) ==
  /\ Removable(k) /\ tree[k].known
  /\ tree' = [tree EXCEPT ![k].there = FALSE]
  /\ UNCHANGED <<local, tracked, saved>>

\* Mutant: a branch that is only ahead is taken to be pushed.
BackUpDiverged ==
  /\ saved' = IF local = NoBranch \/ IsPrefix(local, tracked) \/ IsPrefix(tracked, local) THEN saved
              ELSE saved \cup Work(local)
  /\ UNCHANGED <<tree, local, tracked>>

\* Commits on the branch that are not on the remote are kept, under a name of their own.
BackUpAttempt ==
  /\ saved' = IF local = NoBranch \/ IsPrefix(local, tracked) THEN saved
              ELSE saved \cup Work(local)
  /\ UNCHANGED <<tree, local, tracked>>

\* git refuses a directory that is there or registered, and a branch that another
\* worktree has checked out.
Addable(k) == tree[k] = Nothing /\ \A other \in Keys : ~tree[other].known

AddTree(k) ==
  /\ Addable(k)
  /\ tree' = [tree EXCEPT ![k] = [known |-> TRUE, locked |-> FALSE, there |-> TRUE]]
  /\ local' = tracked
  /\ UNCHANGED <<tracked, saved>>

\* One that is cut short can have moved the branch, and can have registered the
\* directory, which git keeps locked until it is done.
AddTreeCutShort(k) ==
  /\ Addable(k)
  /\ local' = tracked
  /\ \E there \in BOOLEAN :
       tree' \in {tree, [tree EXCEPT ![k] = [known |-> TRUE, locked |-> TRUE, there |-> there]]}
  /\ UNCHANGED <<tracked, saved>>
=============================================================================
