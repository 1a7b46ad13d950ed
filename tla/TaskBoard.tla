----------------------------- MODULE TaskBoard ------------------------------
(***************************************************************************)
(* What the people of a repository can count on from the runs working on   *)
(* its tasks, whatever fails: the visits runs pay to tasks, the labels and *)
(* the pull requests they see.  A visit starts with a claim.  It ends      *)
(* answered, when the task heard why nothing came of it or a pull request  *)
(* is open, or with the claim given back, and never both; or the run       *)
(* vanishes.  Engine implements this.                                      *)
(***************************************************************************)
CONSTANTS Runs, Tasks, NoTask

VARIABLES
  on,       \* the task each run is visiting
  answered, \* the runs whose visit has been answered
  labels,   \* each task's labels
  pr        \* each task's pull request: "none", "open" or "closed"

vars == <<on, answered, labels, pr>>

Init ==
  /\ on = [r \in Runs |-> NoTask]
  /\ answered = {}
  /\ labels = [t \in Tasks |-> {"trigger"}]
  /\ pr = [t \in Tasks |-> "none"]

Visiting(r) == on[r] # NoTask

Label(t, added, removed) == labels' = [labels EXCEPT ![t] = (@ \ removed) \cup added]

\* The visit goes on as it was, or answered, or it is over.
Stay(r) == UNCHANGED <<on, answered>>
Answer(r) == answered' = answered \cup {r} /\ UNCHANGED on
End(r) == answered' = answered \ {r} /\ on' = [on EXCEPT ![r] = NoTask]

\* A claim begins a visit.  One whose answer was lost leaves only the label.
Take(r, t) ==
  /\ ~Visiting(r)
  /\ Label(t, {"in-progress"}, {})
  /\ on' \in {on, [on EXCEPT ![r] = t]}
  /\ UNCHANGED <<answered, pr>>

\* A pull request for the task is opened by a run visiting it.
Propose(r) ==
  /\ Visiting(r) /\ r \notin answered
  /\ pr' = [pr EXCEPT ![on[r]] = "open"]
  /\ Stay(r) \/ Answer(r)
  /\ UNCHANGED labels

\* The task is told why, or its open pull request is found.
Tell(r) ==
  /\ Visiting(r) /\ r \notin answered
  /\ Answer(r)
  /\ UNCHANGED <<labels, pr>>

\* Done is only for a visit that was answered, with a pull request.
Finish(r) ==
  /\ Visiting(r) /\ r \in answered
  /\ pr[on[r]] # "none"
  /\ Label(on[r], {"done"}, {"in-progress"})
  /\ Stay(r)
  /\ UNCHANGED pr

\* A task whose visit came to nothing is marked failed.
Report(r) ==
  /\ Visiting(r)
  /\ Label(on[r], {"failed"}, {"in-progress"})
  /\ Stay(r) \/ Answer(r) \/ End(r)
  /\ UNCHANGED pr

\* Only a visit nobody has answered gives the task back.
GiveBack(r) ==
  /\ Visiting(r) /\ r \notin answered
  /\ Label(on[r], {}, {"in-progress"})
  /\ End(r)
  /\ UNCHANGED pr

\* An answered run goes; one that is killed, or cannot reach the forge, vanishes.
Go(r) ==
  /\ Visiting(r)
  /\ End(r)
  /\ UNCHANGED <<labels, pr>>

\* People take labels off, and close pull requests.
Person(t) ==
  /\ \/ /\ \E l \in SUBSET {"in-progress", "done", "failed"} : Label(t, {}, l)
        /\ UNCHANGED pr
     \/ /\ pr[t] = "open"
        /\ pr' = [pr EXCEPT ![t] = "closed"]
        /\ UNCHANGED labels
  /\ UNCHANGED <<on, answered>>

Next ==
  \/ \E r \in Runs, t \in Tasks : Take(r, t)
  \/ \E r \in Runs :
       Propose(r) \/ Tell(r) \/ Finish(r) \/ Report(r) \/ GiveBack(r) \/ Go(r)
  \/ \E t \in Tasks : Person(t)

Spec == Init /\ [][Next]_vars
=============================================================================
