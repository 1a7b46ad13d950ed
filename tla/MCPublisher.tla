----------------------------- MODULE MCPublisher -----------------------------
(* Publisher on small instances. *)
EXTENDS Publisher

Person(id, subject, fix, of) ==
  [id |-> id, by |-> "person", subject |-> subject, fix |-> fix, of |-> of]

\* A branch of one commit, one that was revised before, and one whose commits
\* cannot be told apart.
MCProposals ==
  { <<Person(1, "s1", FALSE, 0)>>,
    <<Person(1, "s1", FALSE, 0), Person(2, "s1", TRUE, 1)>>,
    <<Person(1, "s1", FALSE, 0), Person(2, "s1", FALSE, 0)>> }

\* No checks, those of a step that is shown the results of others, and of one that is not.
MCGatings == { {}, {"plan", "verdict", "publish"}, {"change", "publish"} }
=============================================================================
