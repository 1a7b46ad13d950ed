---------------------------- MODULE Conversation ----------------------------
(***************************************************************************)
(* What the reviewers of a pull request can count on from the runs that    *)
(* answer them, whatever fails: the comments they post, the labels they    *)
(* ask with, and the comments a run hides from the runs after it by having *)
(* replied.  A run reads what is waiting, and then it replies, once, or it *)
(* breaks and says so, or it vanishes; the labels come off last.  A reply  *)
(* hides only what it, or one before it, has answered, or what is excused; *)
(* an apology excuses what it hides; and nothing else hides a comment or   *)
(* brings one back.  Review implements this.                               *)
(***************************************************************************)
EXTENDS Integers, FiniteSets

CONSTANTS
  Runs,             \* the runs that answer reviewers
  MaxFeedbackItems  \* how many comments answered are reason to hide an older one

VARIABLES
  asks,    \* the pull request's labels
  posted,  \* how many comments there are, numbered as they were posted
  hidden,  \* the comments that no later run is shown
  heard,   \* the comments that a run read and then replied to
  excused, \* the comments a reply may hide unread, or an apology hid
  at,      \* each run: "away", "working", "sorry", when it broke, or "leaving"
  notes    \* each run: the comments it has read

vars == <<asks, posted, hidden, heard, excused, at, notes>>

Init ==
  /\ asks = {"ready"}
  /\ posted = 1
  /\ hidden = {} /\ heard = {} /\ excused = {}
  /\ at = [r \in Runs |-> "away"]
  /\ notes = [r \in Runs |-> {}]

Waiting == 1..posted \ hidden

\* The run is in another stage; it keeps its notes while it has a use for them.
Turn(r, stage) == at' = [at EXCEPT ![r] = stage]
Note(r, read) == notes' = [notes EXCEPT ![r] = read]
Forget(r) == Note(r, {})

\* Nothing is asked and nothing is said.
Silent == UNCHANGED <<asks, posted, hidden, heard, excused>>

\* A run comes for what is waiting, or for some of it; or it breaks over that.
Read(r) ==
  /\ at[r] = "away"
  /\ \/ Turn(r, "working") /\ \E read \in SUBSET Waiting : Note(r, read)
     \/ Turn(r, "sorry") /\ Forget(r)
  /\ Silent

\* The pull request is marked as being revised, whether the run hears of it or not.
Claim(r) ==
  /\ at[r] = "working"
  /\ asks' = asks \cup {"in-progress"}
  /\ \/ UNCHANGED <<at, notes>>
     \/ Turn(r, "sorry") /\ Forget(r)
  /\ UNCHANGED <<posted, hidden, heard, excused>>

\* A run that breaks has no use for what it read.
Break(r) ==
  /\ at[r] = "working"
  /\ Turn(r, "sorry") /\ Forget(r)
  /\ Silent

\* A reply hides all that is waiting.  What no reply was for, and nothing excuses, made
\* way for as many newer comments as a run answers.
Reply(r) ==
  /\ at[r] = "working"
  /\ Turn(r, "leaving") \/ Turn(r, "sorry")
  /\ Forget(r)
  /\ heard' = heard \cup notes[r]
  /\ \A c \in Waiting \ (heard' \cup excused) :
       Cardinality({d \in heard' : d > c}) >= MaxFeedbackItems
  /\ hidden' = 1..posted
  /\ UNCHANGED <<asks, posted, excused>>

\* An apology hides it too, and excuses it, or is never heard.
Apologise(r) ==
  /\ at[r] = "sorry"
  /\ Turn(r, "leaving")
  /\ \/ hidden' = 1..posted /\ excused' = excused \cup Waiting
     \/ UNCHANGED <<hidden, excused>>
  /\ UNCHANGED <<asks, posted, heard, notes>>

\* The labels come off last, if they do.
Leave(r) ==
  /\ at[r] = "leaving"
  /\ Turn(r, "away")
  /\ asks' \in {asks, {}}
  /\ UNCHANGED <<posted, hidden, heard, excused, notes>>

Vanish(r) == at[r] # "away" /\ Turn(r, "away") /\ Forget(r) /\ Silent

\* A comment that is posted to a run at work is excused: its reply is not for it.
Post ==
  /\ posted' = posted + 1
  /\ excused' = IF \E r \in Runs : at[r] \in {"working", "sorry"}
                THEN excused \cup {posted + 1} ELSE excused
  /\ UNCHANGED <<asks, hidden, heard, at, notes>>

\* A reviewer asks, or takes the labels off when no run will.
Ask ==
  /\ \/ asks' = asks \cup {"ready"}
     \/ asks' = {} /\ \A r \in Runs : at[r] = "away"
  /\ UNCHANGED <<posted, hidden, heard, excused, at, notes>>

Next ==
  \/ Post \/ Ask
  \/ \E r \in Runs :
       \/ Read(r) \/ Claim(r) \/ Break(r) \/ Reply(r)
       \/ Apologise(r) \/ Leave(r) \/ Vanish(r)

Spec == Init /\ [][Next]_vars
=============================================================================
