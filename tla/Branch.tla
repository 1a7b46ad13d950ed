-------------------------------- MODULE Branch --------------------------------
(***************************************************************************)
(* The names of branches: a lifecycle's branch template, the slug of a     *)
(* task's title, and what git refuses (internal/config/branch.go and       *)
(* validate.go).                                                           *)
(*                                                                         *)
(* A text is a sequence of words and marks.  Words and marks are atoms, no *)
(* two sequences of them are the same text, and each counts as one         *)
(* character where a length matters.                                       *)
(***************************************************************************)
EXTENDS Integers, SequencesExt

CONSTANTS
  Tasks,  \* the tasks of the source: records of an id and a title
  MaxSlug \* maxSlug, in words and marks

\* The characters of a title that a slug does not keep.
Marks == {" ", "-", ".", "/", "!"}

IsText(v) == Len(v) \in Nat /\ v = [i \in 1..Len(v) |-> v[i]]

\* Tasks are numbered: an id is of digits.
ASSUME BranchAssumption ==
  /\ MaxSlug \in Nat \ {0}
  /\ \A t \in Tasks :
       IsText(t.title) /\ IsText(t.id) /\ \A i \in DOMAIN t.id : t.id[i] \notin Marks

\* Every run of marks is a single hyphen, and none comes first.
extended(b, r) ==
  CASE r \notin Marks -> Append(b, r)
    [] r \in Marks /\ b # <<>> /\ Last(b) # "-" -> Append(b, "-")
    [] OTHER -> b

hyphenated(title) ==
  LET b[i \in 0..Len(title)] == IF i = 0 THEN <<>> ELSE extended(b[i - 1], title[i])
  IN b[Len(title)]

trimmed(s) == IF s # <<>> /\ Last(s) = "-" THEN Front(s) ELSE s

\* What is too long is cut at its last whole word.
cutAtWord(s) ==
  LET cut == SubSeq(s, 1, MaxSlug)
      hyphen == SelectLastInSeq(cut, LAMBDA r : r = "-")
  IN trimmed(IF hyphen > 1 THEN SubSeq(cut, 1, hyphen - 1) ELSE cut)

slug(title) ==
  LET whole == trimmed(hyphenated(title))
      s == IF Len(whole) > MaxSlug THEN cutAtWord(whole) ELSE whole
  IN IF s = <<>> THEN <<"task">> ELSE s
-----------------------------------------------------------------------------
\* A template that does not parse, or that names something else.
renderable(tmpl) == ToSet(tmpl) \cap {"{{", "{{.Title}}"} = {}

\* What comes of a part of a template.
rendered(part, id, s) ==
  CASE part = "{{.ID}}" -> id
    [] part = "{{.Slug}}" -> s
    [] OTHER -> <<part>>

renderBranch(tmpl, id, s) ==
  LET name[i \in 0..Len(tmpl)] ==
        IF i = 0 THEN <<>> ELSE name[i - 1] \o rendered(tmpl[i], id, s)
  IN name[Len(tmpl)]

Follows(name, a, b) == \E i \in 1..Len(name) - 1 : name[i] = a /\ name[i + 1] = b

\* A part that starts with a dot, or ends in .lock.
badRefComponent(name) ==
  \/ name[1] = "." \/ Follows(name, "/", ".")
  \/ \E i \in 2..Len(name) :
       /\ name[i - 1] = "." /\ name[i] = "lock"
       /\ i = Len(name) \/ name[i + 1] = "/"

branchProblem(name) ==
  \/ name = <<>>
  \/ ToSet(name) \cap {" ", "~", "^", ":", "?", "*", "[", "\\"} # {}
  \/ Follows(name, ".", ".") \/ Follows(name, "@", "{") \/ Follows(name, "/", "/")
  \/ name[1] \in {"/", "-"} \/ Last(name) \in {"/", "."}
  \/ badRefComponent(name)

BranchName(tmpl, t) == renderBranch(tmpl, t.id, slug(t.title))

\* Mutant: two tasks that differ in everything are compared.
validateBranchTemplateByBoth(tmpl, base) ==
  \/ tmpl = <<>> \/ ~renderable(tmpl)
  \/ LET first == renderBranch(tmpl, <<"1">>, <<"first", "-", "task">>)
         second == renderBranch(tmpl, <<"2">>, <<"second", "-", "task">>)
     IN first = second \/ branchProblem(first) \/ base \in {first, second}

\* There is something wrong with a template: two tasks of one title share a branch, or one
\* of two made-up tasks has no branch of its own.
validateBranchTemplate(tmpl, base) ==
  \/ tmpl = <<>> \/ ~renderable(tmpl)
  \/ LET first == renderBranch(tmpl, <<"1">>, <<"first", "-", "task">>)
         second == renderBranch(tmpl, <<"2">>, <<"second", "-", "task">>)
         sameSlug == renderBranch(tmpl, <<"2">>, <<"first", "-", "task">>)
     IN first = sameSlug \/ branchProblem(first) \/ base \in {first, second}

\* The id is set apart from the slug and from other digits.
Separated(tmpl) ==
  \A i \in 2..Len(tmpl) :
    "{{.ID}}" \in {tmpl[i - 1], tmpl[i]} => {tmpl[i - 1], tmpl[i]} \cap (Marks \ {" "}) # {}
=============================================================================
