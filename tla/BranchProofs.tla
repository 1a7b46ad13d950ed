----------------------------- MODULE BranchProofs -----------------------------
(***************************************************************************)
(* Proofs about Branch: which tasks a template tells apart.  For any       *)
(* template, and any tasks whose ids have no marks in them.                *)
(***************************************************************************)
EXTENDS Branch, Counting, SequenceTheorems

\* A part of a template comes out as text.
LEMMA RenderedTyped ==
  ASSUME NEW S, NEW part \in S, NEW id \in Seq(S), NEW s \in Seq(S)
  PROVE  rendered(part, id, s) \in Seq(S)
<1>1. <<part>> \in Seq(S)
  OBVIOUS
<1>2. rendered(part, id, s) \in {id, s, <<part>>}
  BY Zenon DEF rendered
<1> QED
  BY <1>1, <1>2

\* A name, as far as it has come after each part.
Makes(name, S, tmpl, id, s) ==
  /\ name \in [0..Len(tmpl) -> Seq(S)] /\ name[0] = <<>>
  /\ \A i \in 1..Len(tmpl) : name[i] = name[i - 1] \o rendered(tmpl[i], id, s)
  /\ renderBranch(tmpl, id, s) = name[Len(tmpl)]

\* A name is made part by part.
LEMMA MadeOfParts ==
  ASSUME NEW S, NEW tmpl \in Seq(S), NEW id \in Seq(S), NEW s \in Seq(S)
  PROVE  \E name : Makes(name, S, tmpl, id, s)
<1> DEFINE n == Len(tmpl)
           part(i) == rendered(tmpl[i], id, s)
           Body(f) == [i \in 0..n |-> IF i = 0 THEN <<>> ELSE f[i - 1] \o part(i)]
           G == [i \in 1..n |-> [x \in Seq(S) |-> x \o part(i)]]
           name == CHOOSE f : f = Body(f)
<1>1. n \in Nat /\ \A i \in 1..n : part(i) \in Seq(S)
  <2>1. \A i \in 1..n : tmpl[i] \in S
    OBVIOUS
  <2> QED
    BY <2>1, RenderedTyped
<1>2. renderBranch(tmpl, id, s) = name[n]
  BY Zenon DEF renderBranch
<1> HIDE DEF n, part
<1>3. \A i \in 1..n : \A x \in Seq(S) : x \o part(i) \in Seq(S)
  BY <1>1, ConcatProperties
<1>4. PICK f \in [0..n -> Seq(S)] : f[0] = <<>> /\ \A i \in 1..n : f[i] = G[i][f[i - 1]]
  <2> DEFINE X == Seq(S)
             a == <<>>
  <2>1. G \in Ways(n, X) /\ a \in X /\ n \in Nat
    BY <1>1, <1>3 DEF Ways
  <2> HIDE DEF G, X, a
  <2>2. \E f \in [0..n -> X] : GoesOn(f, n, a, G)
    BY <2>1, Recursion
  <2> QED
    BY <2>2 DEF X, a, GoesOn
<1>5. \A i \in 1..n : f[i] = f[i - 1] \o part(i)
  <2> SUFFICES ASSUME NEW i \in 1..n PROVE f[i] = f[i - 1] \o part(i)
    OBVIOUS
  <2>1. f[i - 1] \in Seq(S)
    BY <1>1, <1>4
  <2>2. G[i] = [x \in Seq(S) |-> x \o part(i)]
    OBVIOUS
  <2> QED
    BY <1>4, <2>1, <2>2
<1>6. f = Body(f)
  <2>1. ASSUME NEW i \in 0..n
        PROVE  f[i] = IF i = 0 THEN <<>> ELSE f[i - 1] \o part(i)
    <3>1. i = 0 \/ i \in 1..n
      BY <1>1
    <3>2. i \in 1..n => i # 0
      OBVIOUS
    <3> QED
      BY <1>4, <1>5, <3>1, <3>2, Zenon
  <2> QED
    BY <1>4, <2>1
<1>7. name = Body(name)
  BY <1>6, Zenon
<1> HIDE DEF name, G
<1>8. /\ DOMAIN name = 0..n /\ name = [i \in DOMAIN name |-> name[i]] /\ name[0] = <<>>
      /\ \A i \in 1..n : name[i] = name[i - 1] \o part(i)
  <2>1. \A i \in 1..n : i # 0 /\ i \in 0..n
    BY <1>1
  <2>2. DOMAIN name = 0..n /\ \A i \in 0..n : name[i] = IF i = 0 THEN <<>> ELSE name[i - 1] \o part(i)
    BY <1>7
  <2>3. name = [i \in DOMAIN name |-> name[i]]
    BY <1>7
  <2>4. name[0] = <<>>
    BY <1>1, <2>2
  <2>5. \A i \in 1..n : name[i] = name[i - 1] \o part(i)
    BY <2>1, <2>2
  <2> QED
    BY <2>2, <2>3, <2>4, <2>5
<1>9. name \in [0..n -> Seq(S)]
  <2>1. \A i \in 1..n : name[i - 1] \in Seq(S) => name[i] \in Seq(S)
    BY <1>3, <1>8
  <2>2. name[0] \in Seq(S)
    BY <1>8
  <2> QED
    BY <1>1, <1>8, <2>1, <2>2, Ranged
<1>10. Makes(name, S, tmpl, id, s)
  BY <1>2, <1>8, <1>9 DEF Makes, n, part
<1> QED
  BY <1>10

\* Two texts, one after the other.
LEMMA Joined ==
  ASSUME NEW S, NEW u \in Seq(S), NEW v \in Seq(S), NEW w, w = u \o v
  PROVE  /\ Len(w) = Len(u) + Len(v)
         /\ \A x \in 1..Len(u) : w[x] = u[x]
         /\ \A x \in 1..Len(v) : w[Len(u) + x] = v[x]
OBVIOUS

\* Where the parts of a name are: after as many characters as at says.
Places(at, tmpl, id, s) ==
  LET name == renderBranch(tmpl, id, s)
      Part(i) == rendered(tmpl[i], id, s)
  IN /\ at \in [0..Len(tmpl) -> Nat]
     /\ at[0] = 0 /\ at[Len(tmpl)] = Len(name)
     /\ \A i \in 1..Len(tmpl) :
          /\ at[i] <= Len(name) /\ at[i] = at[i - 1] + Len(Part(i))
          /\ \A x \in 1..Len(Part(i)) : name[at[i - 1] + x] = Part(i)[x]

\* Every name has its parts somewhere, and is text.
LEMMA HasPlaces ==
  ASSUME NEW S, NEW tmpl \in Seq(S), NEW id \in Seq(S), NEW s \in Seq(S)
  PROVE  /\ renderBranch(tmpl, id, s) \in Seq(S)
         /\ \E at : Places(at, tmpl, id, s)
<1> DEFINE n == Len(tmpl)
           Part(i) == rendered(tmpl[i], id, s)
<1>0. n \in Nat /\ \A i \in 1..n : Part(i) \in Seq(S)
  <2>1. \A i \in 1..n : tmpl[i] \in S
    OBVIOUS
  <2> QED
    BY <2>1, RenderedTyped
<1>a. PICK name : Makes(name, S, tmpl, id, s)
  BY MadeOfParts
<1>1. /\ name \in [0..n -> Seq(S)] /\ name[0] = <<>>
      /\ \A i \in 1..n : name[i] = name[i - 1] \o Part(i)
      /\ renderBranch(tmpl, id, s) = name[n]
  BY <1>a DEF Makes
<1> DEFINE at == [i \in 0..n |-> Len(name[i])]
<1> HIDE DEF n, Part
<1>2. \A i \in 0..n : name[i] \in Seq(S)
  BY <1>1
<1>3. ASSUME NEW i \in 1..n
      PROVE  /\ Len(name[i]) = Len(name[i - 1]) + Len(Part(i))
             /\ \A x \in 1..Len(name[i - 1]) : name[i][x] = name[i - 1][x]
             /\ \A x \in 1..Len(Part(i)) : name[i][Len(name[i - 1]) + x] = Part(i)[x]
  <2>1. name[i - 1] \in Seq(S) /\ Part(i) \in Seq(S) /\ name[i] = name[i - 1] \o Part(i)
    <3>1. i - 1 \in 0..n
      BY <1>0
    <3> QED
      BY <1>0, <1>1, <1>2, <3>1, Zenon
  <2> DEFINE u == name[i - 1]
             v == Part(i)
             w == name[i]
  <2>2. u \in Seq(S) /\ v \in Seq(S) /\ w = u \o v
    BY <2>1
  <2> HIDE DEF u, v, w
  <2>3. /\ Len(w) = Len(u) + Len(v)
        /\ \A x \in 1..Len(u) : w[x] = u[x]
        /\ \A x \in 1..Len(v) : w[Len(u) + x] = v[x]
    BY <2>2, Joined
  <2> QED
    BY <2>3, Zenon DEF u, v, w
<1>4. ASSUME NEW i \in 0..n
      PROVE  /\ Len(name[i]) <= Len(name[n])
             /\ \A x \in 1..Len(name[i]) : name[n][x] = name[i][x]
  <2> DEFINE Same(j) == /\ Len(name[i]) <= Len(name[j])
                        /\ \A x \in 1..Len(name[i]) : name[j][x] = name[i][x]
             T == {j \in 0..n : j >= i => Same(j)}
  <2>1. i = 0 => Same(0)
    BY <1>0, <1>2
  <2>2. ASSUME NEW j \in 1..n, j - 1 >= i, Same(j - 1) PROVE Same(j)
    <3>1. /\ j - 1 \in 0..n /\ Len(name[i]) \in Nat /\ Len(name[j - 1]) \in Nat
          /\ Len(Part(j)) \in Nat
      BY <1>0, <1>2
    <3>2. /\ Len(name[j]) = Len(name[j - 1]) + Len(Part(j))
          /\ \A x \in 1..Len(name[j - 1]) : name[j][x] = name[j - 1][x]
      BY <1>3, Zenon
    <3>3. /\ Len(name[i]) <= Len(name[j - 1])
          /\ \A x \in 1..Len(name[i]) : name[j - 1][x] = name[i][x]
      BY <2>2, Zenon
    <3>4. Len(name[i]) <= Len(name[j])
      BY <3>1, <3>2, <3>3
    <3>5. \A x \in 1..Len(name[i]) : x \in 1..Len(name[j - 1])
      BY <3>1, <3>3
    <3>6. \A x \in 1..Len(name[i]) : name[j][x] = name[i][x]
      BY <3>2, <3>3, <3>5, Zenon
    <3> QED
      BY <3>4, <3>6, Zenon
  <2>3. Same(i)
    BY <1>2
  <2>4. 0 \in T
    BY <1>0, <2>1
  <2>5. ASSUME NEW j \in 1..n, j - 1 \in T PROVE j \in T
    <3>1. j < i \/ j = i \/ j - 1 >= i
      BY <1>0
    <3> HIDE DEF Same
    <3> QED
      BY <2>2, <2>3, <2>5, <3>1
  <2> HIDE DEF T
  <2>6. \A j \in 0..n : j \in T
    BY <1>0, <2>4, <2>5, CountUp
  <2>7. n \in T /\ n >= i
    BY <1>0, <2>6
  <2> HIDE DEF Same
  <2>8. Same(n)
    BY <2>7 DEF T
  <2> QED
    BY <2>8 DEF Same
<1>5. ASSUME NEW i \in 1..n, NEW x \in 1..Len(Part(i))
      PROVE  name[n][Len(name[i - 1]) + x] = Part(i)[x]
  <2>1. /\ i - 1 \in 0..n /\ i \in 0..n /\ Len(name[i - 1]) \in Nat /\ Len(Part(i)) \in Nat
    BY <1>0, <1>2
  <2>2. Len(name[i - 1]) + x \in 1..Len(name[i])
    BY <1>3, <2>1
  <2> QED
    BY <1>3, <1>4, <2>1, <2>2
<1>6. at \in [0..n -> Nat] /\ at[0] = 0 /\ at[n] = Len(renderBranch(tmpl, id, s))
  BY <1>0, <1>1, <1>2
<1>7. \A i \in 1..n : at[i] = Len(name[i]) /\ at[i - 1] = Len(name[i - 1])
  BY <1>0
<1> HIDE DEF at
<1>7a. \A i \in 1..n : at[i] <= Len(renderBranch(tmpl, id, s))
  <2>1. \A i \in 1..n : i \in 0..n
    BY <1>0
  <2> QED
    BY <1>1, <1>4, <1>7, <2>1, Zenon
<1>8. \A i \in 1..n :
        /\ at[i] <= Len(renderBranch(tmpl, id, s)) /\ at[i] = at[i - 1] + Len(Part(i))
        /\ \A x \in 1..Len(Part(i)) : renderBranch(tmpl, id, s)[at[i - 1] + x] = Part(i)[x]
  <2> DEFINE all == renderBranch(tmpl, id, s)
  <2>0. all = name[n]
    BY <1>1, Zenon
  <2> HIDE DEF all
  <2>1. \A i \in 1..n : at[i] = at[i - 1] + Len(Part(i))
    BY <1>3, <1>7, Zenon
  <2>2. \A i \in 1..n : \A x \in 1..Len(Part(i)) : all[at[i - 1] + x] = Part(i)[x]
    BY <1>5, <1>7, <2>0, Zenon
  <2> QED
    BY <1>7a, <2>1, <2>2, Zenon DEF all
<1>9. Places(at, tmpl, id, s)
  BY <1>6, <1>8 DEF Places, n, Part
<1>10. name[n] \in Seq(S)
  BY <1>0, <1>2
<1> QED
  BY <1>1, <1>9, <1>10

\* An id has no marks, as a number has none.
Unmarked(id) == \A i \in DOMAIN id : id[i] \notin Marks

\* The kinds of parts.
IsId(part) == part = "{{.ID}}"
IsSlug(part) == part = "{{.Slug}}"

\* What comes of each.
LEMMA PartsKnown ==
  ASSUME NEW part, NEW id, NEW s
  PROVE  /\ IsId(part) => rendered(part, id, s) = id
         /\ IsSlug(part) => rendered(part, id, s) = s
         /\ ~IsId(part) /\ ~IsSlug(part) => rendered(part, id, s) = <<part>>
<1>1. "{{.ID}}" # "{{.Slug}}"
  OBVIOUS
<1> QED
  BY <1>1, Zenon DEF rendered, IsId, IsSlug

\* Beside an id there is a mark.
LEMMA MarkBeside ==
  ASSUME NEW tmpl, Separated(tmpl), NEW i \in 2..Len(tmpl)
  PROVE  /\ IsId(tmpl[i]) => tmpl[i - 1] \in Marks
         /\ IsId(tmpl[i - 1]) => tmpl[i] \in Marks
<1>1. "{{.ID}}" \notin Marks
  BY DEF Marks
<1>2. "{{.ID}}" \in {tmpl[i - 1], tmpl[i]} =>
        {tmpl[i - 1], tmpl[i]} \cap (Marks \ {" "}) # {}
  BY Zenon DEF Separated
<1> QED
  BY <1>1, <1>2, Zenon DEF IsId

\* A difference that is nought at both ends, and falls at some numbers only, falls at one of
\* them to nought or below from nought or above.
LEMMA FallsSomewhere ==
  ASSUME NEW n \in Nat, NEW Falls \in SUBSET (1..n), Falls # {}, NEW D \in [0..n -> Int],
         D[0] = 0, D[n] = 0, \A i \in 1..n : i \notin Falls => D[i] >= D[i - 1]
  PROVE  \E t \in Falls : D[t - 1] >= 0 /\ D[t] <= 0
<1> DEFINE Ahead(m) == D[m] >= 0 /\ \A j \in Falls : j <= m => D[m] > 0
<1>0. \A j \in Falls : j \in 1..n /\ j \in 0..n /\ j \in Nat /\ j <= n
  OBVIOUS
<1>1. ASSUME NEW m \in 0..n, \A j \in Falls : j <= m => D[j] > 0
      PROVE  Ahead(m)
  <2> DEFINE T == {x \in 0..n : x <= m => Ahead(x)}
  <2>1. Ahead(0)
    OBVIOUS
  <2>2. ASSUME NEW x \in 1..n, x <= m, Ahead(x - 1) PROVE Ahead(x)
    <3>1. x \in 0..n /\ x - 1 \in 0..n /\ D[x] \in Int /\ D[x - 1] \in Int
      OBVIOUS
    <3>2. CASE x \in Falls
      BY <1>1, <2>2, <3>1, <3>2
    <3>3. CASE x \notin Falls
      <4>1. D[x] >= D[x - 1]
        BY <3>3
      <4>2. \A j \in Falls : j <= x => j <= x - 1
        BY <1>0, <3>1, <3>3
      <4> QED
        BY <2>2, <3>1, <4>1, <4>2
    <3> QED
      BY <3>2, <3>3
  <2>3. 0 \in T
    BY <2>1
  <2>4. ASSUME NEW x \in 1..n, x - 1 \in T PROVE x \in T
    <3> HIDE DEF Ahead
    <3> QED
      BY <2>2, <2>4
  <2> HIDE DEF T
  <2>5. \A x \in 0..n : x \in T
    BY <2>3, <2>4, CountUp
  <2> HIDE DEF Ahead
  <2> QED
    BY <2>5 DEF T
<1> DEFINE Behind == {j \in Falls : ~(D[j] > 0)}
<1>2. Behind # {}
  <2> SUFFICES ASSUME Behind = {} PROVE FALSE
    OBVIOUS
  <2>1. \A j \in Falls : D[j] > 0
    OBVIOUS
  <2>2. Ahead(n)
    <3> HIDE DEF Ahead, Behind
    <3> QED
      BY <1>1, <2>1
  <2> HIDE DEF Behind
  <2>3. PICK j \in Falls : TRUE
    OBVIOUS
  <2>4. j <= n
    BY <1>0
  <2>5. D[n] > 0
    BY <2>2, <2>3, <2>4
  <2> QED
    BY <2>5
<1>3. \A j \in Behind : j \in Falls
  OBVIOUS
<1>3a. Behind \in SUBSET Nat
  <2> HIDE DEF Behind
  <2> QED
    BY <1>0, <1>3, Zenon
<1> HIDE DEF Behind
<1>4. PICK t \in Behind : \A j \in Behind : t <= j
  BY <1>2, <1>3a, LeastNumber
<1>5. t \in Falls /\ t \in 1..n /\ ~(D[t] > 0)
  BY <1>0 DEF Behind
<1>6. t - 1 \in 0..n /\ D[t] \in Int /\ D[t - 1] \in Int
  BY <1>5
<1>7. ASSUME NEW j \in Falls, j <= t - 1 PROVE D[j] > 0
  <2>1. ~(t <= j)
    BY <1>0, <1>5, <1>7
  <2> QED
    BY <1>4, <2>1 DEF Behind
<1>8. Ahead(t - 1)
  <2> HIDE DEF Ahead
  <2> QED
    BY <1>1, <1>6, <1>7
<1> QED
  BY <1>5, <1>6, <1>8

\* A mark is neither.
LEMMA MarksAreOther ==
  /\ \A m \in Marks : ~IsId(m) /\ ~IsSlug(m)
  /\ 1 \in Nat /\ 1 <= 1
BY DEF Marks, IsId, IsSlug

\* Where the text of a part is, and a mark.
PartAt(at, tmpl, id, s, i, text) ==
  /\ at[i] = at[i - 1] + Len(text)
  /\ \A x \in 1..Len(text) : renderBranch(tmpl, id, s)[at[i - 1] + x] = text[x]

MarkAt(at, tmpl, id, s, i) ==
  at[i] = at[i - 1] + 1 /\ renderBranch(tmpl, id, s)[at[i - 1] + 1] = tmpl[i]

\* Where a part is that comes out as the text given.
LEMMA PartPlaced ==
  ASSUME NEW at, NEW tmpl, NEW id, NEW s, Places(at, tmpl, id, s), NEW i \in 1..Len(tmpl),
         NEW text, rendered(tmpl[i], id, s) = text
  PROVE  PartAt(at, tmpl, id, s, i, text)
BY Zenon DEF Places, PartAt

\* Where a part is that stays as it is.
LEMMA MarkPlaced ==
  ASSUME NEW at, NEW tmpl, NEW id, NEW s, Places(at, tmpl, id, s), NEW i \in 1..Len(tmpl),
         ~IsId(tmpl[i]), ~IsSlug(tmpl[i])
  PROVE  MarkAt(at, tmpl, id, s, i)
<1>1. rendered(tmpl[i], id, s) = <<tmpl[i]>>
  BY PartsKnown, Zenon
<1>2. Len(<<tmpl[i]>>) = 1 /\ <<tmpl[i]>>[1] = tmpl[i] /\ 1 \in 1..1
  OBVIOUS
<1> DEFINE text == <<tmpl[i]>>
<1> HIDE DEF text
<1>3. /\ at[i] = at[i - 1] + Len(text)
      /\ \A x \in 1..Len(text) : renderBranch(tmpl, id, s)[at[i - 1] + x] = text[x]
  <2>1. rendered(tmpl[i], id, s) = text
    BY <1>1 DEF text
  <2> QED
    BY <2>1, PartPlaced DEF PartAt
<1>4. Len(text) = 1 /\ text[1] = tmpl[i] /\ 1 \in 1..Len(text)
  BY <1>2 DEF text
<1> QED
  BY <1>3, <1>4 DEF MarkAt

\* Where the marks of a template are in a name of it.
LEMMA MarksPlaced ==
  ASSUME NEW at, NEW tmpl, NEW id, NEW s, Places(at, tmpl, id, s)
  PROVE  \A i \in 1..Len(tmpl) : tmpl[i] \in Marks => MarkAt(at, tmpl, id, s, i)
<1> SUFFICES ASSUME NEW i \in 1..Len(tmpl), tmpl[i] \in Marks
             PROVE  MarkAt(at, tmpl, id, s, i)
  BY Zenon
<1>1. ~IsId(tmpl[i]) /\ ~IsSlug(tmpl[i])
  BY MarksAreOther, Zenon
<1> QED
  BY <1>1, MarkPlaced, Zenon

\* What is known of two renderings of one name, the first with the id that is asked about.
OneName(n, tmpl, name, id1, l1, l2, Ids, at1, at2) ==
  /\ Ids \in SUBSET (1..n) /\ Ids # {}
  /\ at1 \in [0..n -> Nat] /\ at2 \in [0..n -> Nat]
  /\ at1[0] = 0 /\ at2[0] = 0 /\ at1[n] = at2[n]
  /\ \A i \in Ids : /\ at1[i] = at1[i - 1] + l1 /\ at2[i] = at2[i - 1] + l2
                    /\ \A x \in 1..l1 : name[at1[i - 1] + x] = id1[x]
  /\ \A i \in 1..n : i \notin Ids =>
       \E a, b \in Nat : a <= b /\ at1[i] = at1[i - 1] + a /\ at2[i] = at2[i - 1] + b
  /\ \A i \in 1..n : tmpl[i] \in Marks =>
       at2[i] = at2[i - 1] + 1 /\ name[at2[i - 1] + 1] = tmpl[i]
  /\ \A i \in 2..n : /\ i \in Ids => tmpl[i - 1] \in Marks
                     /\ i - 1 \in Ids => tmpl[i] \in Marks
  /\ \A x \in 1..l1 : id1[x] \notin Marks

\* The two have the id at one place, and as long.
LEMMA PlacesMeet ==
  ASSUME NEW n \in Nat, NEW tmpl, NEW name, NEW id1, NEW l1 \in Nat, NEW l2 \in Nat,
         NEW Ids, NEW at1, NEW at2, OneName(n, tmpl, name, id1, l1, l2, Ids, at1, at2)
  PROVE  \E t \in Ids : at1[t - 1] = at2[t - 1] /\ l1 = l2
<1> DEFINE D == [i \in 0..n |-> at2[i] - at1[i]]
<1>0. Ids \in SUBSET (1..n) /\ Ids # {}
  BY Zenon DEF OneName
<1>1. \A i \in Ids : i \in 1..n /\ i - 1 \in 0..n /\ i \in 0..n
  BY <1>0
<1>2. at1 \in [0..n -> Nat] /\ at2 \in [0..n -> Nat] /\ at1[0] = 0 /\ at2[0] = 0 /\ at1[n] = at2[n]
  BY Zenon DEF OneName
<1>3. \A i \in Ids : /\ at1[i] = at1[i - 1] + l1 /\ at2[i] = at2[i - 1] + l2
                     /\ \A x \in 1..l1 : name[at1[i - 1] + x] = id1[x]
  BY Zenon DEF OneName
<1>4. \A i \in 1..n : tmpl[i] \in Marks =>
        at2[i] = at2[i - 1] + 1 /\ name[at2[i - 1] + 1] = tmpl[i]
  BY Zenon DEF OneName
<1>5. \A i \in 1..n : i \notin Ids =>
        \E a, b \in Nat : a <= b /\ at1[i] = at1[i - 1] + a /\ at2[i] = at2[i - 1] + b
  BY Zenon DEF OneName
<1>6. \A i \in 2..n : /\ i \in Ids => tmpl[i - 1] \in Marks
                      /\ i - 1 \in Ids => tmpl[i] \in Marks
  BY Zenon DEF OneName
<1>7. \A x \in 1..l1 : id1[x] \notin Marks
  BY Zenon DEF OneName
<1>8. \A i \in 0..n : at1[i] \in Nat /\ at2[i] \in Nat
  BY <1>2
<1>9. \E t \in Ids : D[t - 1] >= 0 /\ D[t] <= 0
  <2>1. D \in [0..n -> Int] /\ D[0] = 0 /\ D[n] = 0
    BY <1>2, <1>8
  <2>2. ASSUME NEW i \in 1..n, i \notin Ids PROVE D[i] >= D[i - 1]
    <3>1. /\ i \in 0..n /\ i - 1 \in 0..n /\ at1[i] \in Nat /\ at2[i] \in Nat
          /\ at1[i - 1] \in Nat /\ at2[i - 1] \in Nat
      BY <1>8
    <3>2. PICK a, b \in Nat : a <= b /\ at1[i] = at1[i - 1] + a /\ at2[i] = at2[i - 1] + b
      BY <1>5, <2>2
    <3> QED
      BY <3>1, <3>2
  <2> HIDE DEF D
  <2> QED
    BY <1>0, <2>1, <2>2, FallsSomewhere
<1>10. PICK t \in Ids : D[t - 1] >= 0 /\ D[t] <= 0
  BY <1>9
<1>11. t \in 1..n /\ t - 1 \in 0..n /\ t \in 0..n
  BY <1>1
<1>12. /\ at1[t] \in Nat /\ at2[t] \in Nat /\ at1[t - 1] \in Nat /\ at2[t - 1] \in Nat
       /\ at1[t - 1] <= at2[t - 1] /\ at2[t] <= at1[t]
       /\ at1[t] = at1[t - 1] + l1 /\ at2[t] = at2[t - 1] + l2
  <2>1. /\ at1[t] \in Nat /\ at2[t] \in Nat /\ at1[t - 1] \in Nat /\ at2[t - 1] \in Nat
    BY <1>8, <1>11
  <2> QED
    BY <1>3, <1>10, <1>11, <2>1
<1>13. ASSUME at1[t - 1] # at2[t - 1] PROVE FALSE
  <2> DEFINE x == at2[t - 1] - at1[t - 1]
  <2>1. t - 1 # 0
    BY <1>2, <1>13
  <2>2. t \in 2..n /\ t - 1 \in 1..n /\ t - 1 - 1 \in 0..n
    BY <1>1, <1>11, <2>1
  <2>3. tmpl[t - 1] \in Marks
    BY <1>6, <2>2
  <2>4. /\ at2[t - 1] = at2[t - 1 - 1] + 1
        /\ name[at2[t - 1 - 1] + 1] = tmpl[t - 1]
    BY <1>4, <2>2, <2>3
  <2>5. x \in 1..l1 /\ at1[t - 1] + x = at2[t - 1]
    BY <1>1, <1>12, <1>13
  <2> HIDE DEF x
  <2>6. name[at1[t - 1] + x] = id1[x]
    BY <1>3, <2>5
  <2>7. id1[x] = tmpl[t - 1]
    BY <2>4, <2>5, <2>6
  <2> QED
    BY <1>7, <2>3, <2>5, <2>7
<1>14. ASSUME at1[t] # at2[t], at1[t - 1] = at2[t - 1] PROVE FALSE
  <2> DEFINE x == l2 + 1
             u == t + 1
  <2>1. t # n
    BY <1>2, <1>14
  <2>2. u \in 2..n /\ u \in 1..n /\ u - 1 = t
    BY <1>1, <1>11, <2>1
  <2>3. x \in 1..l1 /\ at1[t - 1] + x = at2[t] + 1
    BY <1>12, <1>14
  <2> HIDE DEF D, x, u
  <2>4. tmpl[u] \in Marks
    BY <1>6, <2>2
  <2>5. name[at2[t] + 1] = tmpl[u]
    BY <1>4, <2>2, <2>4
  <2>6. name[at1[t - 1] + x] = id1[x]
    BY <1>3, <2>3
  <2>7. id1[x] = tmpl[u]
    BY <2>3, <2>5, <2>6
  <2> QED
    BY <1>7, <2>3, <2>4, <2>7
<1>15. l1 = l2
  BY <1>12, <1>13, <1>14
<1> QED
  BY <1>13, <1>15

\* Two tasks with one branch have one id, where the template sets it apart: somewhere both
\* ids start and end at the same places.  Of two slugs one is the longer, and moves what
\* follows it further on; since both names have one length, its id is the shorter, and moves
\* what follows back.  At the first id that ends no further on than the other does, it
\* begins no earlier, so it lies within the other; and the marks beside it do not.
LEMMA IdsAreTold ==
  ASSUME NEW S, NEW tmpl \in Seq(S), Separated(tmpl),
         NEW id1 \in Seq(S), NEW s1 \in Seq(S), NEW id2 \in Seq(S), NEW s2 \in Seq(S),
         Unmarked(id1), Len(s1) <= Len(s2),
         renderBranch(tmpl, id1, s1) = renderBranch(tmpl, id2, s2),
         NEW h \in 1..Len(tmpl), IsId(tmpl[h])
  PROVE  id1 = id2
<1> DEFINE n == Len(tmpl)
           name == renderBranch(tmpl, id1, s1)
           Ids == {i \in 1..n : IsId(tmpl[i])}
           l1 == Len(id1)
           l2 == Len(id2)
           k1 == Len(s1)
           k2 == Len(s2)
<1>a. PICK at1 : Places(at1, tmpl, id1, s1)
  BY HasPlaces, Zenon
<1>b. PICK at2 : Places(at2, tmpl, id2, s2)
  BY HasPlaces, Zenon
<1>0. renderBranch(tmpl, id2, s2) = name
  OBVIOUS
<1>1. /\ n \in Nat /\ l1 \in Nat /\ l2 \in Nat /\ k1 \in Nat /\ k2 \in Nat /\ k1 <= k2
      /\ DOMAIN id1 = 1..l1
  BY LenProperties
<1>2. Ids \in SUBSET (1..n) /\ Ids # {}
  <2> HIDE DEF n
  <2> QED
    BY Zenon DEF n
<1>3. /\ at1 \in [0..n -> Nat] /\ at2 \in [0..n -> Nat]
      /\ at1[0] = 0 /\ at2[0] = 0 /\ at1[n] = at2[n]
  BY <1>a, <1>b, <1>0, Zenon DEF Places
<1>4. ASSUME NEW i \in Ids
      PROVE  /\ at1[i] = at1[i - 1] + l1 /\ at2[i] = at2[i - 1] + l2
             /\ \A x \in 1..l1 : name[at1[i - 1] + x] = id1[x]
             /\ \A x \in 1..l2 : name[at2[i - 1] + x] = id2[x]
  <2>1. i \in 1..n /\ IsId(tmpl[i])
    BY Zenon
  <2>a. rendered(tmpl[i], id1, s1) = id1 /\ rendered(tmpl[i], id2, s2) = id2
    BY <2>1, PartsKnown, Zenon
  <2>2. /\ at1[i] = at1[i - 1] + l1
        /\ \A x \in 1..l1 : name[at1[i - 1] + x] = id1[x]
    <3>1. PartAt(at1, tmpl, id1, s1, i, id1)
      BY <1>a, <2>1, <2>a, PartPlaced, Zenon
    <3> QED
      BY <3>1, Zenon DEF PartAt
  <2>3. /\ at2[i] = at2[i - 1] + l2
        /\ \A x \in 1..l2 : name[at2[i - 1] + x] = id2[x]
    <3>1. PartAt(at2, tmpl, id2, s2, i, id2)
      BY <1>b, <2>1, <2>a, PartPlaced, Zenon
    <3> HIDE DEF name
    <3> QED
      BY <1>0, <3>1, Zenon DEF PartAt
  <2> QED
    BY <2>2, <2>3
<1>5. \A i \in 1..n : tmpl[i] \in Marks =>
        at2[i] = at2[i - 1] + 1 /\ name[at2[i - 1] + 1] = tmpl[i]
  <2>1. \A i \in 1..n : tmpl[i] \in Marks => MarkAt(at2, tmpl, id2, s2, i)
    BY <1>b, MarksPlaced, Zenon
  <2> HIDE DEF n, name
  <2> QED
    BY <1>0, <2>1, Zenon DEF MarkAt
<1>6. ASSUME NEW i \in 1..n, i \notin Ids
      PROVE  \E a, b \in Nat : a <= b /\ at1[i] = at1[i - 1] + a /\ at2[i] = at2[i - 1] + b
  <2>1. ~IsId(tmpl[i])
    BY <1>6, Zenon
  <2>2. CASE IsSlug(tmpl[i])
    <3>0. rendered(tmpl[i], id1, s1) = s1 /\ rendered(tmpl[i], id2, s2) = s2
      BY <2>2, PartsKnown, Zenon
    <3>1. at1[i] = at1[i - 1] + k1 /\ at2[i] = at2[i - 1] + k2
      <4>1. PartAt(at1, tmpl, id1, s1, i, s1)
        BY <1>a, <3>0, PartPlaced, Zenon
      <4>2. PartAt(at2, tmpl, id2, s2, i, s2)
        BY <1>b, <3>0, PartPlaced, Zenon
      <4> QED
        BY <4>1, <4>2, Zenon DEF PartAt
    <3> QED
      BY <1>1, <3>1, Zenon
  <2>3. CASE ~IsSlug(tmpl[i])
    <3>0. ~IsId(tmpl[i]) /\ ~IsSlug(tmpl[i])
      BY <2>1, <2>3, Zenon
    <3>1. at1[i] = at1[i - 1] + 1 /\ at2[i] = at2[i - 1] + 1
      <4>1. MarkAt(at1, tmpl, id1, s1, i) /\ MarkAt(at2, tmpl, id2, s2, i)
        BY <1>a, <1>b, <3>0, MarkPlaced, Zenon
      <4> QED
        BY <4>1, Zenon DEF MarkAt
    <3> QED
      BY <3>1, MarksAreOther, Zenon
  <2> QED
    BY <2>2, <2>3
<1>7. ASSUME NEW i \in 2..n
      PROVE  /\ i \in Ids => tmpl[i - 1] \in Marks
             /\ i - 1 \in Ids => tmpl[i] \in Marks
  BY MarkBeside, Zenon
<1>8. \A x \in 1..l1 : id1[x] \notin Marks
  BY <1>1, Zenon DEF Unmarked
<1> HIDE DEF n, name, Ids, l1, l2
<1>1a. OneName(n, tmpl, name, id1, l1, l2, Ids, at1, at2)
  BY <1>2, <1>3, <1>4, <1>5, <1>6, <1>7, <1>8, Zenon DEF OneName
<1>9. PICK t \in Ids : at1[t - 1] = at2[t - 1] /\ l1 = l2
  BY <1>1, <1>1a, PlacesMeet, Zenon
<1>10. /\ \A x \in 1..l1 : name[at1[t - 1] + x] = id1[x]
       /\ \A x \in 1..l2 : name[at2[t - 1] + x] = id2[x]
  BY <1>4, Zenon
<1>11. \A x \in 1..l1 : name[at1[t - 1] + x] = id1[x] /\ name[at1[t - 1] + x] = id2[x]
  BY <1>9, <1>10, Zenon
<1>12. \A x \in 1..l1 : id1[x] = id2[x]
  BY <1>11, Zenon
<1>13. \A x \in 1..Len(id1) : id1[x] = id2[x]
  BY <1>12, Zenon DEF l1
<1>14. Len(id1) = Len(id2)
  BY <1>9, Zenon DEF l1, l2
<1> QED
  BY <1>13, <1>14, SeqEqual, Zenon
-----------------------------------------------------------------------------
(***************************************************************************)
(* Which names have an id in them.                                         *)
(***************************************************************************)
\* A place within a part is one within the whole.
LEMMA Within ==
  ASSUME NEW a \in Nat, NEW l \in Nat, NEW k \in Nat, a + l <= k, NEW x \in 1..l
  PROVE  a + x \in 1..k
OBVIOUS

\* What an id is made of is in every name whose template has the id.
LEMMA IdIsInName ==
  ASSUME NEW S, NEW tmpl \in Seq(S), NEW id \in Seq(S), NEW s \in Seq(S),
         NEW h \in 1..Len(tmpl), IsId(tmpl[h])
  PROVE  ToSet(id) \subseteq ToSet(renderBranch(tmpl, id, s))
<1> DEFINE n == Len(tmpl)
           name == renderBranch(tmpl, id, s)
<1>1. PICK at : Places(at, tmpl, id, s)
  BY HasPlaces, Zenon
<1>2. rendered(tmpl[h], id, s) = id
  BY PartsKnown, Zenon
<1>3. at[h] = at[h - 1] + Len(id) /\ \A x \in 1..Len(id) : name[at[h - 1] + x] = id[x]
  <2>1. PartAt(at, tmpl, id, s, h, id)
    BY <1>1, <1>2, PartPlaced, Zenon
  <2> QED
    BY <2>1, Zenon DEF PartAt
<1>4. /\ at \in [0..n -> Nat] /\ at[h] <= Len(name)
  BY <1>1, Zenon DEF Places
<1>5. n \in Nat /\ Len(id) \in Nat /\ DOMAIN id = 1..Len(id)
  BY LenProperties
<1>6. name \in Seq(S)
  BY HasPlaces, Zenon
<1>7. Len(name) \in Nat /\ DOMAIN name = 1..Len(name)
  BY <1>6, LenProperties
<1> DEFINE l == Len(id)
           k == Len(name)
<1>8. h \in 1..n
  OBVIOUS
<1> HIDE DEF n, name, l, k
<1>9. at[h - 1] \in Nat
  <2>1. h - 1 \in 0..n
    BY <1>5, <1>8
  <2> QED
    BY <1>4, <2>1
<1>10. ASSUME NEW x \in 1..l PROVE at[h - 1] + x \in 1..k
  <2>1. l \in Nat /\ k \in Nat /\ at[h - 1] + l <= k
    BY <1>3, <1>4, <1>5, <1>7, Zenon DEF l, k
  <2> QED
    BY <1>9, <2>1, Within, Zenon
<1>11. \A x \in 1..l : at[h - 1] + x \in DOMAIN name /\ name[at[h - 1] + x] = id[x]
  BY <1>3, <1>7, <1>10, Zenon DEF l, k
<1>12. \A x \in 1..l : id[x] \in ToSet(name)
  <2> SUFFICES ASSUME NEW x \in 1..l PROVE id[x] \in ToSet(name)
    OBVIOUS
  <2> DEFINE y == at[h - 1] + x
  <2>1. y \in DOMAIN name /\ name[y] = id[x]
    BY <1>11, Zenon
  <2> HIDE DEF y
  <2> QED
    BY <2>1, Zenon DEF ToSet
<1>13. DOMAIN id = 1..l
  BY <1>5, Zenon DEF l
<1> QED
  BY <1>12, <1>13, Zenon DEF ToSet, name

\* A template that gives two ids two names has the id in it.
LEMMA IdIsNamed ==
  ASSUME NEW S, NEW tmpl \in Seq(S), NEW id1 \in Seq(S), NEW id2 \in Seq(S), NEW s \in Seq(S),
         renderBranch(tmpl, id1, s) # renderBranch(tmpl, id2, s)
  PROVE  \E h \in 1..Len(tmpl) : IsId(tmpl[h])
<1> SUFFICES ASSUME \A h \in 1..Len(tmpl) : ~IsId(tmpl[h]) PROVE FALSE
  BY Zenon
<1>1. PICK name1 : Makes(name1, S, tmpl, id1, s)
  BY MadeOfParts, Zenon
<1>2. PICK name2 : Makes(name2, S, tmpl, id2, s)
  BY MadeOfParts, Zenon
<1> DEFINE n == Len(tmpl)
           T == {i \in 0..n : name1[i] = name2[i]}
<1>3. n \in Nat
  BY LenProperties
<1>4. ASSUME NEW i \in 1..n PROVE rendered(tmpl[i], id1, s) = rendered(tmpl[i], id2, s)
  BY PartsKnown, Zenon
<1>5. /\ name1[0] = <<>> /\ renderBranch(tmpl, id1, s) = name1[n]
      /\ \A i \in 1..n : name1[i] = name1[i - 1] \o rendered(tmpl[i], id1, s)
  BY <1>1, Zenon DEF Makes
<1>6. /\ name2[0] = <<>> /\ renderBranch(tmpl, id2, s) = name2[n]
      /\ \A i \in 1..n : name2[i] = name2[i - 1] \o rendered(tmpl[i], id2, s)
  BY <1>2, Zenon DEF Makes
<1>7. ASSUME NEW i \in 1..n, name1[i - 1] = name2[i - 1] PROVE name1[i] = name2[i]
  BY <1>4, <1>5, <1>6, <1>7, Zenon
<1> HIDE DEF n
<1>8. 0 \in T
  BY <1>3, <1>5, <1>6
<1>9. \A i \in 1..n : i - 1 \in T => i \in T
  <2>1. \A i \in 1..n : i \in 0..n
    BY <1>3
  <2> QED
    BY <1>7, <2>1, Zenon
<1> HIDE DEF T
<1>10. \A i \in 0..n : i \in T
  BY <1>3, <1>8, <1>9, CountUp, Zenon
<1>11. n \in 0..n
  BY <1>3
<1>12. name1[n] = name2[n]
  BY <1>10, <1>11, Zenon DEF T
<1> QED
  BY <1>5, <1>6, <1>12, Zenon
-----------------------------------------------------------------------------
(***************************************************************************)
(* A slug is text.                                                         *)
(***************************************************************************)
\* What a slug may have in it besides what its title has.
Hyphen == "-"
Nameless == <<"task">>

\* A word follows, or a hyphen, or neither.
LEMMA ExtendedTyped ==
  ASSUME NEW S, Hyphen \in S, NEW b \in Seq(S), NEW r \in S
  PROVE  extended(b, r) \in Seq(S)
<1>1. extended(b, r) \in {Append(b, r), Append(b, Hyphen), b}
  BY Zenon DEF extended, Hyphen
<1>2. Append(b, r) \in Seq(S) /\ Append(b, Hyphen) \in Seq(S)
  BY AppendProperties
<1> QED
  BY <1>1, <1>2, Zenon

\* So it is after each word of the title.
LEMMA HyphenatedTyped ==
  ASSUME NEW S, Hyphen \in S, NEW title \in Seq(S)
  PROVE  hyphenated(title) \in Seq(S)
<1> DEFINE n == Len(title)
           Body(f) == [i \in 0..n |-> IF i = 0 THEN <<>> ELSE extended(f[i - 1], title[i])]
           X == Seq(S)
           a == <<>>
           G == [i \in 1..n |-> [x \in X |-> extended(x, title[i])]]
           b == CHOOSE f : f = Body(f)
<1>1. n \in Nat /\ a \in X
  BY LenProperties, EmptySeq
<1>2. \A i \in 1..n : \A x \in X : extended(x, title[i]) \in X
  <2>1. \A i \in 1..n : title[i] \in S
    BY ElementOfSeq
  <2> QED
    BY <2>1, ExtendedTyped, Zenon
<1>3. hyphenated(title) = b[n]
  BY Zenon DEF hyphenated
<1>4. G \in Ways(n, X)
  <2> HIDE DEF n, X
  <2> QED
    BY <1>2 DEF Ways
<1>5. \A i \in 1..n : \A x \in X : G[i][x] = extended(x, title[i])
  BY Zenon
<1> HIDE DEF n, X, a, G
<1>6. PICK f \in [0..n -> X] : GoesOn(f, n, a, G)
  BY <1>1, <1>4, Recursion, Zenon
<1>7. f[0] = a /\ \A i \in 1..n : f[i] = extended(f[i - 1], title[i])
  <2>1. f[0] = a /\ \A i \in 1..n : f[i] = G[i][f[i - 1]]
    BY <1>6, Zenon DEF GoesOn
  <2>2. \A i \in 1..n : f[i - 1] \in X
    BY <1>1
  <2> QED
    BY <1>5, <2>1, <2>2, Zenon
<1>8. f = Body(f)
  <2>1. ASSUME NEW i \in 0..n
        PROVE  f[i] = IF i = 0 THEN <<>> ELSE extended(f[i - 1], title[i])
    <3>1. i = 0 \/ i \in 1..n
      BY <1>1
    <3>2. i \in 1..n => i # 0
      OBVIOUS
    <3> QED
      BY <1>7, <3>1, <3>2, Zenon DEF a
  <2> QED
    BY <2>1
<1>9. b = Body(b)
  BY <1>8, Zenon
<1> HIDE DEF b
<1>10. DOMAIN b = 0..n /\ b = [i \in DOMAIN b |-> b[i]]
  BY <1>9
<1>11. \A i \in 0..n : b[i] = IF i = 0 THEN <<>> ELSE extended(b[i - 1], title[i])
  BY <1>9
<1>12. b[0] \in X
  BY <1>1, <1>11 DEF a
<1>13. \A i \in 1..n : b[i - 1] \in X => b[i] \in X
  <2>1. \A i \in 1..n : i \in 0..n /\ i # 0
    BY <1>1
  <2>2. \A i \in 1..n : b[i] = extended(b[i - 1], title[i])
    BY <1>11, <2>1, Zenon
  <2> QED
    BY <1>2, <2>2, Zenon
<1>14. b \in [0..n -> X]
  BY <1>1, <1>10, <1>12, <1>13, Ranged, Zenon
<1>15. b[n] \in X
  BY <1>1, <1>14
<1> QED
  BY <1>3, <1>15, Zenon DEF X

\* What is left of a text at its start is text.
LEMMA StartTyped ==
  ASSUME NEW S, NEW s \in Seq(S), NEW m \in Int, m <= Len(s)
  PROVE  SubSeq(s, 1, m) \in Seq(S)
<1>1. \A i \in 1..m : s[i] \in S
  OBVIOUS
<1> QED
  BY <1>1, SubSeqProperties

\* A slug stays a text when a hyphen at its end is taken off.
LEMMA TrimmedTyped ==
  ASSUME NEW S, NEW s \in Seq(S)
  PROVE  trimmed(s) \in Seq(S)
<1>1. trimmed(s) \in {SubSeq(s, 1, Len(s) - 1), s}
  BY Zenon DEF trimmed, Front
<1>2. SubSeq(s, 1, Len(s) - 1) \in Seq(S)
  BY StartTyped
<1> QED
  BY <1>1, <1>2, Zenon

\* The greatest of some numbers up to one is one of them.
LEMMA GreatestNumber ==
  ASSUME NEW n \in Nat, NEW I \in SUBSET (1..n), I # {}
  PROVE  Max(I) \in I
<1> DEFINE Above == {m \in Nat : \A i \in I : i <= m}
<1>1. n \in Above
  OBVIOUS
<1> HIDE DEF Above
<1>2. PICK m \in Above : \A k \in Above : m <= k
  <2>1. Above \in SUBSET Nat /\ Above # {}
    BY <1>1 DEF Above
  <2> QED
    BY <2>1, LeastNumber
<1>3. m \in Nat /\ \A i \in I : i <= m /\ i \in Nat /\ i >= 1
  BY DEF Above
<1>4. m \in I
  <2> SUFFICES ASSUME m \notin I PROVE FALSE
    OBVIOUS
  <2>1. PICK i \in I : TRUE
    OBVIOUS
  <2>2. m - 1 \in Nat /\ ~(m <= m - 1)
    BY <1>3, <2>1
  <2>3. \A j \in I : j <= m - 1
    BY <1>3
  <2> QED
    BY <1>2, <2>2, <2>3 DEF Above
<1>5. m \in I /\ \A i \in I : m >= i
  BY <1>3, <1>4
<1> QED
  BY <1>5, Zenon DEF Max

\* And when it is cut.
LEMMA CutTyped ==
  ASSUME NEW S, NEW s \in Seq(S), MaxSlug < Len(s)
  PROVE  cutAtWord(s) \in Seq(S)
<1> DEFINE cut == SubSeq(s, 1, MaxSlug)
           I == {i \in 1..Len(cut) : cut[i] = Hyphen}
           hyphen == IF I # {} THEN Max(I) ELSE 0
           left == IF hyphen > 1 THEN SubSeq(cut, 1, hyphen - 1) ELSE cut
<1>1. cutAtWord(s) = trimmed(left)
  BY Zenon DEF cutAtWord, SelectLastInSeq, Hyphen
<1>2. cut \in Seq(S)
  <2>1. MaxSlug \in Int /\ MaxSlug <= Len(s)
    BY BranchAssumption DEF BranchAssumption
  <2> QED
    BY <2>1, StartTyped
<1> HIDE DEF cut
<1>3. hyphen \in 0..Len(cut)
  <2>1. Len(cut) \in Nat
    BY <1>2, LenProperties
  <2> DEFINE l == Len(cut)
  <2>2. I \in SUBSET (1..l)
    OBVIOUS
  <2>3. I # {} => Max(I) \in I
    <3> HIDE DEF I, l
    <3> QED
      BY <2>1, <2>2, GreatestNumber, Zenon DEF l
  <2> QED
    BY <2>1, <2>3
<1> HIDE DEF hyphen
<1>4. left \in Seq(S)
  <2>1. CASE hyphen > 1
    <3>1. hyphen - 1 \in Int /\ hyphen - 1 <= Len(cut)
      BY <1>2, <1>3, LenProperties
    <3> QED
      BY <1>2, <2>1, <3>1, StartTyped
  <2> QED
    BY <1>2, <2>1
<1> HIDE DEF left
<1> QED
  BY <1>1, <1>4, TrimmedTyped, Zenon

\* The slug of a title.
LEMMA SlugTyped ==
  ASSUME NEW S, Hyphen \in S, Nameless \in Seq(S), NEW title \in Seq(S)
  PROVE  slug(title) \in Seq(S)
<1> DEFINE whole == trimmed(hyphenated(title))
           s == IF Len(whole) > MaxSlug THEN cutAtWord(whole) ELSE whole
<1>1. slug(title) \in {Nameless, s}
  BY Zenon DEF slug, Nameless
<1>2. whole \in Seq(S)
  BY HyphenatedTyped, TrimmedTyped, Zenon
<1> HIDE DEF whole
<1>3. CASE Len(whole) > MaxSlug
  <2>1. MaxSlug < Len(whole)
    BY <1>2, <1>3, BranchAssumption, LenProperties DEF BranchAssumption
  <2> QED
    BY <1>1, <1>2, <1>3, <2>1, CutTyped, Zenon
<1> QED
  BY <1>1, <1>2, <1>3, Zenon
-----------------------------------------------------------------------------
(***************************************************************************)
(* A template that passes.                                                 *)
(***************************************************************************)
\* What there may be in a text, and a sequence of it, are one.
LEMMA TextTyped ==
  ASSUME NEW S, NEW v, IsText(v), \A i \in 1..Len(v) : v[i] \in S
  PROVE  v \in Seq(S)
<1>1. Len(v) \in Nat /\ v = [i \in 1..Len(v) |-> v[i]]
  BY Zenon DEF IsText
<1>2. v \in [1..Len(v) -> S]
  BY <1>1
<1> QED
  BY <1>1, <1>2, SeqDef

\* And back.
LEMMA TypedText ==
  ASSUME NEW S, NEW v \in Seq(S)
  PROVE  IsText(v) /\ DOMAIN v = 1..Len(v) /\ \A i \in 1..Len(v) : v[i] \in S
<1>1. Len(v) \in Nat /\ v \in [1..Len(v) -> S] /\ DOMAIN v = 1..Len(v)
  BY LenProperties
<1>2. v = [i \in 1..Len(v) |-> v[i]] /\ \A i \in 1..Len(v) : v[i] \in S
  BY <1>1
<1> QED
  BY <1>1, <1>2, Zenon DEF IsText

\* A text is a sequence of what it is made of.
LEMMA TextDomain ==
  ASSUME NEW v, IsText(v)
  PROVE  Len(v) \in Nat /\ DOMAIN v = 1..Len(v) /\ v \in Seq(ToSet(v))
<1>1. Len(v) \in Nat /\ v = [i \in 1..Len(v) |-> v[i]]
  BY Zenon DEF IsText
<1>2. DOMAIN v = 1..Len(v)
  BY <1>1
<1>3. \A i \in 1..Len(v) : v[i] \in ToSet(v)
  BY <1>2, Zenon DEF ToSet
<1> QED
  BY <1>1, <1>2, <1>3, TextTyped, Zenon

\* Texts stay texts among more.
LEMMA MoreTyped ==
  ASSUME NEW S, NEW v, IsText(v), ToSet(v) \subseteq S
  PROVE  v \in Seq(S)
<1>1. \A i \in 1..Len(v) : v[i] \in S
  BY TextDomain, Zenon DEF ToSet
<1> QED
  BY <1>1, TextTyped, Zenon

\* Under a template that passes tasks have branches of their own, where it sets the id apart;
\* and a task whose branch is the base has its id in the base.
LEMMA OwnBranches ==
  ASSUME NEW tmpl, IsText(tmpl), NEW base, ~validateBranchTemplate(tmpl, base)
  PROVE  /\ Separated(tmpl) =>
              \A t, u \in Tasks : BranchName(tmpl, t) = BranchName(tmpl, u) => t.id = u.id
         /\ \A t \in Tasks : BranchName(tmpl, t) = base => ToSet(t.id) \subseteq ToSet(base)
<1> DEFINE id1 == <<"1">>
           id2 == <<"2">>
           made == <<"first", "-", "task">>
           S == {"1", "2", "first", "-", "task"} \cup ToSet(tmpl)
                  \cup UNION {ToSet(t.id) \cup ToSet(t.title) : t \in Tasks}
<1>1. renderBranch(tmpl, id1, made) # renderBranch(tmpl, id2, made)
  BY Zenon DEF validateBranchTemplate
<1>2. /\ {"1", "2", "first", "-", "task"} \subseteq S /\ ToSet(tmpl) \subseteq S
      /\ \A t \in Tasks : ToSet(t.id) \subseteq S /\ ToSet(t.title) \subseteq S
  OBVIOUS
<1> HIDE DEF S
<1>3. Hyphen \in S
  BY <1>2 DEF Hyphen
<1>4. id1 \in Seq(S) /\ id2 \in Seq(S) /\ made \in Seq(S) /\ Nameless \in Seq(S)
  <2>1. "1" \in S /\ "2" \in S /\ "first" \in S /\ "-" \in S /\ "task" \in S
    BY <1>2
  <2> QED
    BY <2>1 DEF Nameless
<1> HIDE DEF id1, id2, made
<1>5. tmpl \in Seq(S)
  BY <1>2, MoreTyped, Zenon
<1>6. PICK h \in 1..Len(tmpl) : IsId(tmpl[h])
  BY <1>1, <1>4, <1>5, IdIsNamed, Zenon
<1>7. ASSUME NEW t \in Tasks
      PROVE  t.id \in Seq(S) /\ slug(t.title) \in Seq(S) /\ Unmarked(t.id)
  <2>1. IsText(t.title) /\ IsText(t.id) /\ \A i \in DOMAIN t.id : t.id[i] \notin Marks
    BY BranchAssumption, Zenon DEF BranchAssumption
  <2>2. t.id \in Seq(S) /\ t.title \in Seq(S)
    BY <1>2, <2>1, MoreTyped, Zenon
  <2>3. slug(t.title) \in Seq(S)
    BY <1>3, <1>4, <2>2, SlugTyped, Zenon
  <2> QED
    BY <2>1, <2>2, <2>3, Zenon DEF Unmarked
<1>8. ASSUME Separated(tmpl), NEW t \in Tasks, NEW u \in Tasks,
             BranchName(tmpl, t) = BranchName(tmpl, u)
      PROVE  t.id = u.id
  <2> DEFINE s1 == slug(t.title)
             s2 == slug(u.title)
  <2>1. renderBranch(tmpl, t.id, s1) = renderBranch(tmpl, u.id, s2)
    BY <1>8, Zenon DEF BranchName
  <2>2. t.id \in Seq(S) /\ s1 \in Seq(S) /\ u.id \in Seq(S) /\ s2 \in Seq(S)
        /\ Unmarked(t.id) /\ Unmarked(u.id)
    BY <1>7, Zenon
  <2> HIDE DEF s1, s2
  <2>3. Len(s1) <= Len(s2) \/ Len(s2) <= Len(s1)
    <3>1. Len(s1) \in Nat /\ Len(s2) \in Nat
      BY <2>2, LenProperties, Zenon
    <3> QED
      BY <3>1
  <2>4. CASE Len(s1) <= Len(s2)
    BY <1>5, <1>6, <1>8, <2>1, <2>2, <2>4, IdsAreTold, Zenon
  <2>5. CASE Len(s2) <= Len(s1)
    BY <1>5, <1>6, <1>8, <2>1, <2>2, <2>5, IdsAreTold, Zenon
  <2> QED
    BY <2>3, <2>4, <2>5, Zenon
<1>9. ASSUME NEW t \in Tasks, BranchName(tmpl, t) = base
      PROVE  ToSet(t.id) \subseteq ToSet(base)
  <2>1. ToSet(t.id) \subseteq ToSet(renderBranch(tmpl, t.id, slug(t.title)))
    BY <1>5, <1>6, <1>7, IdIsInName, Zenon
  <2> QED
    BY <1>9, <2>1, Zenon DEF BranchName
<1> QED
  BY <1>8, <1>9, Zenon
=============================================================================
