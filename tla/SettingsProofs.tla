---------------------------- MODULE SettingsProofs ----------------------------
(***************************************************************************)
(* Proofs about what Invocation does with a configuration: that what loads *)
(* can be worked with, that its paths stay in the repository, that its     *)
(* branches tell the tasks apart, and that a model stays with the provider *)
(* that it was meant for.  For any settings.                               *)
(***************************************************************************)
EXTENDS InvocationProofs, BranchProofs, FiniteSetTheorems

(***************************************************************************)
(* Where a path leads.                                                     *)
(***************************************************************************)
Up == ".."
Here == "."

\* A path, as far as it has been followed after each part.
Leads(c, S, p) ==
  /\ c \in [0..Len(p) -> Seq(S)] /\ c[0] = <<>>
  /\ \A i \in 1..Len(p) : c[i] = followed(c[i - 1], p[i])
  /\ Cleaned(p) = c[Len(p)]

\* What comes of each kind of part.
LEMMA FollowedKnown ==
  ASSUME NEW out, NEW part
  PROVE  /\ part = Here => followed(out, part) = out
         /\ part = Up => followed(out, part) =
              IF out # <<>> /\ Last(out) # Up THEN Front(out) ELSE Append(out, Up)
         /\ part \notin {Here, Up} => followed(out, part) = Append(out, part)
<1>1. Here # Up
  BY DEF Here, Up
<1>2. followed(out, part) =
        CASE part = Here -> out
          [] part = Up /\ out # <<>> /\ Last(out) # Up -> Front(out)
          [] OTHER -> Append(out, part)
  BY Zenon DEF followed, Here, Up
<1> QED
  BY <1>1, <1>2, Zenon

\* A path stays a sequence of parts while it is followed.
LEMMA FollowedTyped ==
  ASSUME NEW S, NEW out \in Seq(S), NEW part \in S
  PROVE  followed(out, part) \in Seq(S)
<1>1. followed(out, part) \in {out, SubSeq(out, 1, Len(out) - 1), Append(out, part)}
  BY Zenon DEF followed, Front
<1>2. SubSeq(out, 1, Len(out) - 1) \in Seq(S)
  BY StartTyped
<1>3. Append(out, part) \in Seq(S)
  BY AppendProperties
<1> QED
  BY <1>1, <1>2, <1>3, Zenon

\* A path is followed part by part.
LEMMA FollowedByParts ==
  ASSUME NEW S, NEW p \in Seq(S)
  PROVE  \E c : Leads(c, S, p)
<1> DEFINE n == Len(p)
           Body(f) == [i \in 0..n |-> IF i = 0 THEN <<>> ELSE followed(f[i - 1], p[i])]
           X == Seq(S)
           a == <<>>
           G == [i \in 1..n |-> [x \in X |-> followed(x, p[i])]]
           c == CHOOSE f : f = Body(f)
<1>1. n \in Nat /\ a \in X
  BY LenProperties, EmptySeq
<1>2. \A i \in 1..n : \A x \in X : followed(x, p[i]) \in X
  <2>1. \A i \in 1..n : p[i] \in S
    BY ElementOfSeq
  <2> QED
    BY <2>1, FollowedTyped, Zenon
<1>3. Cleaned(p) = c[n]
  BY Zenon DEF Cleaned
<1>4. G \in Ways(n, X)
  <2> HIDE DEF n, X
  <2> QED
    BY <1>2 DEF Ways
<1>5. \A i \in 1..n : \A x \in X : G[i][x] = followed(x, p[i])
  BY Zenon
<1> HIDE DEF n, X, a, G
<1>6. PICK f \in [0..n -> X] : GoesOn(f, n, a, G)
  BY <1>1, <1>4, Recursion, Zenon
<1>7. f[0] = a /\ \A i \in 1..n : f[i] = followed(f[i - 1], p[i])
  <2>1. f[0] = a /\ \A i \in 1..n : f[i] = G[i][f[i - 1]]
    BY <1>6, Zenon DEF GoesOn
  <2>2. \A i \in 1..n : f[i - 1] \in X
    BY <1>1
  <2> QED
    BY <1>5, <2>1, <2>2, Zenon
<1>8. f = Body(f)
  <2>1. ASSUME NEW i \in 0..n
        PROVE  f[i] = IF i = 0 THEN <<>> ELSE followed(f[i - 1], p[i])
    <3>1. i = 0 \/ i \in 1..n
      BY <1>1
    <3>2. i \in 1..n => i # 0
      OBVIOUS
    <3> QED
      BY <1>7, <3>1, <3>2, Zenon DEF a
  <2> QED
    BY <2>1
<1>9. c = Body(c)
  BY <1>8, Zenon
<1> HIDE DEF c
<1>10. DOMAIN c = 0..n /\ c = [i \in DOMAIN c |-> c[i]]
  BY <1>9
<1>11. \A i \in 0..n : c[i] = IF i = 0 THEN <<>> ELSE followed(c[i - 1], p[i])
  BY <1>9
<1>12. c[0] \in X /\ c[0] = <<>>
  BY <1>1, <1>11 DEF a
<1>12a. \A i \in 1..n : c[i] = followed(c[i - 1], p[i])
  <2>1. \A i \in 1..n : i \in 0..n /\ i # 0
    BY <1>1
  <2> QED
    BY <1>11, <2>1, Zenon
<1>13. \A i \in 1..n : c[i - 1] \in X => c[i] \in X
  BY <1>2, <1>12a, Zenon
<1>14. c \in [0..n -> X]
  BY <1>1, <1>10, <1>12, <1>13, Ranged, Zenon
<1>15. Leads(c, S, p)
  BY <1>3, <1>12, <1>12a, <1>14, Zenon DEF Leads, X, n
<1> QED
  BY <1>15

\* A path that ever leaves stays out: what it came to has ".." in it from then on.
LEMMA NeverOut ==
  ASSUME NEW S, NEW p \in Seq(S), NEW c, Leads(c, S, p), Up \notin ToSet(Cleaned(p)),
         NEW k \in 0..Len(p)
  PROVE  Up \notin ToSet(c[k])
<1> SUFFICES ASSUME Up \in ToSet(c[k]) PROVE FALSE
  OBVIOUS
<1> DEFINE n == Len(p)
           Out(i) == Up \in ToSet(c[i])
           T == {i \in 0..n : i >= k => Out(i)}
<1>1. n \in Nat
  BY LenProperties
<1>2. /\ c \in [0..n -> Seq(S)] /\ \A i \in 1..n : c[i] = followed(c[i - 1], p[i])
      /\ Cleaned(p) = c[n]
  BY Zenon DEF Leads
<1>3. k \in 0..n
  OBVIOUS
<1>4. ASSUME NEW i \in 1..n, Out(i - 1) PROVE Out(i)
  <2> DEFINE out == c[i - 1]
             part == p[i]
  <2>1. c[i] = followed(out, part)
    BY <1>2, Zenon
  <2>2. out \in Seq(S) /\ part \in S
    <3>1. i - 1 \in 0..n
      BY <1>1
    <3>2. part \in S
      BY ElementOfSeq
    <3> QED
      BY <1>2, <3>1, <3>2, Zenon
  <2>3. Up \in ToSet(out)
    BY <1>4
  <2> HIDE DEF out, part
  <2>4. PICK x \in DOMAIN out : out[x] = Up
    BY <2>3, Zenon DEF ToSet
  <2>5. DOMAIN out = 1..Len(out) /\ Len(out) \in Nat
    BY <2>2, LenProperties
  <2>6. Up \in ToSet(Append(out, part)) /\ Up \in ToSet(Append(out, Up))
    <3>1. ASSUME NEW r PROVE Up \in ToSet(Append(out, r))
      <4>1. x \in DOMAIN Append(out, r) /\ Append(out, r)[x] = out[x]
        BY <2>2, <2>5
      <4> QED
        BY <2>4, <4>1, Zenon DEF ToSet
    <3> QED
      BY <3>1, Zenon
  <2>7. ASSUME Last(out) # Up PROVE Up \in ToSet(Front(out))
    <3>1. x # Len(out)
      BY <2>4, <2>7, Zenon DEF Last
    <3>2. x \in 1..(Len(out) - 1)
      BY <2>5, <3>1
    <3>3. DOMAIN Front(out) = 1..(Len(out) - 1) /\ Front(out)[x] = out[x]
      <4>1. Len(out) - 1 \in Nat
        BY <2>5, <3>2
      <4> QED
        BY <2>5, <3>2, <4>1 DEF Front
    <3> QED
      BY <2>4, <3>2, <3>3, Zenon DEF ToSet
  <2>8. Up \in ToSet(followed(out, part))
    <3>1. CASE part = Here
      BY <2>3, <3>1, FollowedKnown, Zenon
    <3>2. CASE part = Up
      BY <2>6, <2>7, <3>2, FollowedKnown, Zenon
    <3>3. CASE part \notin {Here, Up}
      BY <2>6, <3>3, FollowedKnown, Zenon
    <3> QED
      BY <3>1, <3>2, <3>3, Zenon
  <2> QED
    BY <2>1, <2>8, Zenon
<1> HIDE DEF n, Out
<1>5. Out(k)
  BY DEF Out
<1>6. 0 \in T
  BY <1>1, <1>3, <1>5
<1>7. ASSUME NEW i \in 1..n, i - 1 \in T PROVE i \in T
  <2>1. i \in 0..n /\ (i < k \/ i = k \/ i - 1 >= k)
    BY <1>1, <1>3
  <2> QED
    BY <1>3, <1>4, <1>5, <1>7, <2>1
<1> HIDE DEF T
<1>8. \A i \in 0..n : i \in T
  BY <1>1, <1>6, <1>7, CountUp, Zenon
<1>9. n \in 0..n /\ n >= k
  BY <1>1, <1>3
<1>10. Out(n)
  BY <1>8, <1>9 DEF T
<1> QED
  BY <1>2, <1>10, Zenon DEF Out

\* How far each part goes, where the path never leaves.
LEMMA GoesBy ==
  ASSUME NEW S, NEW p \in Seq(S), NEW c, Leads(c, S, p), Up \notin ToSet(Cleaned(p)),
         NEW i \in 1..Len(p)
  PROVE  /\ Len(c[i - 1]) \in Nat /\ Len(c[i]) \in Nat
         /\ p[i] = Here => Len(c[i]) = Len(c[i - 1])
         /\ p[i] = Up => Len(c[i]) = Len(c[i - 1]) - 1
         /\ p[i] \notin {Here, Up} => Len(c[i]) = Len(c[i - 1]) + 1
<1> DEFINE n == Len(p)
           out == c[i - 1]
           part == p[i]
<1>1. n \in Nat
  BY LenProperties
<1>2. i - 1 \in 0..n /\ i \in 0..n /\ i \in 1..n
  BY <1>1
<1>3. c \in [0..n -> Seq(S)] /\ c[i] = followed(out, part)
  BY <1>2, Zenon DEF Leads
<1>4. out \in Seq(S) /\ c[i] \in Seq(S) /\ part \in S
  <2>1. part \in S
    BY ElementOfSeq
  <2> QED
    BY <1>2, <1>3, <2>1, Zenon
<1>5. Up \notin ToSet(c[i])
  BY <1>2, NeverOut, Zenon
<1> HIDE DEF n, out, part
<1>6. ASSUME NEW r PROVE Len(Append(out, r)) = Len(out) + 1 /\ r \in ToSet(Append(out, r))
  <2>1. Len(out) \in Nat
    BY <1>4, LenProperties
  <2>2. Len(Append(out, r)) = Len(out) + 1
    BY <1>4
  <2>3. Len(out) + 1 \in DOMAIN Append(out, r) /\ Append(out, r)[Len(out) + 1] = r
    BY <1>4, <2>1
  <2> QED
    BY <2>2, <2>3, Zenon DEF ToSet
<1>7. Len(out) \in Nat /\ Len(c[i]) \in Nat
  BY <1>4, LenProperties
<1>8. part = Here => Len(c[i]) = Len(out)
  BY <1>3, FollowedKnown, Zenon
<1>9. ASSUME part \notin {Here, Up} PROVE Len(c[i]) = Len(out) + 1
  <2>1. followed(out, part) = Append(out, part)
    BY <1>9, FollowedKnown, Zenon
  <2> QED
    BY <1>3, <1>6, <2>1, Zenon
<1>10. ASSUME part = Up PROVE Len(c[i]) = Len(out) - 1
  <2>1. out # <<>> /\ c[i] = Front(out)
    BY <1>3, <1>5, <1>6, <1>10, FollowedKnown, Zenon
  <2>2. Len(out) - 1 \in Nat
    BY <1>4, <2>1
  <2>3. \A j \in 1..(Len(out) - 1) : out[j] \in S
    BY <1>4
  <2> DEFINE m == Len(out) - 1
  <2> HIDE DEF m
  <2>4. c[i] = SubSeq(out, 1, m) /\ \A j \in 1..m : out[j] \in S
    BY <2>1, <2>3, Zenon DEF Front, m
  <2>5. m \in Nat
    BY <2>2 DEF m
  <2>6. Len(SubSeq(out, 1, m)) = IF 1 <= m THEN m - 1 + 1 ELSE 0
    BY <2>4, <2>5, SubSeqProperties
  <2>7. Len(c[i]) = m
    BY <2>4, <2>5, <2>6
  <2> QED
    BY <2>7 DEF m
<1> QED
  BY <1>7, <1>8, <1>9, <1>10, Zenon DEF out, part

\* How deep it has come by then is what it came to.
LEMMA DepthIsKept ==
  ASSUME NEW S, NEW p \in Seq(S), NEW c, Leads(c, S, p), Up \notin ToSet(Cleaned(p)),
         NEW k \in 1..Len(p)
  PROVE  Depth(SubSeq(p, 1, k)) >= 0
<1> DEFINE n == Len(p)
           Downs(i) == {j \in 1..i : p[j] \notin {Here, Up}}
           Ups(i) == {j \in 1..i : p[j] = Up}
           Deep(i) == /\ IsFiniteSet(Downs(i)) /\ IsFiniteSet(Ups(i))
                      /\ Cardinality(Downs(i)) - Cardinality(Ups(i)) = Len(c[i])
           T == {i \in 0..n : Deep(i)}
<1>1. n \in Nat /\ k \in 1..n
  BY LenProperties
<1>2. Deep(0)
  <2>1. Downs(0) = {} /\ Ups(0) = {}
    OBVIOUS
  <2>2. c[0] = <<>>
    BY Zenon DEF Leads
  <2>3. Len(c[0]) = 0
    BY <2>2
  <2> QED
    BY <2>1, <2>3, FS_EmptySet
<1>3. ASSUME NEW i \in 1..n, Deep(i - 1) PROVE Deep(i)
  <2>0. i \in Nat /\ i \in 1..i /\ i \notin 1..(i - 1) /\ \A j \in 1..i : j = i \/ j \in 1..(i - 1)
    BY <1>1
  <2>0a. \A j \in 1..(i - 1) : j \in 1..i
    BY <1>1
  <2>1. /\ Len(c[i - 1]) \in Nat /\ Len(c[i]) \in Nat
        /\ p[i] = Here => Len(c[i]) = Len(c[i - 1])
        /\ p[i] = Up => Len(c[i]) = Len(c[i - 1]) - 1
        /\ p[i] \notin {Here, Up} => Len(c[i]) = Len(c[i - 1]) + 1
    <3>1. i \in 1..Len(p)
      BY <1>3, Zenon
    <3> QED
      BY <3>1, GoesBy
  <2>2. IsFiniteSet(Downs(i - 1)) /\ IsFiniteSet(Ups(i - 1))
    BY <1>3, Zenon
  <2>3. Cardinality(Downs(i - 1)) \in Nat /\ Cardinality(Ups(i - 1)) \in Nat
    BY <2>2, FS_CardinalityType, Zenon
  <2>4. i \notin Downs(i - 1) /\ i \notin Ups(i - 1)
    BY <2>0, Zenon
  <2>5. /\ p[i] \notin {Here, Up} => Downs(i) = Downs(i - 1) \cup {i}
        /\ p[i] \in {Here, Up} => Downs(i) = Downs(i - 1)
    BY <2>0, <2>0a, Zenon
  <2>6. /\ p[i] = Up => Ups(i) = Ups(i - 1) \cup {i}
        /\ p[i] # Up => Ups(i) = Ups(i - 1)
    BY <2>0, <2>0a, Zenon
  <2>7. Here # Up
    BY DEF Here, Up
  <2> DEFINE d0 == Downs(i - 1)
             d1 == Downs(i)
             u0 == Ups(i - 1)
             u1 == Ups(i)
             l0 == Len(c[i - 1])
             l1 == Len(c[i])
  <2>8. Cardinality(d0) - Cardinality(u0) = l0
    BY <1>3, Zenon
  <2>9. /\ IsFiniteSet(d0 \cup {i}) /\ Cardinality(d0 \cup {i}) = Cardinality(d0) + 1
        /\ IsFiniteSet(u0 \cup {i}) /\ Cardinality(u0 \cup {i}) = Cardinality(u0) + 1
    <3> HIDE DEF d0, u0
    <3>1. IsFiniteSet(d0) /\ IsFiniteSet(u0) /\ i \notin d0 /\ i \notin u0
      BY <2>2, <2>4, Zenon DEF d0, u0
    <3> QED
      BY <3>1, FS_AddElement
  <2>10. IsFiniteSet(d1) /\ IsFiniteSet(u1) /\ Cardinality(d1) - Cardinality(u1) = l1
    <3> HIDE DEF d0, u0, d1, u1, l0, l1
    <3>1. CASE p[i] = Here
      <4>1. d1 = d0 /\ u1 = u0 /\ l1 = l0
        BY <2>1, <2>5, <2>6, <2>7, <3>1, Zenon DEF d0, d1, u0, u1, l0, l1
      <4>2. IsFiniteSet(d0) /\ IsFiniteSet(u0)
        BY <2>2, Zenon DEF d0, u0
      <4> QED
        BY <2>8, <4>1, <4>2, Zenon
    <3>2. CASE p[i] = Up
      <4>1. d1 = d0 /\ u1 = u0 \cup {i} /\ l1 = l0 - 1
        BY <2>1, <2>5, <2>6, <2>7, <3>2, Zenon DEF d0, d1, u0, u1, l0, l1
      <4>2. IsFiniteSet(d0) /\ Cardinality(d0) \in Nat /\ Cardinality(u0) \in Nat
        BY <2>2, <2>3, Zenon DEF d0, u0
      <4>3. IsFiniteSet(d1) /\ IsFiniteSet(u1) /\ Cardinality(d1) = Cardinality(d0)
            /\ Cardinality(u1) = Cardinality(u0) + 1
        BY <2>9, <4>1, <4>2, Zenon
      <4> QED
        BY <2>8, <4>1, <4>2, <4>3
    <3>3. CASE p[i] \notin {Here, Up}
      <4>1. d1 = d0 \cup {i} /\ u1 = u0 /\ l1 = l0 + 1
        BY <2>1, <2>5, <2>6, <2>7, <3>3, Zenon DEF d0, d1, u0, u1, l0, l1
      <4>2. IsFiniteSet(u0) /\ Cardinality(d0) \in Nat /\ Cardinality(u0) \in Nat
        BY <2>2, <2>3, Zenon DEF d0, u0
      <4>3. IsFiniteSet(d1) /\ IsFiniteSet(u1) /\ Cardinality(d1) = Cardinality(d0) + 1
            /\ Cardinality(u1) = Cardinality(u0)
        BY <2>9, <4>1, <4>2, Zenon
      <4> QED
        BY <2>8, <4>1, <4>2, <4>3
    <3> QED
      BY <3>1, <3>2, <3>3, Zenon
  <2> QED
    BY <2>10, Zenon
<1> HIDE DEF n, Deep
<1>4. 0 \in T
  BY <1>1, <1>2
<1>5. ASSUME NEW i \in 1..n, i - 1 \in T PROVE i \in T
  <2>1. i \in 0..n
    BY <1>1
  <2> QED
    BY <1>3, <1>5, <2>1, Zenon
<1> HIDE DEF T
<1>6. \A i \in 0..n : i \in T
  BY <1>1, <1>4, <1>5, CountUp, Zenon
<1>7. k \in 0..n /\ k - 1 \in 0..n
  BY <1>1
<1>8. Deep(k)
  BY <1>6, <1>7, Zenon DEF T
<1>9. Len(c[k]) \in Nat
  BY GoesBy, Zenon
<1> DEFINE q == SubSeq(p, 1, k)
<1>10. DOMAIN q = 1..k /\ \A j \in 1..k : q[j] = p[j]
  <2>1. k \in Nat /\ k <= n
    BY <1>1
  <2>2. k \in Nat /\ k <= Len(p)
    BY <2>1, Zenon DEF n
  <2> QED
    BY <2>2
<1>11. Depth(q) = Cardinality(Downs(k)) - Cardinality(Ups(k))
  <2> HIDE DEF q
  <2>1. /\ {j \in DOMAIN q : q[j] \notin {".", ".."}} = Downs(k)
        /\ {j \in DOMAIN q : q[j] = ".."} = Ups(k)
    BY <1>10, Zenon DEF Here, Up
  <2> QED
    BY <2>1, Zenon DEF Depth
<1>12. Cardinality(Downs(k)) - Cardinality(Ups(k)) = Len(c[k])
  BY <1>8, Zenon DEF Deep
<1> DEFINE d == Depth(q)
           l == Len(c[k])
<1>13. d = l /\ l \in Nat
  BY <1>9, <1>11, <1>12, Zenon
<1> HIDE DEF d, l
<1>14. d >= 0
  BY <1>13
<1> QED
  BY <1>14 DEF d

\* A path that does not escape never leaves.
LEMMA NoEscape ==
  ASSUME NEW p, IsText(p), ~escapes(p), NEW i \in DOMAIN p
  PROVE  p[1] # "/" /\ Depth(SubSeq(p, 1, i)) >= 0
<1> DEFINE S == ToSet(p)
<1>1. p \in Seq(S) /\ DOMAIN p = 1..Len(p)
  BY TextDomain, Zenon
<1> HIDE DEF S
<1>2. PICK c : Leads(c, S, p)
  BY <1>1, FollowedByParts, Zenon
<1>3. p[1] # "/" /\ Up \notin ToSet(Cleaned(p))
  BY Zenon DEF escapes, Up
<1> QED
  BY <1>1, <1>2, <1>3, DepthIsKept, Zenon
-----------------------------------------------------------------------------
(***************************************************************************)
(* What a configuration is made of: entries whose values are typed.        *)
(***************************************************************************)
\* An entry, and all the entries of a configuration.
Fitting(e) == \A k \in DOMAIN e : Typed(k, e[k])
AllFit(m) == \A section \in Sections : \A n \in DOMAIN m[section] : Fitting(m[section][n])

\* What comes of one entry over another.
Covers(h, f, g) ==
  /\ DOMAIN h = DOMAIN f \cup DOMAIN g
  /\ \A k \in DOMAIN f : h[k] = f[k]
  /\ \A k \in DOMAIN g : k \notin DOMAIN f => h[k] = g[k]
  /\ h = [k \in DOMAIN h |-> h[k]]

\* That is what Overlaid makes.
LEMMA OverlaidKnown ==
  ASSUME NEW f, NEW g
  PROVE  Covers(Overlaid(f, g), f, g)
BY DEF Overlaid, Covers

\* A typed entry over another is typed.
LEMMA OverFits ==
  ASSUME NEW f, NEW g, Fitting(f), Fitting(g)
  PROVE  Fitting(Overlaid(f, g))
<1> DEFINE h == Overlaid(f, g)
<1>1. Covers(h, f, g)
  BY OverlaidKnown, Zenon
<1> HIDE DEF h
<1>2. \A k \in DOMAIN h : Typed(k, h[k])
  BY <1>1, Zenon DEF Fitting, Covers
<1> QED
  BY <1>2, Zenon DEF Fitting, h

\* A step over one keeps the preset's model with the preset's provider.
LEMMA StepOver ==
  ASSUME NEW step, NEW base, TypedStep(step), TypedStep(base)
  PROVE  TypedStep(Overlaid(step, withoutProviderSettings(base, step)))
<1> DEFINE b == withoutProviderSettings(base, step)
           s == Overlaid(step, b)
           Others == {"model", "vendor"}
           own == scalarValue(step, "provider")
           kept == own \in {"", scalarValue(base, "provider")}
<1>1. /\ kept => b = base
      /\ ~kept => b = [k \in DOMAIN base \ Others |-> base[k]]
  BY Zenon DEF withoutProviderSettings
<1> HIDE DEF kept
<1>2. DOMAIN b \subseteq DOMAIN base /\ \A k \in DOMAIN b : b[k] = base[k]
  <2> HIDE DEF b
  <2> QED
    BY <1>1
<1>3. "model" \in DOMAIN b => kept
  <2>1. "model" \in Others
    OBVIOUS
  <2> HIDE DEF b, Others
  <2>2. ASSUME ~kept
        PROVE  "model" \notin DOMAIN b
    <3>1. b = [k \in DOMAIN base \ Others |-> base[k]]
      BY <1>1, <2>2, Zenon
    <3>2. DOMAIN b = DOMAIN base \ Others
      BY <3>1
    <3> QED
      BY <2>1, <3>2, Zenon
  <2> QED
    BY <2>2, Zenon
<1>3a. "model" \in DOMAIN b => b = base
  BY <1>1, <1>3, Zenon
<1> HIDE DEF b, Others
<1>4. /\ DOMAIN s = DOMAIN step \cup DOMAIN b
      /\ \A k \in DOMAIN step : s[k] = step[k]
      /\ \A k \in DOMAIN b : k \notin DOMAIN step => s[k] = b[k]
      /\ s = [k \in DOMAIN s |-> s[k]]
  BY OverlaidKnown, Zenon DEF Covers
<1> HIDE DEF s
<1>5. "role" \in DOMAIN s => IsText(s.role)
  BY <1>2, <1>4, Zenon DEF TypedStep
<1>6. ASSUME "model" \in DOMAIN s, s.model = "sonnet"
      PROVE  "provider" \in DOMAIN s /\ s.provider \in {"claude", ""}
  <2>1. CASE "model" \in DOMAIN step
    <3>1. step.model = "sonnet"
      BY <1>4, <1>6, <2>1, Zenon
    <3>2. "provider" \in DOMAIN step /\ step.provider \in {"claude", ""}
      BY <2>1, <3>1, Zenon DEF TypedStep
    <3> QED
      BY <1>4, <3>2, Zenon
  <2>2. CASE "model" \notin DOMAIN step
    <3>1. "model" \in DOMAIN b
      BY <1>4, <1>6, <2>2, Zenon
    <3>2. b = base /\ b.model = "sonnet"
      BY <1>3a, <1>4, <1>6, <2>2, <3>1, Zenon
    <3>3. "provider" \in DOMAIN base /\ base.provider \in {"claude", ""}
      BY <3>1, <3>2, Zenon DEF TypedStep
    <3>4. CASE "provider" \in DOMAIN step
      <4>1. own = step.provider /\ scalarValue(base, "provider") = base.provider
        BY <3>3, <3>4, Zenon DEF scalarValue
      <4>2. own \in {"", scalarValue(base, "provider")}
        BY <1>3, <3>1, Zenon DEF kept
      <4>3. step.provider \in {"claude", ""}
        BY <3>3, <4>1, <4>2, Zenon
      <4> QED
        BY <1>4, <3>4, <4>3, Zenon
    <3>5. CASE "provider" \notin DOMAIN step
      BY <1>4, <3>2, <3>3, <3>5, Zenon
    <3> QED
      BY <3>4, <3>5, Zenon
  <2> QED
    BY <2>1, <2>2, Zenon
<1> QED
  BY <1>4, <1>5, <1>6, Zenon DEF TypedStep, s, b
-----------------------------------------------------------------------------
(***************************************************************************)
(* Merging.                                                                *)
(***************************************************************************)
\* The steps that some keys and values can be made into.
Steps(K, V) == {s \in UNION {[D -> V] : D \in SUBSET K} : TypedStep(s)}

\* Which those are.
LEMMA StepIsOne ==
  ASSUME NEW K, NEW V, NEW s
  PROVE  s \in Steps(K, V) <=>
           TypedStep(s) /\ DOMAIN s \subseteq K /\ \A k \in DOMAIN s : s[k] \in V
<1>1. ASSUME s \in Steps(K, V)
      PROVE  TypedStep(s) /\ DOMAIN s \subseteq K /\ \A k \in DOMAIN s : s[k] \in V
  <2>1. TypedStep(s) /\ s \in UNION {[D -> V] : D \in SUBSET K}
    BY <1>1, Zenon DEF Steps
  <2>2. PICK D \in SUBSET K : s \in [D -> V]
    BY <2>1, Zenon
  <2> QED
    BY <2>1, <2>2
<1>2. ASSUME TypedStep(s), DOMAIN s \subseteq K, \A k \in DOMAIN s : s[k] \in V
      PROVE  s \in Steps(K, V)
  <2>1. s = [k \in DOMAIN s |-> s[k]]
    BY <1>2, Zenon DEF TypedStep
  <2>2. s \in [DOMAIN s -> V] /\ DOMAIN s \in SUBSET K
    BY <1>2, <2>1
  <2> QED
    BY <1>2, <2>2, Zenon DEF Steps
<1> QED
  BY <1>1, <1>2, Zenon

\* What a step over one is made of.
LEMMA StepOverIsOne ==
  ASSUME NEW K, NEW V, NEW step \in Steps(K, V), NEW base \in Steps(K, V)
  PROVE  Overlaid(step, withoutProviderSettings(base, step)) \in Steps(K, V)
<1> DEFINE b == withoutProviderSettings(base, step)
           s == Overlaid(step, b)
<1>1. /\ TypedStep(step) /\ DOMAIN step \subseteq K /\ \A k \in DOMAIN step : step[k] \in V
      /\ TypedStep(base) /\ DOMAIN base \subseteq K /\ \A k \in DOMAIN base : base[k] \in V
  BY StepIsOne, Zenon
<1>2. TypedStep(s)
  BY <1>1, StepOver, Zenon
<1>3. DOMAIN b \subseteq K /\ \A k \in DOMAIN b : b[k] \in V
  <2> DEFINE Others == {"model", "vendor"}
  <2>1. b \in {base, [k \in DOMAIN base \ Others |-> base[k]]}
    BY Zenon DEF withoutProviderSettings
  <2> HIDE DEF b, Others
  <2> QED
    BY <1>1, <2>1
<1> HIDE DEF b
<1>4. Covers(s, step, b)
  BY OverlaidKnown, Zenon
<1> HIDE DEF s
<1>5. DOMAIN s \subseteq K /\ \A k \in DOMAIN s : s[k] \in V
  BY <1>1, <1>3, <1>4, Zenon DEF Covers
<1>6. s \in Steps(K, V)
  BY <1>2, <1>5, StepIsOne, Zenon
<1> QED
  BY <1>6, Zenon DEF s, b

\* A step is merged into the others, or follows them.
LEMMA StepMerged ==
  ASSUME NEW K, NEW V, NEW out \in Seq(Steps(K, V)), NEW step \in Steps(K, V)
  PROVE  mergeStep(out, step) \in Seq(Steps(K, V))
<1> DEFINE U == Steps(K, V)
           name == scalarValue(step, "name")
           same == {i \in DOMAIN out : name # "" /\ scalarValue(out[i], "name") = name}
           first == CHOOSE i \in same : \A j \in same : i <= j
           v == Overlaid(step, withoutProviderSettings(out[first], step))
<1>1. mergeStep(out, step) = IF same = {} THEN Append(out, step) ELSE [out EXCEPT ![first] = v]
  BY Zenon DEF mergeStep
<1>2. DOMAIN out = 1..Len(out) /\ Len(out) \in Nat /\ \A i \in DOMAIN out : out[i] \in U
  <2> HIDE DEF U
  <2>1. out \in Seq(U)
    BY Zenon DEF U
  <2> QED
    BY <2>1, TypedText, Zenon DEF IsText
<1>3. same \in SUBSET Nat /\ same \subseteq DOMAIN out
  <2>1. same \subseteq DOMAIN out
    BY Zenon
  <2> HIDE DEF same
  <2> QED
    BY <1>2, <2>1
<1> HIDE DEF same
<1>4. ASSUME same # {} PROVE first \in DOMAIN out
  <2>1. \E i \in same : \A j \in same : i <= j
    BY <1>3, <1>4, LeastNumber, Zenon
  <2>2. first \in same
    BY <2>1, Zenon
  <2> QED
    BY <1>3, <2>2, Zenon
<1> HIDE DEF first
<1>5. ASSUME same # {} PROVE v \in U
  BY <1>2, <1>4, <1>5, StepOverIsOne, Zenon
<1> HIDE DEF v
<1>6. out \in Seq(U) /\ step \in U
  BY Zenon
<1> HIDE DEF U
<1>7. Append(out, step) \in Seq(U)
  BY <1>6, AppendProperties
<1>8. ASSUME same # {} PROVE [out EXCEPT ![first] = v] \in Seq(U)
  BY <1>4, <1>5, <1>6, <1>8
<1> QED
  BY <1>1, <1>7, <1>8, Zenon DEF U

\* The steps of one file are merged into those of another, one by one.
LEMMA StepsMerged ==
  ASSUME NEW K, NEW V, NEW base \in Seq(Steps(K, V)), NEW over \in Seq(Steps(K, V))
  PROVE  mergeSteps(base, over) \in Seq(Steps(K, V))
<1> DEFINE n == Len(over)
           Body(f) == [i \in 0..n |-> IF i = 0 THEN base ELSE mergeStep(f[i - 1], over[i])]
           U == Steps(K, V)
           X == Seq(U)
           G == [i \in 1..n |-> [x \in X |-> mergeStep(x, over[i])]]
           c == CHOOSE f : f = Body(f)
<1>1. n \in Nat /\ base \in X
  BY LenProperties
<1>2. \A i \in 1..n : \A x \in X : mergeStep(x, over[i]) \in X
  <2>1. \A i \in 1..n : over[i] \in U
    <3> HIDE DEF U
    <3>1. over \in Seq(U)
      BY Zenon DEF U
    <3> QED
      BY <3>1, ElementOfSeq
  <2> QED
    BY <2>1, StepMerged, Zenon
<1>3. mergeSteps(base, over) = c[n]
  BY Zenon DEF mergeSteps
<1>4. G \in Ways(n, X)
  <2> HIDE DEF n, X
  <2> QED
    BY <1>2 DEF Ways
<1>5. \A i \in 1..n : \A x \in X : G[i][x] = mergeStep(x, over[i])
  BY Zenon
<1> HIDE DEF n, X, U, G
<1>6. PICK f \in [0..n -> X] : GoesOn(f, n, base, G)
  BY <1>1, <1>4, Recursion, Zenon
<1>7. f[0] = base /\ \A i \in 1..n : f[i] = mergeStep(f[i - 1], over[i])
  <2>1. f[0] = base /\ \A i \in 1..n : f[i] = G[i][f[i - 1]]
    BY <1>6, Zenon DEF GoesOn
  <2>2. \A i \in 1..n : f[i - 1] \in X
    BY <1>1
  <2> QED
    BY <1>5, <2>1, <2>2, Zenon
<1>8. f = Body(f)
  <2>1. ASSUME NEW i \in 0..n
        PROVE  f[i] = IF i = 0 THEN base ELSE mergeStep(f[i - 1], over[i])
    <3>1. i = 0 \/ i \in 1..n
      BY <1>1
    <3>2. i \in 1..n => i # 0
      OBVIOUS
    <3> QED
      BY <1>7, <3>1, <3>2, Zenon
  <2> QED
    BY <2>1
<1>9. c = Body(c)
  BY <1>8, Zenon
<1> HIDE DEF c
<1>10. DOMAIN c = 0..n /\ c = [i \in DOMAIN c |-> c[i]]
  BY <1>9
<1>11. \A i \in 0..n : c[i] = IF i = 0 THEN base ELSE mergeStep(c[i - 1], over[i])
  BY <1>9
<1>12. c[0] \in X
  BY <1>1, <1>11
<1>13. \A i \in 1..n : c[i] = mergeStep(c[i - 1], over[i])
  <2>1. \A i \in 1..n : i \in 0..n /\ i # 0
    BY <1>1
  <2> QED
    BY <1>11, <2>1, Zenon
<1>14. \A i \in 1..n : c[i - 1] \in X => c[i] \in X
  BY <1>2, <1>13, Zenon
<1>15. c \in [0..n -> X]
  BY <1>1, <1>10, <1>12, <1>14, Ranged, Zenon
<1>16. c[n] \in X
  BY <1>1, <1>15
<1> QED
  BY <1>3, <1>16, Zenon DEF X, U
\* What there is to a list of steps.
LEMMA StepsTyped ==
  ASSUME NEW v
  PROVE  Typed("steps", v) <=> IsText(v) /\ \A i \in DOMAIN v : TypedStep(v[i])
BY DEF Typed

\* What is empty is typed, and so are the steps by themselves.
LEMMA LittleFits ==
  /\ Fitting(<<>>)
  /\ \A v : Typed("steps", v) => Fitting([steps |-> v])
<1>1. DOMAIN <<>> = {}
  OBVIOUS
<1>2. ASSUME NEW v, Typed("steps", v) PROVE Fitting([steps |-> v])
  <2> DEFINE e == [steps |-> v]
  <2>1. \A k \in DOMAIN e : k = "steps" /\ e[k] = v
    OBVIOUS
  <2> HIDE DEF e
  <2>2. Fitting(e)
    BY <1>2, <2>1, Zenon DEF Fitting
  <2> QED
    BY <2>2, Zenon DEF e
<1> QED
  BY <1>1, <1>2, Zenon DEF Fitting

\* The steps of one list merged into another's are typed.
LEMMA MergedStepsTyped ==
  ASSUME NEW base, NEW over, Typed("steps", base), Typed("steps", over)
  PROVE  Typed("steps", mergeSteps(base, over))
<1> DEFINE All == ToSet(base) \cup ToSet(over)
           K == UNION {DOMAIN s : s \in All}
           V == UNION {{s[k] : k \in DOMAIN s} : s \in All}
           m == mergeSteps(base, over)
<1>1. /\ IsText(base) /\ \A i \in DOMAIN base : TypedStep(base[i])
      /\ IsText(over) /\ \A i \in DOMAIN over : TypedStep(over[i])
  BY StepsTyped, Zenon
<1>2. \A s \in All : TypedStep(s)
  BY <1>1, Zenon DEF ToSet
<1>3. \A s \in All : s \in Steps(K, V)
  <2> SUFFICES ASSUME NEW s \in All PROVE s \in Steps(K, V)
    BY Zenon
  <2>1. DOMAIN s \subseteq K /\ \A k \in DOMAIN s : s[k] \in V
    <3> HIDE DEF All
    <3> DEFINE ks == DOMAIN s
               vs == {s[k] : k \in DOMAIN s}
    <3>1. ks \in {DOMAIN x : x \in All} /\ vs \in {{x[k] : k \in DOMAIN x} : x \in All}
      BY Zenon
    <3>2. \A k \in DOMAIN s : s[k] \in vs
      BY Zenon
    <3> HIDE DEF vs
    <3>3. ks \subseteq K /\ vs \subseteq V
      BY <3>1, Zenon
    <3> QED
      BY <3>2, <3>3, Zenon
  <2> HIDE DEF K, V
  <2> QED
    BY <1>2, <2>1, StepIsOne, Zenon
<1> HIDE DEF K, V
<1>4. ToSet(base) \subseteq Steps(K, V) /\ ToSet(over) \subseteq Steps(K, V)
  BY <1>3, Zenon
<1>5. base \in Seq(Steps(K, V)) /\ over \in Seq(Steps(K, V))
  BY <1>1, <1>4, MoreTyped, Zenon
<1>6. m \in Seq(Steps(K, V))
  BY <1>5, StepsMerged, Zenon
<1> HIDE DEF m
<1>7. IsText(m) /\ \A i \in DOMAIN m : TypedStep(m[i])
  <2>1. IsText(m) /\ \A i \in DOMAIN m : m[i] \in Steps(K, V)
    BY <1>6, TypedText, Zenon
  <2> QED
    BY <2>1, StepIsOne, Zenon
<1> QED
  BY <1>7, StepsTyped, Zenon DEF m

\* An entry merged into one is typed.
LEMMA MappingFits ==
  ASSUME NEW base, NEW over, Fitting(base), Fitting(over)
  PROVE  Fitting(mergeMapping(base, over))
<1> DEFINE both == {"steps"} \subseteq DOMAIN base \cap DOMAIN over
           steps == IF both THEN [steps |-> mergeSteps(base.steps, over.steps)] ELSE <<>>
<1>1. mergeMapping(base, over) = Overlaid(steps, Overlaid(over, base))
  BY Zenon DEF mergeMapping
<1>2. Fitting(steps)
  <2>1. ASSUME both PROVE Typed("steps", mergeSteps(base.steps, over.steps))
    <3>1. Typed("steps", base.steps) /\ Typed("steps", over.steps)
      BY <2>1, Zenon DEF Fitting
    <3> QED
      BY <3>1, MergedStepsTyped, Zenon
  <2> QED
    BY <2>1, LittleFits, Zenon
<1> HIDE DEF steps
<1>3. Fitting(Overlaid(over, base))
  BY OverFits, Zenon
<1> QED
  BY <1>1, <1>2, <1>3, OverFits, Zenon

\* A configuration merged into one is typed.
LEMMA NodeFits ==
  ASSUME NEW base, NEW over, AllFit(base), AllFit(over)
  PROVE  AllFit(mergeNode(base, over))
<1> SUFFICES ASSUME NEW section \in Sections, NEW n \in DOMAIN mergeNode(base, over)[section]
             PROVE  Fitting(mergeNode(base, over)[section][n])
  BY Zenon DEF AllFit
<1> DEFINE b == base[section]
           o == over[section]
           m == mergeNode(base, over)[section]
           e == CASE n \notin DOMAIN o -> b[n]
                  [] n \notin DOMAIN b -> o[n]
                  [] OTHER -> mergeMapping(b[n], o[n])
<1>1. m = [x \in DOMAIN b \cup DOMAIN o |->
            CASE x \notin DOMAIN o -> b[x]
              [] x \notin DOMAIN b -> o[x]
              [] OTHER -> mergeMapping(b[x], o[x])]
  BY Zenon DEF mergeNode
<1>2. n \in DOMAIN b \cup DOMAIN o
  BY <1>1, Zenon
<1>3. m[n] = e
  BY <1>1, <1>2, Zenon
<1>4. /\ \A x \in DOMAIN b : Fitting(b[x])
      /\ \A x \in DOMAIN o : Fitting(o[x])
  BY Zenon DEF AllFit
<1> HIDE DEF b, o, m
<1>5. CASE n \notin DOMAIN o
  BY <1>2, <1>3, <1>4, <1>5, Zenon DEF m
<1>6. CASE n \in DOMAIN o /\ n \notin DOMAIN b
  BY <1>3, <1>4, <1>6, Zenon DEF m
<1>7. CASE n \in DOMAIN o /\ n \in DOMAIN b
  BY <1>3, <1>4, <1>7, MappingFits, Zenon DEF m
<1> QED
  BY <1>5, <1>6, <1>7, Zenon
-----------------------------------------------------------------------------
(***************************************************************************)
(* What is written.                                                        *)
(***************************************************************************)
\* The settings of a file.
Written(F) ==
  /\ IsFiniteSet(F)
  /\ \A s \in F : Fitting(s.entry)
  /\ \A s \in F : s.section = "steps" => "model" \notin DOMAIN s.entry \/ s.entry.model # "sonnet"

\* What a function makes of a finite set is finite.
LEMMA ImageFinite ==
  ASSUME NEW f, IsFiniteSet(DOMAIN f)
  PROVE  IsFiniteSet({f[x] : x \in DOMAIN f})
<1> DEFINE D == DOMAIN f
           T == {f[x] : x \in D}
           g == [x \in D |-> f[x]]
<1>1. g \in [D -> T] /\ \A t \in T : \E x \in D : g[x] = t
  OBVIOUS
<1>2. IsFiniteSet(D)
  BY Zenon
<1> HIDE DEF D, T, g
<1>3. g \in Surjection(D, T)
  BY <1>1, Zenon DEF Surjection
<1>4. IsFiniteSet(T)
  BY <1>2, <1>3, FS_Surjection, Zenon
<1> QED
  BY <1>4, Zenon DEF T, D

\* A finite set in some order.
LEMMA SetInOrder ==
  ASSUME NEW S, IsFiniteSet(S)
  PROVE  Cardinality(S) \in Nat /\ SetToSeq(S) \in [1..Cardinality(S) -> S]
<1> DEFINE D == 1..Cardinality(S)
<1>1. Cardinality(S) \in Nat /\ Bijection(D, S) # {}
  BY FS_CardinalityType, Zenon DEF ExistsBijection
<1> HIDE DEF D
<1>2. \E f \in [D -> S] : IsInjective(f)
  BY <1>1, Zenon DEF Bijection, Injection
<1>3. SetToSeq(S) \in [D -> S]
  BY <1>2, Zenon DEF SetToSeq, D
<1> QED
  BY <1>1, <1>3, Zenon DEF D

\* An entry has what one of the settings says.
LEMMA EntryKnown ==
  ASSUME NEW F
  PROVE  /\ Entry(F) = [k \in DOMAIN Entry(F) |-> Entry(F)[k]]
         /\ \A k \in DOMAIN Entry(F) :
              \E s \in F : k \in DOMAIN s.entry /\ Entry(F)[k] = s.entry[k]
<1> DEFINE D == UNION {DOMAIN s.entry : s \in F}
           One(k) == CHOOSE s \in F : k \in DOMAIN s.entry
           e == Entry(F)
<1>1. e = [k \in D |-> One(k).entry[k]]
  BY Zenon DEF Entry
<1>2. \A k \in D : \E s \in F : k \in DOMAIN s.entry
  BY Zenon
<1>3. \A k \in D : One(k) \in F /\ k \in DOMAIN One(k).entry
  BY <1>2, Zenon
<1> HIDE DEF D, One, e
<1>4. DOMAIN e = D /\ \A k \in D : e[k] = One(k).entry[k]
  BY <1>1
<1>5. e = [k \in DOMAIN e |-> e[k]]
  BY <1>1
<1>6. \A k \in DOMAIN e : \E s \in F : k \in DOMAIN s.entry /\ e[k] = s.entry[k]
  BY <1>3, <1>4, Zenon
<1> QED
  BY <1>5, <1>6, Zenon DEF e

\* The settings of one name are typed together.
LEMMA EntryFits ==
  ASSUME NEW F, \A s \in F : Fitting(s.entry)
  PROVE  Fitting(Entry(F))
BY EntryKnown, Zenon DEF Fitting

\* A step that is written is typed.
LEMMA WrittenStepTyped ==
  ASSUME NEW F, \A s \in F : Fitting(s.entry), NEW name,
         \A s \in F : "model" \notin DOMAIN s.entry \/ s.entry.model # "sonnet"
  PROVE  TypedStep(Overlaid([name |-> name], Entry(F)))
<1> DEFINE f == [name |-> name]
           e == Entry(F)
           h == Overlaid(f, e)
<1>1. "role" \notin DOMAIN f /\ "model" \notin DOMAIN f
  OBVIOUS
<1>2. Fitting(e)
  BY EntryFits, Zenon
<1> HIDE DEF f, h
<1>3. "model" \notin DOMAIN e \/ e.model # "sonnet"
  <2>1. \A k \in DOMAIN e : \E s \in F : k \in DOMAIN s.entry /\ e[k] = s.entry[k]
    BY EntryKnown, Zenon
  <2> HIDE DEF e
  <2> SUFFICES ASSUME "model" \in DOMAIN e PROVE e.model # "sonnet"
    BY Zenon
  <2>2. PICK s \in F : "model" \in DOMAIN s.entry /\ e.model = s.entry.model
    BY <2>1, Zenon
  <2> QED
    BY <2>2, Zenon
<1> HIDE DEF e
<1>4. Covers(h, f, e)
  BY OverlaidKnown, Zenon DEF h
<1>5. "role" \in DOMAIN e => IsText(e.role)
  BY <1>2 DEF Fitting, Typed
<1>6. "role" \in DOMAIN h => IsText(h.role)
  BY <1>1, <1>4, <1>5, Zenon DEF Covers
<1>7. "model" \notin DOMAIN h \/ h.model # "sonnet"
  BY <1>1, <1>3, <1>4, Zenon DEF Covers
<1>8. h = [k \in DOMAIN h |-> h[k]]
  BY <1>4, Zenon DEF Covers
<1> QED
  <2>1. TypedStep(h)
    BY <1>6, <1>7, <1>8, Zenon DEF TypedStep
  <2> QED
    BY <2>1, Zenon DEF h, f, e

\* And so are all of them.
LEMMA WrittenStepsTyped ==
  ASSUME NEW F, Written(F)
  PROVE  Typed("steps", WrittenSteps(F))
<1> DEFINE steps == {s \in F : s.section = "steps"}
           names == SetToSeq({s.name : s \in steps})
           Of(i) == {s \in steps : s.name = names[i]}
           Step(i) == Overlaid([name |-> names[i]], Entry(Of(i)))
           w == WrittenSteps(F)
<1>1. w = [i \in DOMAIN names |-> Step(i)]
  BY Zenon DEF WrittenSteps
<1>2. /\ \A s \in steps : Fitting(s.entry)
      /\ \A s \in steps : "model" \notin DOMAIN s.entry \/ s.entry.model # "sonnet"
  BY Zenon DEF Written
<1>3. PICK n \in Nat : DOMAIN names = 1..n
  <2> DEFINE f == [s \in steps |-> s.name]
             S == {s.name : s \in steps}
  <2>1. IsFiniteSet(steps)
    <3>1. steps \in SUBSET F
      BY Zenon
    <3> HIDE DEF steps
    <3> QED
      BY <3>1, FS_Subset, Zenon DEF Written
  <2> HIDE DEF steps
  <2>2. DOMAIN f = steps /\ S = {f[x] : x \in DOMAIN f}
    OBVIOUS
  <2> HIDE DEF f
  <2>3. IsFiniteSet(S)
    BY <2>1, <2>2, ImageFinite, Zenon
  <2> HIDE DEF S
  <2>4. Cardinality(S) \in Nat /\ SetToSeq(S) \in [1..Cardinality(S) -> S]
    BY <2>3, SetInOrder, Zenon
  <2>5. DOMAIN SetToSeq(S) = 1..Cardinality(S)
    BY <2>4
  <2> QED
    BY <2>4, <2>5, Zenon DEF S
<1> HIDE DEF names
<1>4. \A i : TypedStep(Step(i))
  <2> SUFFICES ASSUME NEW i PROVE TypedStep(Step(i))
    OBVIOUS
  <2> DEFINE G == Of(i)
  <2>1. /\ \A s \in G : Fitting(s.entry)
        /\ \A s \in G : "model" \notin DOMAIN s.entry \/ s.entry.model # "sonnet"
    BY <1>2, Zenon
  <2> HIDE DEF G
  <2>2. TypedStep(Overlaid([name |-> names[i]], Entry(G)))
    BY <2>1, WrittenStepTyped, Zenon
  <2> QED
    BY <2>2, Zenon DEF G
<1> HIDE DEF Step, w
<1>5. w = [i \in 1..n |-> Step(i)]
  BY <1>1, <1>3, Zenon
<1>6. w \in Seq({Step(i) : i \in 1..n}) /\ DOMAIN w = 1..n /\ \A i \in 1..n : w[i] = Step(i)
  <2> DEFINE U == {Step(i) : i \in 1..n}
  <2>1. \A i \in 1..n : Step(i) \in U
    OBVIOUS
  <2> HIDE DEF U
  <2>2. w \in [1..n -> U] /\ DOMAIN w = 1..n /\ \A i \in 1..n : w[i] = Step(i)
    BY <1>5, <2>1
  <2>3. w \in Seq(U)
    BY <2>2, SeqDef
  <2> QED
    BY <2>2, <2>3, Zenon DEF U
<1>7. IsText(w)
  BY <1>6, TypedText, Zenon
<1>8. \A i \in DOMAIN w : TypedStep(w[i])
  BY <1>4, <1>6, Zenon
<1> QED
  BY <1>7, <1>8, StepsTyped, Zenon DEF w

\* What is read from a file is typed.
LEMMA DocumentFits ==
  ASSUME NEW F, Written(F)
  PROVE  AllFit(decodeDocument(F))
<1> DEFINE steps == WrittenSteps(F)
<1>1. Typed("steps", steps)
  BY WrittenStepsTyped, Zenon
<1> HIDE DEF steps
<1> SUFFICES ASSUME NEW section \in Sections, NEW n \in DOMAIN decodeDocument(F)[section]
             PROVE  Fitting(decodeDocument(F)[section][n])
  BY Zenon DEF AllFit
<1> DEFINE here == {s \in F : s.section = section}
           lists == IF section = "lifecycles" /\ steps # <<>> THEN {"sdlc"} ELSE {}
           Of(x) == {s \in here : s.name = x}
           more(x) == IF x \in lists THEN [steps |-> steps] ELSE <<>>
           names == {s.name : s \in here} \cup lists
           d == decodeDocument(F)[section]
<1>2. d = [x \in names |-> Overlaid(Entry(Of(x)), more(x))]
  BY Zenon DEF decodeDocument, steps
<1> HIDE DEF names
<1>3. d[n] = Overlaid(Entry(Of(n)), more(n))
  BY <1>2, Zenon
<1>4. \A s \in Of(n) : Fitting(s.entry)
  BY Zenon DEF Written
<1>5. Fitting(more(n))
  BY <1>1, LittleFits, Zenon
<1> HIDE DEF Of, more, d
<1>6. Fitting(Entry(Of(n)))
  BY <1>4, EntryFits, Zenon
<1>7. Fitting(d[n])
  BY <1>3, <1>5, <1>6, OverFits, Zenon
<1> QED
  BY <1>7, Zenon DEF d
-----------------------------------------------------------------------------
(***************************************************************************)
(* What is built in.                                                       *)
(***************************************************************************)
\* Texts of a few parts.
LEMMA ShortTexts ==
  /\ IsText(<<>>)
  /\ \A a : IsText(<<a>>)
  /\ \A a, b : IsText(<<a, b>>)
  /\ \A a, b, c : IsText(<<a, b, c>>) /\ \A s : s \in ToSet(<<a, b, c>>) => s \in {a, b, c}
<1>1. IsText(<<>>)
  <2>1. <<>> \in Seq({})
    OBVIOUS
  <2> QED
    BY <2>1, TypedText, Zenon
<1>2. ASSUME NEW a PROVE IsText(<<a>>)
  <2>1. <<a>> \in Seq({a})
    OBVIOUS
  <2> QED
    BY <2>1, TypedText, Zenon
<1>3. ASSUME NEW a, NEW b PROVE IsText(<<a, b>>)
  <2>1. <<a, b>> \in Seq({a, b})
    OBVIOUS
  <2> QED
    BY <2>1, TypedText, Zenon
<1>4. ASSUME NEW a, NEW b, NEW c PROVE IsText(<<a, b, c>>)
  <2>1. <<a, b, c>> \in Seq({a, b, c})
    OBVIOUS
  <2> QED
    BY <2>1, TypedText, Zenon
<1>5. ASSUME NEW a, NEW b, NEW c, NEW s \in ToSet(<<a, b, c>>) PROVE s \in {a, b, c}
  <2>1. \A i \in DOMAIN <<a, b, c>> : <<a, b, c>>[i] \in {a, b, c}
    OBVIOUS
  <2> QED
    BY <2>1, Zenon DEF ToSet
<1> QED
  BY <1>1, <1>2, <1>3, <1>4, <1>5, Zenon

\* The preset's steps are typed.
LEMMA PresetStepsTyped == Typed("steps", Preset.lifecycles.sdlc.steps)
<1> DEFINE plan == [name |-> "plan", provider |-> "claude", model |-> "sonnet",
                    role |-> <<"planner">>, readonly |-> TRUE, timeout |-> "30m"]
           change == [name |-> "engineer", provider |-> "claude", model |-> "sonnet",
                      role |-> <<"engineer">>, loop_with |-> "qa", max_iter |-> 5,
                      timeout |-> "60m"]
           verdict == [name |-> "qa", provider |-> "claude", model |-> "sonnet",
                       role |-> <<"qa">>, readonly |-> TRUE, timeout |-> "30m"]
<1>1. Preset.lifecycles.sdlc.steps = <<plan, change, verdict>>
  BY DEF Preset
<1>2. TypedStep(plan)
  <2>1. /\ plan = [k \in DOMAIN plan |-> plan[k]] /\ plan.role = <<"planner">>
        /\ "provider" \in DOMAIN plan /\ plan.provider = "claude"
    OBVIOUS
  <2> HIDE DEF plan
  <2> QED
    BY <2>1, ShortTexts, Zenon DEF TypedStep
<1>3. TypedStep(change)
  <2>1. /\ change = [k \in DOMAIN change |-> change[k]] /\ change.role = <<"engineer">>
        /\ "provider" \in DOMAIN change /\ change.provider = "claude"
    OBVIOUS
  <2> HIDE DEF change
  <2> QED
    BY <2>1, ShortTexts, Zenon DEF TypedStep
<1>4. TypedStep(verdict)
  <2>1. /\ verdict = [k \in DOMAIN verdict |-> verdict[k]] /\ verdict.role = <<"qa">>
        /\ "provider" \in DOMAIN verdict /\ verdict.provider = "claude"
    OBVIOUS
  <2> HIDE DEF verdict
  <2> QED
    BY <2>1, ShortTexts, Zenon DEF TypedStep
<1> HIDE DEF plan, change, verdict
<1> DEFINE v == <<plan, change, verdict>>
<1>5. IsText(v) /\ \A s : s \in ToSet(v) => s \in {plan, change, verdict}
  BY ShortTexts, Zenon
<1>6. \A i \in DOMAIN v : v[i] \in ToSet(v)
  BY Zenon DEF ToSet
<1> HIDE DEF v
<1>7. \A i \in DOMAIN v : TypedStep(v[i])
  BY <1>2, <1>3, <1>4, <1>5, <1>6, Zenon
<1>8. Typed("steps", v)
  BY <1>5, <1>7, StepsTyped, Zenon
<1> QED
  BY <1>1, <1>8, Zenon DEF v

\* What has to be typed.
Keys == {"root", "template", "branch", "role", "protected_paths", "steps"}

\* The preset is typed.
LEMMA PresetFits == AllFit(Preset)
<1>1. ASSUME NEW e, DOMAIN e \cap Keys = {} PROVE Fitting(e)
  <2>1. \A k, v : k \notin Keys => Typed(k, v)
    BY DEF Typed, Keys
  <2> QED
    BY <1>1, <2>1, Zenon DEF Fitting
<1>2. \A n \in DOMAIN Preset.top : Fitting(Preset.top[n])
  <2>1. \A n \in DOMAIN Preset.top : DOMAIN Preset.top[n] \cap Keys = {}
    BY DEF Preset, Keys
  <2> QED
    BY <1>1, <2>1, Zenon
<1>3. \A n \in DOMAIN Preset.providers : Fitting(Preset.providers[n])
  <2>1. \A n \in DOMAIN Preset.providers : DOMAIN Preset.providers[n] \cap Keys = {}
    BY DEF Preset, Keys
  <2> QED
    BY <1>1, <2>1, Zenon
<1>4. \A n \in DOMAIN Preset.executors : Fitting(Preset.executors[n])
  <2> DEFINE e == [type |-> "worktree", root |-> <<".loomlc", "worktrees">>, remote |-> "origin"]
  <2>1. \A n \in DOMAIN Preset.executors : Preset.executors[n] = e
    BY DEF Preset
  <2>2. \A k \in DOMAIN e : k \notin Keys \/ (k = "root" /\ e[k] = <<".loomlc", "worktrees">>)
    BY DEF Keys
  <2> HIDE DEF e
  <2>3. \A v : IsText(v) => Typed("root", v)
    BY DEF Typed
  <2>4. \A k, v : k \notin Keys => Typed(k, v)
    BY DEF Typed, Keys
  <2>5. Fitting(e)
    BY <2>2, <2>3, <2>4, ShortTexts, Zenon DEF Fitting
  <2> QED
    BY <2>1, <2>5, Zenon
<1>5. \A n \in DOMAIN Preset.sources : Fitting(Preset.sources[n])
  <2>1. \A n \in DOMAIN Preset.sources : DOMAIN Preset.sources[n] \cap Keys = {}
    BY DEF Preset, Keys
  <2> QED
    BY <1>1, <2>1, Zenon
<1>6. \A n \in DOMAIN Preset.sinks : Fitting(Preset.sinks[n])
  <2> DEFINE t == <<".github", "pull_request_template.md">>
  <2>1. \A n \in DOMAIN Preset.sinks : \A k \in DOMAIN Preset.sinks[n] :
          k \notin Keys \/ (k = "template" /\ Preset.sinks[n][k] = t)
    BY DEF Preset, Keys
  <2>2. Typed("template", t)
    <3>1. IsText(t)
      BY ShortTexts, Zenon
    <3> HIDE DEF t
    <3> QED
      BY <3>1 DEF Typed
  <2>3. \A k, v : k \notin Keys => Typed(k, v)
    BY DEF Typed, Keys
  <2> QED
    BY <2>1, <2>2, <2>3, Zenon DEF Fitting
<1>7. \A n \in DOMAIN Preset.lifecycles : Fitting(Preset.lifecycles[n])
  <2> DEFINE b == <<"feat", "/", "issue", "-", "{{.ID}}", "-", "{{.Slug}}">>
             p == <<<<"loomlc.yml">>, <<"prompts">>>>
             e == Preset.lifecycles.sdlc
  <2>1. \A n \in DOMAIN Preset.lifecycles : Preset.lifecycles[n] = e
    BY DEF Preset
  <2>2. \A k \in DOMAIN e : k \in Keys => k \in {"branch", "protected_paths", "steps"}
    BY DEF Preset, Keys
  <2>3. e.branch = b /\ e.protected_paths = p
    BY DEF Preset
  <2>4. Typed("branch", b)
    <3>1. b \in Seq({"feat", "/", "issue", "-", "{{.ID}}", "{{.Slug}}"})
      OBVIOUS
    <3>2. IsText(b)
      BY <3>1, TypedText, Zenon
    <3> HIDE DEF b
    <3> QED
      BY <3>2 DEF Typed
  <2>5. Typed("protected_paths", p)
    <3>1. \A i \in DOMAIN p : p[i] = <<"loomlc.yml">> \/ p[i] = <<"prompts">>
      OBVIOUS
    <3> HIDE DEF p
    <3>2. \A i \in DOMAIN p : IsText(p[i])
      BY <3>1, ShortTexts, Zenon
    <3> QED
      BY <3>2 DEF Typed
  <2>6. Typed("steps", e.steps)
    BY PresetStepsTyped, Zenon
  <2>7. \A k, v : k \notin Keys => Typed(k, v)
    BY DEF Typed, Keys
  <2> HIDE DEF b, p, e
  <2>8. ASSUME NEW k \in DOMAIN e PROVE Typed(k, e[k])
    <3>1. CASE k \notin Keys
      BY <2>7, <3>1, Zenon
    <3>2. CASE k = "branch"
      BY <2>3, <2>4, <3>2, Zenon
    <3>3. CASE k = "protected_paths"
      BY <2>3, <2>5, <3>3, Zenon
    <3>4. CASE k = "steps"
      BY <2>6, <3>4, Zenon
    <3> QED
      BY <2>2, <3>1, <3>2, <3>3, <3>4, Zenon
  <2> QED
    BY <2>1, <2>8, Zenon DEF Fitting
<1>8. \A section \in Sections :
        section \in {"top", "providers", "executors", "sources", "sinks", "lifecycles"}
  BY DEF Sections
<1> QED
  BY <1>2, <1>3, <1>4, <1>5, <1>6, <1>7, <1>8, Zenon DEF AllFit
-----------------------------------------------------------------------------
(***************************************************************************)
(* What a configuration that is loaded comes to.                           *)
(***************************************************************************)
\* A step with all of its keys.
Whole(s) == IsText(s.role) /\ (s.model = "sonnet" => s.provider \in {"claude", ""})

\* Texts are texts, and the preset's model is asked of the preset's provider.
WholeLifecycle(lc) ==
  /\ IsText(lc.branch)
  /\ \A i \in DOMAIN lc.protected_paths : IsText(lc.protected_paths[i])
  /\ IsText(lc.steps) /\ \A i \in DOMAIN lc.steps : Whole(lc.steps[i])

Texts(c) ==
  /\ \A n \in DOMAIN c.executors : IsText(c.executors[n].root)
  /\ \A n \in DOMAIN c.sinks : IsText(c.sinks[n].template)
  /\ \A n \in DOMAIN c.lifecycles : WholeLifecycle(c.lifecycles[n])

\* What an entry leaves out is as in z.
Supplied(h, entry, z) ==
  \A k \in DOMAIN z : k \notin CommandLists =>
    /\ k \in DOMAIN h
    /\ k \in DOMAIN entry => h[k] = entry[k]
    /\ k \notin DOMAIN entry => h[k] = z[k]

\* That is how an entry is decoded.
LEMMA ValueOf ==
  ASSUME NEW entry, NEW z
  PROVE  Supplied(Overlaid(Unmarshalled(entry), z), entry, z)
<1> DEFINE u == Unmarshalled(entry)
           h == Overlaid(u, z)
<1>1. DOMAIN u = DOMAIN entry /\ \A x \in DOMAIN entry : x \notin CommandLists => u[x] = entry[x]
  BY DEF Unmarshalled
<1> HIDE DEF u
<1>2. Covers(h, u, z)
  BY OverlaidKnown, Zenon
<1> HIDE DEF h
<1>3. ASSUME NEW k \in DOMAIN z, k \notin CommandLists
      PROVE  /\ k \in DOMAIN h
             /\ k \in DOMAIN entry => h[k] = entry[k]
             /\ k \notin DOMAIN entry => h[k] = z[k]
  BY <1>1, <1>2, <1>3, Zenon DEF Covers
<1> QED
  BY <1>3, Zenon DEF h, u, Supplied

\* The value of a typed entry, or none.
LEMMA ValueTyped ==
  ASSUME NEW entry, Fitting(entry), NEW z, NEW k \in DOMAIN z, k \notin CommandLists,
         Typed(k, z[k]), NEW h, Supplied(h, entry, z)
  PROVE  Typed(k, h[k]) /\ k \in DOMAIN h
BY Zenon DEF Fitting, Supplied

\* What is left out is typed.
LEMMA ZeroTyped ==
  /\ "root" \in DOMAIN Zero.executors /\ Typed("root", Zero.executors.root)
  /\ "template" \in DOMAIN Zero.sinks /\ Typed("template", Zero.sinks.template)
  /\ "branch" \in DOMAIN Zero.lifecycles /\ Typed("branch", Zero.lifecycles.branch)
  /\ /\ "protected_paths" \in DOMAIN Zero.lifecycles
     /\ Typed("protected_paths", Zero.lifecycles.protected_paths)
  /\ "steps" \in DOMAIN Zero.lifecycles /\ Typed("steps", Zero.lifecycles.steps)
  /\ {"role", "model", "provider"} \subseteq DOMAIN Zero.steps
  /\ Zero.steps.role = <<>> /\ Zero.steps.model = ""
  /\ {"root", "template", "branch", "protected_paths", "steps", "role", "model", "provider"}
       \cap CommandLists = {}
<1>1. \A k \in {"root", "template", "branch", "protected_paths", "steps"} : Typed(k, <<>>)
  <2>1. IsText(<<>>) /\ DOMAIN <<>> = {}
    BY ShortTexts
  <2> DEFINE v == <<>>
  <2> HIDE DEF v
  <2>2. IsText(v) /\ DOMAIN v = {}
    BY <2>1, Zenon DEF v
  <2>3. \A k \in {"root", "template", "branch", "protected_paths", "steps"} : Typed(k, v)
    BY <2>2 DEF Typed
  <2> QED
    BY <2>3, Zenon DEF v
<1>2. /\ "root" \in DOMAIN Zero.executors /\ Zero.executors.root = <<>>
      /\ "template" \in DOMAIN Zero.sinks /\ Zero.sinks.template = <<>>
      /\ "branch" \in DOMAIN Zero.lifecycles /\ Zero.lifecycles.branch = <<>>
      /\ "protected_paths" \in DOMAIN Zero.lifecycles /\ Zero.lifecycles.protected_paths = <<>>
      /\ "steps" \in DOMAIN Zero.lifecycles /\ Zero.lifecycles.steps = <<>>
  BY DEF Zero
<1>3. /\ {"role", "model", "provider"} \subseteq DOMAIN Zero.steps
      /\ Zero.steps.role = <<>> /\ Zero.steps.model = ""
  BY DEF Zero
<1>4. {"root", "template", "branch", "protected_paths", "steps", "role", "model", "provider"}
        \cap CommandLists = {}
  BY DEF CommandLists
<1> QED
  BY <1>1, <1>2, <1>3, <1>4, Zenon

\* A step with all of its keys is whole.
LEMMA StepWhole ==
  ASSUME NEW s, TypedStep(s)
  PROVE  Whole(withOutput(Overlaid(Unmarshalled(s), Zero.steps)))
<1> DEFINE h == Overlaid(Unmarshalled(s), Zero.steps)
           v == withOutput(h)
<1>1. ASSUME NEW k \in {"role", "model", "provider"}
      PROVE  /\ k \in DOMAIN h
             /\ k \in DOMAIN s => h[k] = s[k]
             /\ k \notin DOMAIN s => h[k] = Zero.steps[k]
  <2>1. k \in DOMAIN Zero.steps /\ k \notin CommandLists
    BY ZeroTyped, Zenon
  <2>2. Supplied(h, s, Zero.steps)
    BY ValueOf, Zenon
  <2> QED
    BY <2>1, <2>2, Zenon DEF Supplied
<1> HIDE DEF h
<1>2. v = [h EXCEPT !.output = Or(h.output, roleOutput(h.role))]
  BY DEF withOutput
<1>3. v.role = h.role /\ v.model = h.model /\ v.provider = h.provider
  BY <1>1, <1>2
<1>4. IsText(h.role)
  BY <1>1, ZeroTyped, ShortTexts, Zenon DEF TypedStep
<1>5. h.model = "sonnet" => "model" \in DOMAIN s
  <2>1. "" # "sonnet"
    OBVIOUS
  <2> QED
    BY <1>1, <2>1, ZeroTyped, Zenon
<1>6. h.model = "sonnet" => h.provider \in {"claude", ""}
  BY <1>1, <1>5, Zenon DEF TypedStep
<1> QED
  BY <1>3, <1>4, <1>6, Zenon DEF Whole, h

\* A configuration is whole once its defaults are applied.
LEMMA ResolvedTexts ==
  ASSUME NEW m, AllFit(m)
  PROVE  Texts(Resolved(m))
<1> DEFINE c == Resolved(m)
<1>0. {"executors", "sinks", "lifecycles"} \subseteq Sections
  BY DEF Sections
<1>1. ASSUME NEW section \in Sections
      PROVE  /\ DOMAIN c[section] = DOMAIN m[section]
             /\ \A n \in DOMAIN c[section] :
                  /\ Fitting(m[section][n])
                  /\ c[section][n] = applyDefaults(section, n, Decoded(section, m[section][n]))
  <2>1. c[section] = [n \in DOMAIN m[section] |->
                       applyDefaults(section, n, Decoded(section, m[section][n]))]
    BY Zenon DEF Resolved
  <2> HIDE DEF c
  <2>2. DOMAIN c[section] = DOMAIN m[section]
    BY <2>1, Zenon
  <2>3. \A n \in DOMAIN m[section] :
          c[section][n] = applyDefaults(section, n, Decoded(section, m[section][n]))
    BY <2>1, Zenon
  <2> QED
    BY <2>2, <2>3, Zenon DEF AllFit
<1> HIDE DEF c
<1>2. ASSUME NEW n \in DOMAIN c.executors PROVE IsText(c.executors[n].root)
  <2> DEFINE entry == m.executors[n]
             e == Overlaid(Unmarshalled(entry), Zero.executors)
  <2>1. Fitting(entry) /\ c.executors[n] = applyDefaults("executors", n, Decoded("executors", entry))
    BY <1>0, <1>1, <1>2, Zenon
  <2>2. Supplied(e, entry, Zero.executors)
    BY ValueOf, Zenon
  <2>3. \A x : applyDefaults("executors", n, x) = x
    BY DEF applyDefaults
  <2>4. Decoded("executors", entry) = e
    BY DEF Decoded
  <2> HIDE DEF e
  <2>5. c.executors[n] = e
    BY <2>1, <2>3, <2>4, Zenon
  <2>6. Typed("root", e.root)
    BY <2>1, <2>2, ZeroTyped, ValueTyped, Zenon
  <2>7. IsText(e.root)
    BY <2>6, Zenon DEF Typed
  <2> QED
    BY <2>5, <2>7, Zenon
<1>3. ASSUME NEW n \in DOMAIN c.sinks PROVE IsText(c.sinks[n].template)
  <2> DEFINE entry == m.sinks[n]
             e == Overlaid(Unmarshalled(entry), Zero.sinks)
             from(x) == [i \in DOMAIN x |-> upperCase(x[i])]
  <2>1. Fitting(entry) /\ c.sinks[n] = applyDefaults("sinks", n, Decoded("sinks", entry))
    BY <1>0, <1>1, <1>3, Zenon
  <2>2. Supplied(e, entry, Zero.sinks)
    BY ValueOf, Zenon
  <2>3. \A x : applyDefaults("sinks", n, x) =
                 [x EXCEPT !.feedback_from = from(x.feedback_from)]
    BY DEF applyDefaults
  <2>4. Decoded("sinks", entry) = e
    BY DEF Decoded
  <2> HIDE DEF e, from
  <2>5. c.sinks[n] = [e EXCEPT !.feedback_from = from(e.feedback_from)]
    BY <2>1, <2>3, <2>4, Zenon
  <2>6. Typed("template", e.template) /\ "template" \in DOMAIN e
    BY <2>1, <2>2, ZeroTyped, ValueTyped, Zenon
  <2>7. c.sinks[n].template = e.template
    BY <2>5, <2>6
  <2>8. IsText(e.template)
    BY <2>6, Zenon DEF Typed
  <2> QED
    BY <2>7, <2>8, Zenon
<1>4. ASSUME NEW n \in DOMAIN c.lifecycles PROVE WholeLifecycle(c.lifecycles[n])
  <2> DEFINE entry == m.lifecycles[n]
             e == Overlaid(Unmarshalled(entry), Zero.lifecycles)
             of(s) == Overlaid(Unmarshalled(s), Zero.steps)
             s1 == [i \in DOMAIN e.steps |-> of(e.steps[i])]
             d == [e EXCEPT !.steps = s1]
             s2 == [i \in DOMAIN d.steps |-> withOutput(d.steps[i])]
             lc == c.lifecycles[n]
  <2>1. Fitting(entry) /\ lc = applyDefaults("lifecycles", n, Decoded("lifecycles", entry))
    BY <1>0, <1>1, <1>4, Zenon
  <2>2. /\ Typed("branch", e.branch) /\ "branch" \in DOMAIN e
        /\ Typed("protected_paths", e.protected_paths) /\ "protected_paths" \in DOMAIN e
        /\ Typed("steps", e.steps) /\ "steps" \in DOMAIN e
    <3> DEFINE x == e
    <3>1. Supplied(x, entry, Zero.lifecycles)
      BY ValueOf, Zenon
    <3> HIDE DEF x
    <3>2. /\ Typed("branch", x.branch) /\ "branch" \in DOMAIN x
          /\ Typed("protected_paths", x.protected_paths) /\ "protected_paths" \in DOMAIN x
          /\ Typed("steps", x.steps) /\ "steps" \in DOMAIN x
      BY <2>1, <3>1, ZeroTyped, ValueTyped, Zenon
    <3> QED
      BY <3>2, Zenon DEF x
  <2>3. Decoded("lifecycles", entry) = d
    BY DEF Decoded
  <2> HIDE DEF e, s1, d, lc
  <2>4. applyDefaults("lifecycles", n, d) = [d EXCEPT !.steps = s2]
    <3>1. "lifecycles" # "providers" /\ "lifecycles" # "sinks"
      OBVIOUS
    <3> DEFINE section == "lifecycles"
    <3> HIDE DEF section
    <3>2. section # "providers" /\ section # "sinks" /\ section = "lifecycles"
      BY <3>1, Zenon DEF section
    <3>3. applyDefaults(section, n, d) =
            [d EXCEPT !.steps = [i \in DOMAIN d.steps |-> withOutput(d.steps[i])]]
      BY <3>2 DEF applyDefaults
    <3> QED
      BY <3>3, Zenon DEF section, s2
  <2> HIDE DEF s2
  <2>5. lc = [d EXCEPT !.steps = s2] /\ d = [e EXCEPT !.steps = s1]
    BY <2>1, <2>3, <2>4, Zenon DEF d
  <2>6. /\ lc.branch = e.branch /\ lc.protected_paths = e.protected_paths
        /\ lc.steps = s2 /\ d.steps = s1
    BY <2>2, <2>5
  <2>7. IsText(lc.branch)
    BY <2>2, <2>6, Zenon DEF Typed
  <2>8. \A i \in DOMAIN lc.protected_paths : IsText(lc.protected_paths[i])
    BY <2>2, <2>6, Zenon DEF Typed
  <2>9. IsText(e.steps) /\ \A i \in DOMAIN e.steps : TypedStep(e.steps[i])
    BY <2>2, StepsTyped, Zenon
  <2> HIDE DEF of
  <2>10. /\ DOMAIN s1 = DOMAIN e.steps /\ \A i \in DOMAIN e.steps : s1[i] = of(e.steps[i])
    BY DEF s1
  <2>11. s2 = [i \in DOMAIN e.steps |-> withOutput(of(e.steps[i]))]
    BY <2>6, <2>10, Zenon DEF s2
  <2>12. ASSUME NEW i \in DOMAIN e.steps PROVE Whole(s2[i])
    <3>1. s2[i] = withOutput(of(e.steps[i]))
      BY <2>11, Zenon
    <3> QED
      BY <2>9, <3>1, StepWhole, Zenon DEF of
  <2>13. IsText(s2) /\ DOMAIN s2 = DOMAIN e.steps
    <3>1. Len(e.steps) \in Nat /\ DOMAIN e.steps = 1..Len(e.steps)
      BY <2>9, TextDomain, Zenon
    <3> DEFINE l == Len(e.steps)
               U == {s2[i] : i \in 1..l}
    <3>2. l \in Nat /\ DOMAIN s2 = 1..l
      BY <2>11, <3>1, Zenon
    <3>3. \A i \in 1..l : s2[i] \in U
      OBVIOUS
    <3>4. s2 = [i \in DOMAIN s2 |-> s2[i]]
      BY <2>11
    <3> HIDE DEF U, l
    <3>5. s2 \in [1..l -> U]
      BY <3>2, <3>3, <3>4
    <3>6. s2 \in Seq(U)
      BY <3>2, <3>5, SeqDef
    <3> QED
      BY <3>1, <3>2, <3>6, TypedText, Zenon DEF l
  <2>14. IsText(lc.steps) /\ \A i \in DOMAIN lc.steps : Whole(lc.steps[i])
    BY <2>6, <2>12, <2>13, Zenon
  <2> QED
    BY <2>7, <2>8, <2>14, Zenon DEF WholeLifecycle, lc
<1> QED
  BY <1>2, <1>3, <1>4, Zenon DEF Texts, c
\* What a file comes to is typed, as what is built in is.
LEMMA ParsedTexts ==
  ASSUME written \subseteq Settings, IsFiniteSet(written)
  PROVE  Texts(Parse)
<1> DEFINE F == File(written)
<1>1. Written(F)
  <2> DEFINE kept == {s \in Usual : \A w \in written :
                        \/ w.section # s.section \/ w.name # s.name
                        \/ DOMAIN w.entry \cap DOMAIN s.entry = {}}
  <2>1. F = kept \cup written /\ kept \in SUBSET Usual
    BY Zenon DEF File
  <2> HIDE DEF kept, F
  <2>2. IsFiniteSet(kept)
    BY <2>1, SettingsAssumption, FS_Subset, Zenon DEF SettingsAssumption
  <2>3. IsFiniteSet(F)
    BY <2>1, <2>2, FS_Union, Zenon
  <2>4. \A s \in F : s \in Settings \cup Usual
    BY <2>1, Zenon
  <2> QED
    BY <2>3, <2>4, SettingsAssumption, Zenon DEF SettingsAssumption, Written, Fitting
<1> HIDE DEF F
<1>2. AllFit(mergeNode(Preset, decodeDocument(F)))
  BY <1>1, DocumentFits, PresetFits, NodeFits, Zenon
<1>3. Texts(Parsed(written))
  BY <1>2, ResolvedTexts, Zenon DEF Parsed, F
<1>4. Texts(ParsedPreset)
  BY PresetFits, ResolvedTexts, Zenon DEF ParsedPreset
<1> QED
  BY <1>3, <1>4, Zenon DEF Parse
-----------------------------------------------------------------------------
(***************************************************************************)
(* A configuration in which nothing is wrong.                              *)
(***************************************************************************)
Valid(c) == Texts(c) /\ validate(c) = {}

\* A path that is none, or does not escape.
Inside(p) == p = <<>> \/ ~escapes(p)

\* What is true of each step, and of each lifecycle, that nothing is wrong with.
SoundStep(c, s) ==
  /\ roleOutput(s.role) # "" \/ Inside(s.role)
  /\ s.provider \in DOMAIN c.providers
  /\ c.providers[s.provider].adapter = "pi" \/ s.vendor = ""

SoundLifecycle(c, lc) ==
  /\ \A i \in DOMAIN lc.protected_paths : Inside(lc.protected_paths[i])
  /\ \A i \in DOMAIN lc.steps : SoundStep(c, lc.steps[i])
  /\ ~validateBranchTemplate(lc.branch, BaseOf(c, lc))

Sound(c) ==
  /\ "" \notin DOMAIN c.providers
  /\ \A n \in DOMAIN c.executors : Inside(c.executors[n].root)
  /\ \A n \in DOMAIN c.sinks : Inside(c.sinks[n].template)
  /\ \A n \in DOMAIN c.lifecycles : SoundLifecycle(c, c.lifecycles[n])

\* There is a problem where something is wrong.
LEMMA NoProblem == \A at, wrong : Problem(at, wrong) = {} => ~wrong
BY DEF Problem

\* A path that is checked stays inside.
LEMMA PathChecked ==
  ASSUME NEW at, NEW p, NEW required, checkRelativePath(at, p, required) = {}
  PROVE  Inside(p)
<1>1. ~(IF p = <<>> THEN required ELSE escapes(p))
  BY NoProblem, Zenon DEF checkRelativePath
<1> QED
  BY <1>1, Zenon DEF Inside

\* So does a role, but for those that are built in.
LEMMA RoleChecked ==
  ASSUME NEW s, validateRole(s) = {}
  PROVE  roleOutput(s.role) # "" \/ Inside(s.role)
<1> SUFFICES ASSUME roleOutput(s.role) = "" PROVE Inside(s.role)
  BY Zenon
<1>1. s.role # <<>>
  <2>1. s.role = <<>> => validateRole(s) = {<<s.name, "role">>}
    BY Zenon DEF validateRole
  <2> QED
    BY <2>1
<1> DEFINE own == Last(s.role) \in {"own.md", "huge.md", "blank.md"}
           path == checkRelativePath(<<s.name, "role">>, s.role, TRUE)
           output == Problem(<<s.name, "output">>, s.output \notin {"plan", "change", "verdict"})
<1>2. own => validateRole(s) = path \cup output
  BY <1>1, Zenon DEF validateRole
<1>3. ~own => validateRole(s) = {<<s.name, "role">>}
  BY <1>1, Zenon DEF validateRole
<1> HIDE DEF own, path, output
<1>4. path = {}
  BY <1>2, <1>3
<1> QED
  BY <1>4, PathChecked, Zenon DEF path

\* Nothing is wrong with a step whose role stays inside, and whose vendor its provider takes.
LEMMA StepChecked ==
  ASSUME NEW c, NEW s, validateStep(c, s) = {}
  PROVE  SoundStep(c, s)
<1>1. validateRole(s) = {} /\ validateStepProvider(c, s) = {}
  BY Zenon DEF validateStep
<1>2. s.provider \in DOMAIN c.providers
  <2>1. s.provider \notin DOMAIN c.providers =>
          validateStepProvider(c, s) = {<<s.name, "provider">>}
    BY Zenon DEF validateStepProvider
  <2> QED
    BY <1>1, <2>1
<1>3. c.providers[s.provider].adapter = "pi" \/ s.vendor = ""
  <2>1. c.providers[s.provider].adapter # "pi" =>
          validateStepProvider(c, s) = Problem(<<s.name, "vendor">>, s.vendor # "")
    BY <1>2, Zenon DEF validateStepProvider
  <2> QED
    BY <1>1, <2>1, NoProblem, Zenon
<1> QED
  BY <1>1, <1>2, <1>3, RoleChecked, Zenon DEF SoundStep

\* A lifecycle that nothing is wrong with.
LEMMA LifecycleChecked ==
  ASSUME NEW c, NEW n, NEW lc, validateLifecycle(c, n, lc) = {}
  PROVE  SoundLifecycle(c, lc)
<1> DEFINE paths == {checkRelativePath(<<n, "protected_paths">>, lc.protected_paths[i], TRUE)
                       : i \in DOMAIN lc.protected_paths}
           steps == {validateStep(c, lc.steps[i]) : i \in DOMAIN lc.steps}
           wrong == validateBranchTemplate(lc.branch, BaseOf(c, lc))
<1>1. UNION paths = {} /\ UNION steps = {} /\ Problem(<<n, "branch">>, wrong) = {}
  <2> DEFINE before ==
               checkName(n)
                 \cup Problem(<<n, "executor">>, lc.executor \notin DOMAIN c.executors)
                 \cup Problem(<<n, "source">>, lc.source \notin DOMAIN c.sources)
                 \cup Problem(<<n, "sink">>,
                        \/ lc.sink \notin DOMAIN c.sinks
                        \/ /\ lc.source \in DOMAIN c.sources
                           /\ c.sinks[lc.sink].type = "github-pr"
                           /\ c.sources[lc.source].type # "github")
                 \cup Problem(<<n, "concurrency">>, lc.concurrency < 1)
                 \cup Problem(<<n, "max_open_outputs">>, lc.max_open_outputs < 1)
                 \cup Problem(<<n, "watch_interval">>, Seconds[lc.watch_interval] < minWatchInterval)
             twice == Problem(<<n, "name">>,
                        \E i, j \in DOMAIN lc.steps :
                          i # j /\ lc.steps[i].name # "" /\ lc.steps[i].name = lc.steps[j].name)
             branch == Problem(<<n, "branch">>, wrong)
  <2>1. validateLifecycle(c, n, lc) =
          before \cup branch \cup (UNION paths) \cup (UNION steps) \cup twice
            \cup validatePublish(n, lc) \cup validateShape(n, lc)
    BY Zenon DEF validateLifecycle
  <2> HIDE DEF before, twice, branch, paths, steps
  <2>2. UNION paths = {} /\ UNION steps = {} /\ branch = {}
    BY <2>1
  <2> QED
    BY <2>2, Zenon DEF branch
<1>2. \A i \in DOMAIN lc.protected_paths :
        checkRelativePath(<<n, "protected_paths">>, lc.protected_paths[i], TRUE) = {}
  BY <1>1, Zenon
<1>3. \A i \in DOMAIN lc.steps : validateStep(c, lc.steps[i]) = {}
  BY <1>1, Zenon
<1>4. ~wrong
  BY <1>1, NoProblem, Zenon
<1> QED
  BY <1>2, <1>3, <1>4, PathChecked, StepChecked, Zenon DEF SoundLifecycle

\* And a configuration.
LEMMA AllChecked ==
  ASSUME NEW c, validate(c) = {}
  PROVE  Sound(c)
<1> DEFINE providers == {validateProvider(n, c.providers[n]) : n \in DOMAIN c.providers}
           executors == {validateExecutor(n, c.executors[n]) : n \in DOMAIN c.executors}
           sinks == {validateSink(n, c.sinks[n]) : n \in DOMAIN c.sinks}
           lifecycles == {validateLifecycle(c, n, c.lifecycles[n]) : n \in DOMAIN c.lifecycles}
<1>1. /\ UNION providers = {} /\ UNION executors = {} /\ UNION sinks = {}
      /\ UNION lifecycles = {}
  <2> DEFINE version == Problem(<<"top", "version">>, c.top["config"].version # 1)
             sources == {validateSource(n, c.sources[n]) : n \in DOMAIN c.sources}
  <2>1. validate(c) = version \cup (UNION providers) \cup (UNION executors)
                        \cup (UNION sources) \cup (UNION sinks) \cup (UNION lifecycles)
    BY Zenon DEF validate
  <2> HIDE DEF version, providers, executors, sources, sinks, lifecycles
  <2> QED
    BY <2>1
<1>2. /\ \A n \in DOMAIN c.providers : validateProvider(n, c.providers[n]) = {}
      /\ \A n \in DOMAIN c.executors : validateExecutor(n, c.executors[n]) = {}
      /\ \A n \in DOMAIN c.sinks : validateSink(n, c.sinks[n]) = {}
      /\ \A n \in DOMAIN c.lifecycles : validateLifecycle(c, n, c.lifecycles[n]) = {}
  BY <1>1, Zenon
<1>3. ASSUME NEW n \in DOMAIN c.executors PROVE Inside(c.executors[n].root)
  <2>1. checkRelativePath(<<n, "root">>, c.executors[n].root, TRUE) = {}
    BY <1>2, Zenon DEF validateExecutor
  <2> QED
    BY <2>1, PathChecked, Zenon
<1>4. ASSUME NEW n \in DOMAIN c.sinks PROVE Inside(c.sinks[n].template)
  <2>1. checkRelativePath(<<n, "template">>, c.sinks[n].template, FALSE) = {}
    BY <1>2, Zenon DEF validateSink
  <2> QED
    BY <2>1, PathChecked, Zenon
<1>5. "" \notin DOMAIN c.providers
  <2>1. ASSUME NEW n \in DOMAIN c.providers PROVE n # ""
    <3>1. checkName(n) = {}
      BY <1>2, Zenon DEF validateProvider
    <3>2. n \notin Misnamed
      BY <3>1, NoProblem, Zenon DEF checkName
    <3> QED
      BY <3>2, Zenon DEF Misnamed
  <2> QED
    BY <2>1, Zenon
<1> QED
  BY <1>2, <1>3, <1>4, <1>5, LifecycleChecked, Zenon DEF Sound

\* A path leads nowhere out of the repository.
Stays(p) == \A i \in DOMAIN p : p[1] # "/" /\ Depth(SubSeq(p, 1, i)) >= 0

\* One that is inside does not.
LEMMA InsideStays ==
  ASSUME NEW p, IsText(p), Inside(p)
  PROVE  Stays(p)
<1>1. DOMAIN <<>> = {}
  OBVIOUS
<1> QED
  BY <1>1, NoEscape, Zenon DEF Inside, Stays

Root == "/"

\* Nor does a name by itself.
LEMMA NameStays ==
  ASSUME NEW a, a # Here, a # Up, a # Root
  PROVE  Stays(<<a>>)
<1> DEFINE p == <<a>>
           down == {i \in DOMAIN p : p[i] \notin {Here, Up}}
           up == {i \in DOMAIN p : p[i] = Up}
           d(i) == Depth(SubSeq(p, 1, i))
<1>1. DOMAIN p = {1} /\ p[1] = a
  OBVIOUS
<1>2. SubSeq(p, 1, 1) = p
  <2>1. p \in Seq({a}) /\ Len(p) = 1
    OBVIOUS
  <2> HIDE DEF p
  <2>2. 1 \in 1..(Len(p) + 1) /\ 1 \in 0..Len(p) /\ Len(SubSeq(p, 1, 1)) = 1
    BY <2>1
  <2> QED
    BY <2>1, <2>2
<1>3. Depth(p) = Cardinality(down) - Cardinality(up)
  BY Zenon DEF Depth, Here, Up
<1> HIDE DEF p
<1>4. down = {1} /\ up = {}
  BY <1>1
<1> HIDE DEF down, up
<1>5. Cardinality(down) = 1 /\ Cardinality(up) = 0
  BY <1>4, FS_EmptySet, FS_Singleton, Zenon
<1>6. 1 - 0 = 1 /\ 1 >= 0
  OBVIOUS
<1>7. Depth(p) >= 0
  BY <1>3, <1>5, <1>6, Zenon
<1>8. \A i \in DOMAIN p : d(i) >= 0
  <2>1. \A i : i \in DOMAIN p => i = 1
    BY <1>1, Zenon
  <2> QED
    BY <1>2, <1>7, <2>1, Zenon
<1> HIDE DEF d
<1>9. p[1] # Root
  BY <1>1, Zenon
<1> QED
  BY <1>8, <1>9, Zenon DEF Stays, Root, d, p

\* Nor do the roles that are built in, which are a name each.
LEMMA BuiltInStays ==
  ASSUME NEW p, roleOutput(p) # ""
  PROVE  Stays(p)
<1>1. p \in {<<"planner">>, <<"engineer">>, <<"qa">>}
  BY Zenon DEF roleOutput
<1>2. \A a \in {"planner", "engineer", "qa"} : a # Here /\ a # Up /\ a # Root
  BY DEF Here, Up, Root
<1> QED
  BY <1>1, <1>2, NameStays, Zenon

\* No path of a valid configuration leads out of the repository.
LEMMA ValidStays ==
  ASSUME Valid(cfg)
  PROVE  PathsStayInside
<1>1. Texts(cfg) /\ Sound(cfg)
  BY AllChecked, Zenon DEF Valid
<1> SUFFICES ASSUME NEW n \in DOMAIN cfg.lifecycles
             PROVE  LET lc == cfg.lifecycles[n]
                        paths == {cfg.executors[e].root : e \in DOMAIN cfg.executors}
                                   \cup {cfg.sinks[s].template : s \in DOMAIN cfg.sinks}
                                   \cup {lc.steps[i].role : i \in DOMAIN lc.steps}
                                   \cup ToSet(lc.protected_paths)
                    IN \A p \in paths : Stays(p)
  BY Zenon DEF PathsStayInside, Stays
<1> DEFINE lc == cfg.lifecycles[n]
<1>2. WholeLifecycle(lc) /\ SoundLifecycle(cfg, lc)
  BY <1>1, Zenon DEF Texts, Sound
<1> HIDE DEF lc
<1>3. \A e \in DOMAIN cfg.executors : Stays(cfg.executors[e].root)
  BY <1>1, InsideStays, Zenon DEF Texts, Sound
<1>4. \A s \in DOMAIN cfg.sinks : Stays(cfg.sinks[s].template)
  BY <1>1, InsideStays, Zenon DEF Texts, Sound
<1>5. \A i \in DOMAIN lc.steps : Stays(lc.steps[i].role)
  BY <1>2, InsideStays, BuiltInStays, Zenon
     DEF WholeLifecycle, SoundLifecycle, Whole, SoundStep
<1>6. \A p \in ToSet(lc.protected_paths) : Stays(p)
  BY <1>2, InsideStays, Zenon DEF WholeLifecycle, SoundLifecycle, ToSet
<1> QED
  BY <1>3, <1>4, <1>5, <1>6, Zenon DEF lc

\* Under a valid configuration tasks have branches of their own.
LEMMA ValidOwns ==
  ASSUME Valid(cfg)
  PROVE  TasksHaveOwnBranches
<1>1. Texts(cfg) /\ Sound(cfg)
  BY AllChecked, Zenon DEF Valid
<1>2. ASSUME NEW n \in DOMAIN cfg.lifecycles
      PROVE  /\ IsText(cfg.lifecycles[n].branch)
             /\ ~validateBranchTemplate(cfg.lifecycles[n].branch,
                                        BaseOf(cfg, cfg.lifecycles[n]))
  BY <1>1, <1>2, Zenon DEF Texts, Sound, WholeLifecycle, SoundLifecycle
<1> QED
  BY <1>2, OwnBranches, Zenon DEF TasksHaveOwnBranches
-----------------------------------------------------------------------------
(***************************************************************************)
(* The invocation, as far as the configuration goes.                       *)
(***************************************************************************)
\* The stages from which a configuration is there, from which it is built, from which the
\* commands that its agents run by are, and from which there are three steps to a run.
Prepared == {"prepared", "asked"}
Ready == {"ready", "taken"} \cup Prepared
Checked == {"checked"} \cup Ready
Built == {"built"} \cup Checked
Loaded == {"loaded"} \cup Built

\* What is true of the configuration at each stage.
Trusted ==
  /\ IF stage \in Loaded THEN Valid(cfg) ELSE cfg = NoConfig
  /\ stage \in Built => pick # {} /\ stepsBuild
  /\ stage \in Checked => commands \subseteq Installed
  /\ stage \in Ready => MovesCommits \/ Len(Lc.steps) = 3
  /\ stage \in Prepared => ~MovesCommits

SettingsInv ==
  /\ IsFiniteSet(written) /\ Trusted
  /\ ConfigurationIsTrusted /\ ModelStaysWithProvider

\* The sets of at most n of S are finite.
LEMMA AtMostFinite ==
  ASSUME NEW n \in Int, NEW S, NEW s \in AtMost(n, S)
  PROVE  IsFiniteSet(s)
<1>1. PICK f \in [1..n -> S] : s = ToSet(f)
  BY Zenon DEF AtMost
<1>2. IsFiniteSet(DOMAIN f)
  <2>1. DOMAIN f = 1..n
    BY <1>1, Zenon
  <2> QED
    BY <2>1, FS_Interval, 1 \in Int, Zenon
<1> QED
  BY <1>1, <1>2, ImageFinite, Zenon DEF ToSet

\* What is built, and what it needs, stays as it is with the command line, the machine and
\* the configuration.
LEMMA SameBuild ==
  ASSUME UNCHANGED <<typedVars, lacking, cfg>>
  PROVE  /\ pick' = pick /\ Lc' = Lc /\ (stepsBuild' <=> stepsBuild)
         /\ commands' = commands /\ Installed' = Installed /\ (MovesCommits' <=> MovesCommits)
<1>0. cmd' = cmd /\ flags' = flags /\ lacking' = lacking /\ cfg' = cfg
  BY DEF typedVars
<1>1. Names' = Names
  BY <1>0, Zenon DEF Names
<1>2. pick' = pick
  BY <1>0, <1>1, Zenon DEF pick
<1>3. Lc' = Lc
  BY <1>0, <1>2, Zenon DEF Lc
<1>4. stepsBuild' <=> stepsBuild
  BY <1>0, <1>3, Zenon DEF stepsBuild, RoleLoads
<1>5. Installed' = Installed /\ (MovesCommits' <=> MovesCommits)
  BY <1>0, Zenon DEF Installed, MovesCommits
<1>6. commands' = commands
  BY <1>0, <1>3, <1>5, Zenon DEF commands
<1> QED
  BY <1>2, <1>3, <1>4, <1>5, <1>6

\* The text of a role that loads fits in a command line.
LEMMA RoleFits ==
  ASSUME NEW role, RoleLoads(role)
  PROVE  ~(SizeOf(role) > maxArg)
<1>1. CASE roleOutput(role) # ""
  <2>1. role \in {<<"planner">>, <<"engineer">>, <<"qa">>}
    BY <1>1, Zenon DEF roleOutput
  <2>2. ASSUME NEW a, role = <<a>> PROVE Last(role) = a
    BY <2>2 DEF Last
  <2>3. Last(role) \in {"planner", "engineer", "qa"}
    BY <2>1, <2>2, Zenon
  <2>4. Last(role) # "huge.md" /\ Last(role) # "blank.md"
    BY <2>3
  <2>5. SizeOf(role) = 1
    BY <2>4, Zenon DEF SizeOf
  <2> QED
    BY <2>5 DEF maxArg
<1>2. CASE SizeOf(role) \in 1..DefaultMaxRole
  BY <1>2 DEF DefaultMaxRole, maxArg
<1> QED
  BY <1>1, <1>2, Zenon DEF RoleLoads

\* The lifecycle that was picked is one of the configuration's.
LEMMA Picked ==
  ASSUME Valid(cfg), pick # {}
  PROVE  WholeLifecycle(Lc) /\ SoundLifecycle(cfg, Lc)
<1> DEFINE n == CHOOSE n \in pick : TRUE
<1>1. n \in pick
  BY Zenon
<1>2. pick \subseteq Names
  <2>1. /\ Names \cap {"sdlc"} \subseteq Names /\ Names \cap {"nightly"} \subseteq Names
        /\ {} \subseteq Names
    BY Zenon
  <2>2. pick \in {Names \cap {"sdlc"}, Names \cap {"nightly"}, Names, {}}
    BY Zenon DEF pick
  <2> QED
    BY <2>1, <2>2, Zenon
<1>3. n \in DOMAIN cfg.lifecycles /\ Lc = cfg.lifecycles[n]
  BY <1>1, <1>2, Zenon DEF Names, Lc
<1>4. Texts(cfg) /\ Sound(cfg)
  BY AllChecked, Zenon DEF Valid
<1> HIDE DEF n
<1> QED
  BY <1>3, <1>4, Zenon DEF Texts, Sound

\* What an agent is asked can be said to it, but for what its commands are, and is asked of
\* a command that is there.
LEMMA Sayable ==
  ASSUME Trusted, stage = "prepared", NEW i \in StepsOf
  PROVE  /\ buildArgsRefuses(RequestOf(Lc.steps[i])) \subseteq {"allowed_commands"}
         /\ RequestOf(Lc.steps[i]).cmd \in Installed
         /\ Lc.steps[i].model = "sonnet" => Lc.steps[i].provider = "claude"
<1> DEFINE s == Lc.steps[i]
           r == RequestOf(s)
<1>1. /\ Valid(cfg) /\ pick # {} /\ stepsBuild /\ commands \subseteq Installed
      /\ ~MovesCommits /\ Len(Lc.steps) = 3
  BY DEF Trusted, Loaded, Built, Checked, Ready, Prepared
<1>2. WholeLifecycle(Lc) /\ SoundLifecycle(cfg, Lc) /\ Sound(cfg)
  BY <1>1, Picked, AllChecked, Zenon DEF Valid
<1>3. i \in DOMAIN Lc.steps
  <2>1. DOMAIN Lc.steps = 1..Len(Lc.steps)
    BY <1>2, TextDomain, Zenon DEF WholeLifecycle
  <2>2. i \in {1, 2, 3}
    BY Zenon DEF StepsOf
  <2>3. i \in 1..3
    BY <2>2
  <2> QED
    BY <1>1, <2>1, <2>3, Zenon
<1>4. Whole(s) /\ SoundStep(cfg, s)
  BY <1>2, <1>3, Zenon DEF WholeLifecycle, SoundLifecycle
<1>5. s.model = "sonnet" => s.provider = "claude"
  BY <1>2, <1>4, Zenon DEF Whole, SoundStep, Sound
<1>6. cfg.providers[s.provider].adapter = "claude" /\ RoleLoads(s.role)
  BY <1>1, <1>3, Zenon DEF stepsBuild
<1>7. cfg.providers[s.provider].cmd \in commands
  BY <1>1, <1>3, Zenon DEF commands
<1> HIDE DEF s
<1>8. r.vendor = s.vendor /\ r.size = SizeOf(s.role) /\ r.cmd = cfg.providers[s.provider].cmd
  BY DEF RequestOf
<1> HIDE DEF r
<1>9. r.vendor = "" /\ ~(r.size > maxArg)
  <2>1. "claude" # "pi"
    OBVIOUS
  <2> QED
    BY <1>4, <1>6, <1>8, <2>1, RoleFits, Zenon DEF SoundStep
<1>10. ASSUME NEW part \in buildArgsRefuses(r) PROVE part = "allowed_commands"
  <2>1. part \in {"vendor", "role_prompt", "allowed_commands"}
    BY Zenon DEF buildArgsRefuses
  <2>2. part # "vendor"
    BY <1>9, Zenon DEF buildArgsRefuses
  <2>3. part # "role_prompt"
    <3>1. "role_prompt" # "vendor"
      OBVIOUS
    <3> QED
      BY <1>9, <3>1, Zenon DEF buildArgsRefuses
  <2> QED
    BY <2>1, <2>2, <2>3, Zenon
<1> QED
  BY <1>1, <1>5, <1>7, <1>8, <1>10, Zenon DEF r, s

\* The first state satisfies the invariant.
LEMMA FirstTrusted == Init => SettingsInv
<1> SUFFICES ASSUME Init PROVE SettingsInv
  OBVIOUS
<1>1. IsFiniteSet(written)
  <2> DEFINE n == Oddities - IF argument = (IF cmd = "tidy" THEN "9" ELSE "none") THEN 0 ELSE 1
  <2>1. \E f \in 0..n : \E l \in 0..n - f : written \in AtMost(n - f - l, Settings)
    BY Zenon DEF Init, SetupInit
  <2>2. Oddities \in Int
    BY SettingsAssumption DEF SettingsAssumption
  <2>3. n \in Int
    BY <2>2
  <2> HIDE DEF n
  <2>4. PICK f \in 0..n : \E l \in 0..n - f : written \in AtMost(n - f - l, Settings)
    BY <2>1, Zenon
  <2>5. PICK l \in 0..n - f : written \in AtMost(n - f - l, Settings)
    BY <2>4, Zenon
  <2>6. n - f - l \in Int
    BY <2>3
  <2> QED
    BY <2>5, <2>6, AtMostFinite, Zenon
<1>2. stage = "flags" /\ cfg = NoConfig /\ blame = "nothing" /\ model = NoModel
  BY Zenon DEF Init, SetupInit
<1> QED
  BY <1>1, <1>2 DEF SettingsInv, Trusted, ConfigurationIsTrusted, ModelStaysWithProvider,
     Loaded, Built, Checked, Ready, Prepared

\* The command line, the file and what is built from it.
LEMMA SetTrusted ==
  ASSUME written \subseteq Settings, SettingsInv, Set
  PROVE  SettingsInv'
<1>1. UNCHANGED <<blame, model>>
  BY DEF Set, workVars
<1>2. ConfigurationIsTrusted' /\ ModelStaysWithProvider'
  BY <1>1 DEF SettingsInv, ConfigurationIsTrusted, ModelStaysWithProvider
<1>3. ASSUME NEW c, ExitWith(c) PROVE IsFiniteSet(written') /\ Trusted'
  <2>1. stage' = "exited" /\ cfg' = NoConfig /\ written' = {}
    BY <1>3, Zenon DEF ExitWith
  <2>2. IsFiniteSet({})
    BY FS_EmptySet
  <2> QED
    BY <2>1, <2>2 DEF Trusted, Loaded, Built, Checked, Ready, Prepared
<1>4. ASSUME NEW next, Proceed(next) PROVE /\ IsFiniteSet(written') /\ stage' = next
                                           /\ UNCHANGED <<typedVars, lacking, cfg>>
  BY <1>4 DEF Proceed, SettingsInv
<1> USE DEF Loaded, Built, Checked, Ready, Prepared
<1>5. CASE ParseFlags
  <2>1. stage = "flags" /\ ((\E c \in {0, 2} : ExitWith(c)) \/ Proceed("load"))
    BY <1>5, Zenon DEF ParseFlags
  <2>2. CASE Proceed("load")
    <3>1. IsFiniteSet(written') /\ stage' = "load" /\ cfg' = cfg
      BY <1>4, <2>2
    <3>2. cfg = NoConfig
      BY <2>1 DEF SettingsInv, Trusted
    <3>3. Trusted'
      BY <3>1, <3>2 DEF Trusted
    <3> QED
      BY <1>2, <3>1, <3>3 DEF SettingsInv
  <2> QED
    BY <1>2, <1>3, <2>1, <2>2, Zenon DEF SettingsInv
<1>6. CASE LoadConfig
  <2>1. CASE ExitWith(1)
    BY <1>2, <1>3, <2>1, Zenon DEF SettingsInv
  <2>2. CASE ~ExitWith(1)
    <3>1. /\ validate(Parse) = {} /\ cfg' = Parse /\ stage' = "loaded"
          /\ UNCHANGED written
      BY <1>6, <2>2, Zenon DEF LoadConfig
    <3>2. IsFiniteSet(written)
      BY Zenon DEF SettingsInv
    <3>3. Valid(Parse)
      BY <3>1, <3>2, ParsedTexts, Zenon DEF Valid
    <3>4. Valid(cfg)'
      BY <3>1, <3>3, Zenon DEF Valid
    <3>5. Trusted'
      BY <3>1, <3>4 DEF Trusted
    <3> QED
      BY <1>2, <3>1, <3>2, <3>5 DEF SettingsInv
  <2> QED
    BY <2>1, <2>2
<1>7. CASE PrintLifecycles
  BY <1>2, <1>3, <1>7, Zenon DEF SettingsInv, PrintLifecycles
<1>8. CASE BuildLifecycle
  <2>1. CASE ExitWith(1)
    BY <1>2, <1>3, <2>1, Zenon DEF SettingsInv
  <2>2. CASE ~ExitWith(1)
    <3>1. stage = "loaded" /\ pick # {} /\ stepsBuild /\ Proceed("built")
      BY <1>8, <2>2, Zenon DEF BuildLifecycle
    <3>2. /\ IsFiniteSet(written') /\ stage' = "built" /\ pick' = pick
          /\ (stepsBuild' <=> stepsBuild) /\ cfg' = cfg
      BY <1>4, <3>1, SameBuild
    <3>3. Valid(cfg)
      BY <3>1 DEF SettingsInv, Trusted
    <3>4. Valid(cfg)'
      BY <3>2, <3>3, Zenon DEF Valid
    <3>5. Trusted'
      BY <3>1, <3>2, <3>4 DEF Trusted
    <3> QED
      BY <1>2, <3>2, <3>5 DEF SettingsInv
  <2> QED
    BY <2>1, <2>2
<1>9. CASE Preflight
  <2>1. CASE ExitWith(1)
    BY <1>2, <1>3, <2>1, Zenon DEF SettingsInv
  <2>2. CASE ~ExitWith(1)
    <3>1. stage = "built" /\ commands \subseteq Installed /\ Proceed("checked")
      BY <1>9, <2>2, Zenon DEF Preflight
    <3>2. /\ IsFiniteSet(written') /\ stage' = "checked" /\ pick' = pick
          /\ (stepsBuild' <=> stepsBuild) /\ cfg' = cfg
          /\ commands' = commands /\ Installed' = Installed
      BY <1>4, <3>1, SameBuild
    <3>3. Valid(cfg) /\ pick # {} /\ stepsBuild
      BY <3>1 DEF SettingsInv, Trusted
    <3>4. Valid(cfg)'
      BY <3>2, <3>3, Zenon DEF Valid
    <3>5. Trusted'
      BY <3>1, <3>2, <3>3, <3>4 DEF Trusted
    <3> QED
      BY <1>2, <3>2, <3>5 DEF SettingsInv
  <2> QED
    BY <2>1, <2>2
<1>10. CASE BuildCommand
  <2>1. CASE \E c \in {1, 2} : ExitWith(c)
    BY <1>2, <1>3, <2>1, Zenon DEF SettingsInv
  <2>2. CASE ~\E c \in {1, 2} : ExitWith(c)
    <3>1. stage = "checked" /\ (MovesCommits \/ Len(Lc.steps) = 3) /\ Proceed("ready")
      BY <1>10, <2>2, Zenon DEF BuildCommand
    <3>2. /\ IsFiniteSet(written') /\ stage' = "ready" /\ pick' = pick /\ Lc' = Lc
          /\ (stepsBuild' <=> stepsBuild) /\ cfg' = cfg /\ (MovesCommits' <=> MovesCommits)
          /\ commands' = commands /\ Installed' = Installed
      BY <1>4, <3>1, SameBuild
    <3>3. Valid(cfg) /\ pick # {} /\ stepsBuild /\ commands \subseteq Installed
      BY <3>1 DEF SettingsInv, Trusted
    <3>4. Valid(cfg)'
      BY <3>2, <3>3, Zenon DEF Valid
    <3>5. (MovesCommits \/ Len(Lc.steps) = 3)'
      BY <3>1, <3>2, Zenon
    <3>6. Trusted'
      BY <3>2, <3>3, <3>4, <3>5 DEF Trusted
    <3> QED
      BY <1>2, <3>2, <3>6 DEF SettingsInv
  <2> QED
    BY <2>1, <2>2
<1> QED
  BY <1>5, <1>6, <1>7, <1>8, <1>9, <1>10, Zenon DEF Set, SetupNext

\* What is true of the configuration stays so while the work goes on from one stage to
\* another of which no more is known.
LEMMA WorkGoesOn ==
  ASSUME SettingsInv, stage \in Ready, UNCHANGED <<typedVars, lacking, written, cfg>>,
         stage' \in Ready, stage' \in Prepared => ~MovesCommits
  PROVE  IsFiniteSet(written') /\ Trusted'
<1> USE DEF Loaded, Built, Checked, Ready, Prepared
<1>1. IsFiniteSet(written')
  BY DEF SettingsInv
<1>2. /\ pick' = pick /\ Lc' = Lc /\ (stepsBuild' <=> stepsBuild) /\ cfg' = cfg
      /\ (MovesCommits' <=> MovesCommits) /\ commands' = commands /\ Installed' = Installed
  BY SameBuild
<1>3. /\ Valid(cfg) /\ pick # {} /\ stepsBuild /\ commands \subseteq Installed
      /\ MovesCommits \/ Len(Lc.steps) = 3
  BY DEF SettingsInv, Trusted
<1>4. Valid(cfg)' /\ (MovesCommits \/ Len(Lc.steps) = 3)'
  BY <1>2, <1>3, Zenon DEF Valid
<1> QED
  BY <1>1, <1>2, <1>3, <1>4 DEF Trusted

\* What is forgotten is not looked at.
LEMMA Forgotten ==
  ASSUME NEW next, next \notin Loaded, Forget(next)
  PROVE  IsFiniteSet(written') /\ Trusted' /\ ModelStaysWithProvider'
<1>1. stage' = next /\ cfg' = NoConfig /\ written' = {} /\ model' = NoModel
  BY Zenon DEF Forget
<1>2. IsFiniteSet({})
  BY FS_EmptySet
<1> QED
  BY <1>1, <1>2 DEF Trusted, ModelStaysWithProvider, Loaded, Built, Checked, Ready, Prepared

\* The first command that is run for a step.
LEMMA BeginTrusted ==
  ASSUME SettingsInv, Begin
  PROVE  SettingsInv'
<1>1. stage = "prepared" /\ Proceed("asked")
  BY Zenon DEF Begin
<1>2. Trusted
  BY Zenon DEF SettingsInv
<1>3. IsFiniteSet(written') /\ Trusted'
  <2>1. stage' = "asked" /\ UNCHANGED <<typedVars, lacking, written, cfg>>
    BY <1>1, Zenon DEF Proceed
  <2>2. ~MovesCommits
    BY <1>1, <1>2 DEF Trusted, Prepared
  <2>3. stage \in Ready /\ stage' \in Ready
    BY <1>1, <2>1 DEF Ready, Prepared
  <2> QED
    BY <2>1, <2>2, <2>3, WorkGoesOn
<1>4. CASE \E i \in StepsOf : Ask(Lc.steps[i])
  <2>1. PICK i \in StepsOf : Ask(Lc.steps[i])
    BY <1>4, Zenon
  <2> DEFINE s == Lc.steps[i]
             bad == buildArgsRefuses(RequestOf(s))
             here == RequestOf(s).cmd \in Installed
             astray == RequestOf(s).cmd \in Installed \ Startable
  <2>2. /\ bad \subseteq {"allowed_commands"} /\ here
        /\ s.model = "sonnet" => s.provider = "claude"
    BY <1>1, <1>2, Sayable
  <2>3. /\ model' = [name |-> s.model, provider |-> s.provider]
        /\ blame' = CASE bad # {} -> CHOOSE part \in bad : TRUE
                      [] bad = {} /\ ~here -> "cmd"
                      [] bad = {} /\ astray -> "path"
                      [] OTHER -> "nothing"
    BY <2>1, Zenon DEF Ask
  <2> HIDE DEF s, bad, here, astray
  <2>4. blame' \in {"allowed_commands", "path", "nothing"}
    <3>1. CASE bad = {}
      <4>1. blame' = CASE astray -> "path" [] OTHER -> "nothing"
        BY <2>2, <2>3, <3>1
      <4> QED
        BY <4>1
    <3>2. CASE bad # {}
      <4>1. blame' = CHOOSE part \in bad : TRUE
        BY <2>3, <3>2, Zenon
      <4>2. (CHOOSE part \in bad : TRUE) \in bad
        BY <3>2, Zenon
      <4> QED
        BY <2>2, <4>1, <4>2
    <3> QED
      BY <3>1, <3>2
  <2>5. ConfigurationIsTrusted'
    BY <2>4 DEF ConfigurationIsTrusted
  <2>6. model'.name = s.model /\ model'.provider = s.provider
    BY <2>3
  <2>7. ModelStaysWithProvider'
    BY <2>2, <2>6, Zenon DEF ModelStaysWithProvider
  <2> QED
    BY <1>3, <2>5, <2>7, Zenon DEF SettingsInv
<1>5. CASE \E argv : Check(argv)
  <2>1. blame' \in {"nothing", "gate"} /\ UNCHANGED model
    BY <1>5, Zenon DEF Check
  <2>2. ConfigurationIsTrusted' /\ ModelStaysWithProvider'
    BY <2>1 DEF SettingsInv, ConfigurationIsTrusted, ModelStaysWithProvider
  <2> QED
    BY <1>3, <2>2, Zenon DEF SettingsInv
<1> QED
  BY <1>4, <1>5, Zenon DEF Begin

\* The invariant is inductive.
LEMMA TrustedStep ==
  ASSUME IInv, SettingsInv, [Next]_vars
  PROVE  SettingsInv'
<1>0. written \subseteq Settings
  BY DEF IInv, TypeOK
<1> USE DEF Loaded, Built, Checked, Ready, Prepared
<1>1. CASE Set
  BY <1>0, <1>1, SetTrusted
<1>2. CASE Take
  <2>1. UNCHANGED <<blame, model>> /\ stage = "ready"
    BY <1>2 DEF Take, workVars
  <2>2. ConfigurationIsTrusted' /\ ModelStaysWithProvider'
    BY <2>1 DEF SettingsInv, ConfigurationIsTrusted, ModelStaysWithProvider
  <2>3. CASE \E c \in {0, 1} : ExitWith(c)
    <3>1. stage' = "exited" /\ cfg' = NoConfig /\ written' = {}
      BY <2>3, Zenon DEF ExitWith
    <3>2. IsFiniteSet({})
      BY FS_EmptySet
    <3> QED
      BY <2>2, <3>1, <3>2 DEF SettingsInv, Trusted
  <2>4. CASE Proceed("taken")
    <3>1. stage' = "taken" /\ UNCHANGED <<typedVars, lacking, written, cfg>>
      BY <2>4, Zenon DEF Proceed
    <3>2. IsFiniteSet(written') /\ Trusted'
      BY <2>1, <3>1, WorkGoesOn
    <3> QED
      BY <2>2, <3>2, Zenon DEF SettingsInv
  <2> QED
    BY <1>2, <2>3, <2>4, Zenon DEF Take
<1>3. CASE Prepare
  <2>1. blame' \in {"branch", blame} /\ stage = "taken"
    BY <1>3, Zenon DEF Prepare
  <2>2. ConfigurationIsTrusted'
    BY <2>1 DEF SettingsInv, ConfigurationIsTrusted
  <2>3. CASE Forget("heard")
    BY <2>2, <2>3, Forgotten DEF SettingsInv
  <2>4. CASE ~MovesCommits /\ Proceed("prepared") /\ UNCHANGED model
    <3>1. stage' = "prepared" /\ UNCHANGED <<typedVars, lacking, written, cfg>>
      BY <2>4, Zenon DEF Proceed
    <3>2. IsFiniteSet(written') /\ Trusted'
      BY <2>1, <2>4, <3>1, WorkGoesOn
    <3>3. ModelStaysWithProvider'
      BY <2>4 DEF SettingsInv, ModelStaysWithProvider
    <3> QED
      BY <2>2, <3>2, <3>3, Zenon DEF SettingsInv
  <2> QED
    BY <1>3, <2>3, <2>4, Zenon DEF Prepare
<1>4. CASE Begin
  BY <1>4, BeginTrusted
<1>5. CASE Start
  <2>1. Forget("calling") /\ UNCHANGED blame
    BY <1>5, Zenon DEF Start
  <2> QED
    BY <2>1, Forgotten DEF SettingsInv, ConfigurationIsTrusted
<1>6. CASE Report
  <2>1. Forget("exited") /\ UNCHANGED blame
    BY <1>6, Zenon DEF Report
  <2> QED
    BY <2>1, Forgotten DEF SettingsInv, ConfigurationIsTrusted
<1>7. CASE UNCHANGED <<setupVars, workVars>>
  <2>1. /\ UNCHANGED <<stage, typedVars, lacking, written, cfg, blame, model>>
    BY <1>7 DEF setupVars, workVars
  <2>2. /\ pick' = pick /\ Lc' = Lc /\ (stepsBuild' <=> stepsBuild) /\ cfg' = cfg
        /\ (MovesCommits' <=> MovesCommits) /\ commands' = commands /\ Installed' = Installed
    BY <2>1, SameBuild
  <2>3. Valid(cfg)' <=> Valid(cfg)
    BY <2>2, Zenon DEF Valid
  <2>4. Trusted'
    BY <2>1, <2>2, <2>3 DEF SettingsInv, Trusted
  <2> QED
    BY <2>1, <2>4 DEF SettingsInv, ConfigurationIsTrusted, ModelStaysWithProvider
<1>8. CASE Underway \/ Over \/ UNCHANGED vars
  <2>1. UNCHANGED <<setupVars, workVars>>
    BY <1>8 DEF Underway, Over, vars
  <2> QED
    BY <1>7, <2>1
<1> QED
  BY <1>1, <1>2, <1>3, <1>4, <1>5, <1>6, <1>8, Zenon DEF Next

\* The invariant holds of every invocation.
LEMMA AlwaysTrusted == Spec => []SettingsInv
<1>1. IInv /\ SettingsInv /\ [Next]_vars => SettingsInv'
  BY TrustedStep
<1> QED
  BY <1>1, FirstTrusted, Invariance, PTL DEF Spec

\* Whatever the settings, no setting stops the work once a task is taken but in four ways:
\* what claude's rules cannot say, a title or an id that makes a bad branch, a check that is
\* not installed, and an agent's command that is a relative path which leads nowhere from
\* the workspace.
THEOREM NothingElseStopsTheWork == Spec => []ConfigurationIsTrusted
BY AlwaysTrusted, PTL DEF SettingsInv

\* Whatever the file says of providers and steps, no agent is asked for the model that the
\* preset meant for another provider.
THEOREM ModelsAreNotMixedUp == Spec => []ModelStaysWithProvider
BY AlwaysTrusted, PTL DEF SettingsInv

\* However the paths of a configuration that loads are written, none leads out of the
\* repository.
THEOREM NoPathLeadsOut == Spec => []PathsStayInside
<1>1. SettingsInv => PathsStayInside
  <2>1. cfg = NoConfig => PathsStayInside
    BY Zenon DEF PathsStayInside
  <2> QED
    BY <2>1, ValidStays, Zenon DEF SettingsInv, Trusted
<1> QED
  BY <1>1, AlwaysTrusted, PTL

\* In a configuration that loads, no two tasks share a branch if the template sets the id
\* apart, and none that has a digit that the base has not works on the base.
THEOREM BranchesTellTasksApart == Spec => []TasksHaveOwnBranches
<1>1. SettingsInv => TasksHaveOwnBranches
  <2>1. cfg = NoConfig => TasksHaveOwnBranches
    BY Zenon DEF TasksHaveOwnBranches
  <2> QED
    BY <2>1, ValidOwns, Zenon DEF SettingsInv, Trusted
<1> QED
  BY <1>1, AlwaysTrusted, PTL
=============================================================================
