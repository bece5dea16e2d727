------------------------------ MODULE ListLemmas ------------------------------
(***************************************************************************)
(* What the provers need to follow a loop over a list: induction up to a   *)
(* bound, of a set instead of a predicate, that a loop, a fold and a       *)
(* concatenation of lists have the values their equations give, and what   *)
(* Only and the other operators on lists keep.  The step of a loop is a    *)
(* function, g[x][v], because an operator cannot be given to a lemma.      *)
(***************************************************************************)
EXTENDS Lists, TLAPS, WellFoundedInduction, SequenceTheorems


\* Whatever holds of 0 and goes on from each number to the next holds up to n.
LEMMA UpTo ==
    ASSUME NEW n \in Nat, NEW S, 0 \in S, \A i \in 0 .. (n - 1) : i \in S => i + 1 \in S
    PROVE  0 .. n \subseteq S
<1> DEFINE Missing == (0 .. n) \ S
           Less == OpToRel(<, Nat)
<1> SUFFICES ASSUME Missing # {} PROVE FALSE
  OBVIOUS
<1>1. IsWellFoundedOn(Less, Nat)
  BY NatLessThanWellFounded
<1>2. Missing \subseteq Nat
  OBVIOUS
<1>3. PICK m \in Missing : \A k \in Missing : <<k, m>> \notin Less
  <2> HIDE DEF Missing, Less
  <2> QED  BY <1>1, <1>2, WFMin
<1>4. m \in 1 .. n /\ m - 1 \in 0 .. (n - 1) /\ m - 1 \in Nat
  OBVIOUS
<1>5. m - 1 \notin S
  BY <1>4
<1>6. m - 1 \in Missing /\ <<m - 1, m>> \in Less
  BY <1>4, <1>5 DEF OpToRel
<1> QED  BY <1>3, <1>6

\* The folds of any part of the first k elements of s.
Folds(k, s, V, a, g) ==
    {f \in [SUBSET (1 .. k) -> V] :
        \A P \in SUBSET (1 .. k) :
            f[P] = IF P = {} THEN a ELSE g[s[Max(P)]][f[P \ {Max(P)}]]}

\* The largest element of a part that has k + 1.
LEMMA LargestOfPart ==
    ASSUME NEW k \in Nat, NEW P \in SUBSET (1 .. (k + 1)), k + 1 \in P
    PROVE  Max(P) = k + 1
<1>1. \A y \in P : y \in Nat /\ k + 1 >= y
  OBVIOUS
<1>2. \A x \in P : (\A y \in P : x >= y) => x = k + 1
  BY <1>1
<1>3. (CHOOSE x \in P : \A y \in P : x >= y) = k + 1
  BY <1>1, <1>2
<1> QED  BY <1>3 DEF Max

\* A fold of the first elements takes the last of them last.
LEMMA FirstElements ==
    ASSUME NEW n \in Nat, NEW i \in 1 .. n
    PROVE  /\ 1 .. i \in SUBSET (1 .. n) /\ 1 .. i # {}
           /\ Max(1 .. i) = i /\ (1 .. i) \ {i} = 1 .. (i - 1)
<1>1. i - 1 \in Nat /\ i = (i - 1) + 1 /\ i \in 1 .. i
  OBVIOUS
<1>2. Max(1 .. i) = i
  BY <1>1, LargestOfPart
<1> QED  BY <1>1, <1>2

\* A part of the first numbers has a largest element.
LEMMA PartHasLargest ==
    ASSUME NEW k \in Nat, NEW P \in SUBSET (1 .. k), P # {}
    PROVE  Max(P) \in P
<1> DEFINE S == {j \in 0 .. k : \A Q \in SUBSET (1 .. j) : Q # {} => Max(Q) \in Q}
<1>1. 0 \in S
  <2>1. 0 \in 0 .. k /\ \A Q \in SUBSET (1 .. 0) : Q = {}
    OBVIOUS
  <2> QED  BY <2>1, Zenon
<1>2. ASSUME NEW j \in 0 .. (k - 1), j \in S PROVE j + 1 \in S
  <2>1. ASSUME NEW Q \in SUBSET (1 .. (j + 1)), Q # {} PROVE Max(Q) \in Q
    <3>1. CASE j + 1 \in Q
      BY <3>1, LargestOfPart
    <3>2. CASE j + 1 \notin Q
      <4>1. Q \in SUBSET (1 .. j)
        BY <3>2
      <4> QED  BY <1>2, <2>1, <4>1
    <3> QED  BY <3>1, <3>2
  <2>2. j + 1 \in 0 .. k
    OBVIOUS
  <2> QED  BY <2>1, <2>2, Zenon
<1>3. k \in S
  <2> HIDE DEF S
  <2>1. 0 .. k \subseteq S
    BY <1>1, <1>2, UpTo
  <2> QED  BY <2>1
<1> QED  BY <1>3

\* And a smallest one.
LEMMA PartHasSmallest ==
    ASSUME NEW k \in Nat, NEW P \in SUBSET (1 .. k), P # {}
    PROVE  Min(P) \in P /\ \A j \in P : Min(P) <= j
<1> DEFINE Less == OpToRel(<, Nat)
<1>1. IsWellFoundedOn(Less, Nat)
  BY NatLessThanWellFounded
<1>2. P \subseteq Nat /\ P # {}
  OBVIOUS
<1>3. PICK m \in P : \A j \in P : <<j, m>> \notin Less
  <2> HIDE DEF Less
  <2> QED  BY <1>1, <1>2, WFMin
<1>4. ASSUME NEW j \in P PROVE m <= j
  <2>1. j \in Nat /\ m \in Nat /\ <<j, m>> \notin Less
    BY <1>2, <1>3
  <2>2. ~(j < m)
    BY <2>1 DEF OpToRel
  <2> HIDE DEF Less
  <2> QED  BY <2>1, <2>2
<1>5. \E x \in P : \A y \in P : x <= y
  BY <1>4
<1> QED  BY <1>5, Zenon DEF Min

\* A function of the kind MapThenFoldSet chooses exists.
LEMMA FoldExists ==
    ASSUME NEW T, NEW s \in Seq(T), NEW V, NEW a \in V, NEW g \in [T -> [V -> V]]
    PROVE  Folds(Len(s), s, V, a, g) # {}
<1> DEFINE n == Len(s)
           S == {k \in 0 .. n : Folds(k, s, V, a, g) # {}}
<1>0. n \in Nat /\ \A i \in 1 .. n : s[i] \in T
  OBVIOUS
<1>1. 0 \in S
  <2> DEFINE f == [P \in SUBSET (1 .. 0) |-> a]
  <2>1. \A P \in SUBSET (1 .. 0) : P = {} /\ f[P] = a
    OBVIOUS
  <2>2. f \in Folds(0, s, V, a, g)
    BY <2>1 DEF Folds
  <2> QED  BY <2>2
<1>2. ASSUME NEW k \in 0 .. (n - 1), k \in S PROVE k + 1 \in S
  <2>1. PICK f : f \in Folds(k, s, V, a, g)
    BY <1>2
  <2>2. /\ f \in [SUBSET (1 .. k) -> V]
        /\ \A P \in SUBSET (1 .. k) :
              f[P] = IF P = {} THEN a ELSE g[s[Max(P)]][f[P \ {Max(P)}]]
    BY <2>1 DEF Folds
  <2> DEFINE h == [P \in SUBSET (1 .. (k + 1)) |->
                     IF k + 1 \in P THEN g[s[k + 1]][f[P \ {k + 1}]] ELSE f[P]]
  <2>3. \A P \in SUBSET (1 .. (k + 1)) : k + 1 \notin P => P \in SUBSET (1 .. k)
    OBVIOUS
  <2>4. \A P \in SUBSET (1 .. (k + 1)) : P \ {k + 1} \in SUBSET (1 .. k)
    OBVIOUS
  <2>5. s[k + 1] \in T
    BY <1>0
  <2>6. ASSUME NEW P \in SUBSET (1 .. (k + 1)) PROVE h[P] \in V
    <3>1. CASE k + 1 \in P
      <4>1. f[P \ {k + 1}] \in V
        BY <2>2, <2>4
      <4> QED  BY <2>5, <3>1, <4>1
    <3>2. CASE k + 1 \notin P
      BY <2>2, <2>3, <3>2
    <3> QED  BY <3>1, <3>2
  <2>7. h \in [SUBSET (1 .. (k + 1)) -> V]
    BY <2>6
  <2>8. \A P \in SUBSET (1 .. (k + 1)) :
           h[P] = IF k + 1 \in P THEN g[s[k + 1]][f[P \ {k + 1}]] ELSE f[P]
    OBVIOUS
  <2> HIDE DEF h
  <2>9. ASSUME NEW P \in SUBSET (1 .. (k + 1))
        PROVE  h[P] = IF P = {} THEN a ELSE g[s[Max(P)]][h[P \ {Max(P)}]]
    <3>1. CASE k + 1 \in P
      <4>1. Max(P) = k + 1
        BY <3>1, LargestOfPart
      <4>2. P \ {k + 1} \in SUBSET (1 .. (k + 1)) /\ k + 1 \notin P \ {k + 1}
        OBVIOUS
      <4>3. h[P \ {k + 1}] = f[P \ {k + 1}]
        BY <2>8, <4>2
      <4> QED  BY <2>8, <3>1, <4>1, <4>3
    <3>2. CASE k + 1 \notin P
      <4>1. P \in SUBSET (1 .. k)
        BY <2>3, <3>2
      <4>2. h[P] = f[P]
        BY <2>8, <3>2
      <4>3. P # {} => h[P \ {Max(P)}] = f[P \ {Max(P)}]
        <5>1. P \ {Max(P)} \in SUBSET (1 .. (k + 1)) /\ k + 1 \notin P \ {Max(P)}
          BY <3>2
        <5> QED  BY <2>8, <5>1
      <4> QED  BY <2>2, <4>1, <4>2, <4>3
    <3> QED  BY <3>1, <3>2
  <2>10. h \in Folds(k + 1, s, V, a, g)
    BY <2>7, <2>9 DEF Folds
  <2> QED  BY <2>10
<1>3. n \in S
  <2> HIDE DEF S, n
  <2>1. 0 .. n \subseteq S
    BY <1>0, <1>1, <1>2, UpTo
  <2> QED  BY <1>0, <2>1
<1> QED  BY <1>3

\* Appending adds one element, and no duplicate unless the element was there.
LEMMA AppendAdds ==
    ASSUME NEW T, NEW v \in Seq(T), NEW x \in T
    PROVE  /\ Append(v, x) \in Seq(T) /\ Append(v, x) # <<>>
           /\ ToSet(Append(v, x)) = ToSet(v) \union {x}
           /\ IsInjective(v) /\ x \notin ToSet(v) => IsInjective(Append(v, x))
<1> DEFINE w == Append(v, x)
           n == Len(v)
<1>1. /\ n \in Nat /\ DOMAIN v = 1 .. n /\ DOMAIN w = 1 .. (n + 1)
      /\ \A i \in 1 .. n : w[i] = v[i]
      /\ w[n + 1] = x /\ w \in Seq(T) /\ w # <<>>
  OBVIOUS
<1> HIDE DEF n, w
<1>2. ToSet(w) = ToSet(v) \union {x}
  <2>1. \A i \in 1 .. (n + 1) : i \in 1 .. n \/ i = n + 1
    BY <1>1
  <2>2. 1 .. n \subseteq 1 .. (n + 1) /\ n + 1 \in 1 .. (n + 1)
    BY <1>1
  <2> QED  BY <1>1, <2>1, <2>2 DEF ToSet
<1>3. ASSUME IsInjective(v), x \notin ToSet(v) PROVE IsInjective(w)
  <2>1. /\ \A i \in 1 .. (n + 1) : i \in 1 .. n \/ i = n + 1
        /\ \A i \in 1 .. n : w[i] = v[i] /\ v[i] # x
    BY <1>1, <1>3 DEF ToSet
  <2>2. \A i, j \in 1 .. n : v[i] = v[j] => i = j
    BY <1>1, <1>3 DEF IsInjective
  <2>3. ASSUME NEW i \in 1 .. (n + 1), NEW j \in 1 .. (n + 1), w[i] = w[j] PROVE i = j
    BY <1>1, <2>1, <2>2, <2>3
  <2> QED  BY <1>1, <2>3 DEF IsInjective
<1> QED  BY <1>1, <1>2, <1>3 DEF w

\* Only adds the elements of S, one after the other.
LEMMA OnlyLoop ==
    ASSUME NEW T, NEW s \in Seq(T), NEW S
    PROVE  \E f : /\ f[0] = <<>> /\ f[Len(s)] = Only(s, S)
                  /\ \A i \in 1 .. Len(s) :
                        f[i] = IF s[i] \in S THEN Append(f[i - 1], s[i]) ELSE f[i - 1]
<1> DEFINE n == Len(s)
           step(v, x) == IF x \in S THEN Append(v, x) ELSE v
           g == [x \in T |-> [v \in Seq(T) |-> step(v, x)]]
           Eq(F) == F = [P \in SUBSET DOMAIN s |->
                           IF P = {} THEN <<>> ELSE step(F[P \ {Max(P)}], s[Max(P)])]
           F == CHOOSE h : Eq(h)
           f == [i \in 0 .. n |-> F[1 .. i]]
<1>0. n \in Nat /\ DOMAIN s = 1 .. n /\ \A i \in 1 .. n : s[i] \in T
  OBVIOUS
<1>1. <<>> \in Seq(T) /\ g \in [T -> [Seq(T) -> Seq(T)]]
  OBVIOUS
<1>2. PICK h : h \in Folds(n, s, Seq(T), <<>>, g)
  <2> HIDE DEF g
  <2>1. Folds(n, s, Seq(T), <<>>, g) # {}
    BY <1>1, FoldExists
  <2> QED  BY <2>1
<1>3. Eq(h)
  <2>1. ASSUME NEW P \in SUBSET (1 .. n)
        PROVE  h[P] = IF P = {} THEN <<>> ELSE step(h[P \ {Max(P)}], s[Max(P)])
    <3>1. CASE P = {}
      BY <1>2, <3>1 DEF Folds
    <3>2. CASE P # {}
      <4>1. h[P] = g[s[Max(P)]][h[P \ {Max(P)}]]
        BY <1>2, <3>2 DEF Folds
      <4>2. Max(P) \in P /\ s[Max(P)] \in T
        BY <1>0, <3>2, PartHasLargest
      <4>3. h[P \ {Max(P)}] \in Seq(T)
        BY <1>2 DEF Folds
      <4> QED  BY <3>2, <4>1, <4>2, <4>3
    <3> QED  BY <3>1, <3>2
  <2> QED  BY <1>0, <1>2, <2>1 DEF Folds
<1>4. Eq(F)
  <2> HIDE DEF Eq
  <2> QED  BY <1>3, Zenon
<1>5. Only(s, S) = F[DOMAIN s]
  BY DEF Only, FoldLeft, MapThenFoldSet
<1>6. \A P \in SUBSET (1 .. n) : F[P] = IF P = {} THEN <<>> ELSE step(F[P \ {Max(P)}], s[Max(P)])
  <2> HIDE DEF F, step
  <2> QED  BY <1>0, <1>4
<1> HIDE DEF F
<1>7. f[0] = <<>> /\ f[n] = F[DOMAIN s]
  <2>1. 1 .. 0 = {} /\ {} \in SUBSET (1 .. n) /\ 0 \in 0 .. n /\ n \in 0 .. n
    BY <1>0
  <2>2. F[{}] = <<>>
    BY <1>6, <2>1
  <2>3. f[0] = F[1 .. 0] /\ f[n] = F[1 .. n]
    BY <2>1
  <2> QED  BY <1>0, <2>1, <2>2, <2>3
<1>8. ASSUME NEW i \in 1 .. n PROVE f[i] = step(f[i - 1], s[i])
  <2>1. F[1 .. i] = step(F[1 .. (i - 1)], s[i])
    BY <1>0, <1>6, FirstElements
  <2>2. f[i] = F[1 .. i] /\ f[i - 1] = F[1 .. (i - 1)]
    BY <1>0
  <2> QED  BY <2>1, <2>2
<1> QED
  BY <1>0, <1>5, <1>7, <1>8

\* What is kept is what is in S, and nothing twice.
LEMMA OnlyKeeps ==
    ASSUME NEW T, NEW s \in Seq(T), NEW S
    PROVE  /\ Only(s, S) \in Seq(T)
           /\ ToSet(Only(s, S)) = ToSet(s) \intersect S
           /\ IsInjective(s) => IsInjective(Only(s, S))
<1> DEFINE n == Len(s)
           kept(k) == {s[i] : i \in 1 .. k} \intersect S
           Good(v, k) == /\ v \in Seq(T) /\ ToSet(v) = kept(k)
                         /\ IsInjective(s) => IsInjective(v)
<1>0. n \in Nat /\ DOMAIN s = 1 .. n /\ \A i \in 1 .. n : s[i] \in T
  OBVIOUS
<1>1. PICK f : /\ f[0] = <<>> /\ f[n] = Only(s, S)
               /\ \A i \in 1 .. n :
                     f[i] = IF s[i] \in S THEN Append(f[i - 1], s[i]) ELSE f[i - 1]
  BY OnlyLoop
<1> DEFINE Done == {k \in 0 .. n : Good(f[k], k)}
<1>2. 0 \in Done
  <2>1. kept(0) = {} /\ ToSet(<<>>) = {} /\ IsInjective(<<>>) /\ <<>> \in Seq(T)
    BY DEF ToSet, IsInjective
  <2>2. Good(f[0], 0)
    BY <1>1, <2>1
  <2> HIDE DEF Good
  <2> QED  BY <1>0, <2>2
<1>3. ASSUME NEW k \in 0 .. (n - 1), k \in Done PROVE k + 1 \in Done
  <2> DEFINE v == f[k]
             x == s[k + 1]
  <2>1. Good(v, k) /\ k + 1 \in 1 .. n /\ x \in T
    BY <1>0, <1>3
  <2>2. f[k + 1] = IF x \in S THEN Append(v, x) ELSE v
    BY <1>1, <2>1
  <2>3. {s[i] : i \in 1 .. (k + 1)} = {s[i] : i \in 1 .. k} \union {x}
    OBVIOUS
  <2>4. CASE x \in S
    <3>1. Append(v, x) \in Seq(T) /\ ToSet(Append(v, x)) = ToSet(v) \union {x}
      BY <2>1, AppendAdds
    <3>2. ASSUME IsInjective(s) PROVE IsInjective(Append(v, x))
      <4>1. \A i \in 1 .. k : s[i] # x
        BY <1>0, <2>1, <3>2 DEF IsInjective
      <4>2. x \notin ToSet(v) /\ IsInjective(v)
        BY <2>1, <3>2, <4>1
      <4> QED  BY <2>1, <4>2, AppendAdds
    <3>3. ToSet(Append(v, x)) = kept(k + 1)
      BY <2>1, <2>3, <2>4, <3>1
    <3>4. k + 1 \in 0 .. n /\ f[k + 1] = Append(v, x)
      BY <2>1, <2>2, <2>4
    <3>5. Good(Append(v, x), k + 1)
      BY <3>1, <3>2, <3>3
    <3> HIDE DEF Good, v, x
    <3> QED  BY <3>4, <3>5
  <2>5. CASE x \notin S
    <3>1. kept(k + 1) = kept(k)
      BY <2>3, <2>5
    <3> QED  BY <2>1, <2>2, <2>5, <3>1
  <2> QED  BY <2>4, <2>5
<1>4. n \in Done
  <2> HIDE DEF Done, n
  <2>1. 0 .. n \subseteq Done
    BY <1>0, <1>2, <1>3, UpTo
  <2> QED  BY <1>0, <2>1
<1>5. kept(n) = ToSet(s) \intersect S
  BY <1>0 DEF ToSet
<1> QED  BY <1>1, <1>4, <1>5

\* Only keeps all of a set that the list holds.
LEMMA OnlyOfPart ==
    ASSUME NEW T, NEW s \in Seq(T), IsInjective(s), NEW P \in SUBSET ToSet(s)
    PROVE  ToSet(Only(s, P)) = P /\ IsInjective(Only(s, P))
<1>1. ToSet(s) \intersect P = P
  OBVIOUS
<1>2. ToSet(Only(s, P)) = ToSet(s) \intersect P /\ IsInjective(Only(s, P))
  BY OnlyKeeps
<1> QED  BY <1>1, <1>2

\* A sequence is a list of its elements.
LEMMA SequencesAreLists == ASSUME NEW T, NEW s \in Seq(T) PROVE IsList(s)
<1>1. s \in [1 .. Len(s) -> ToSet(s)] /\ Len(s) \in Nat
  BY DEF ToSet
<1> DEFINE D == ToSet(s)
<1> HIDE DEF D
<1>2. s \in Seq(D)
  BY <1>1, SeqDef DEF D
<1> QED  BY <1>2 DEF IsList, D

\* What is kept of a list is a list.
LEMMA OnlyIsList ==
    ASSUME NEW s, IsList(s), NEW S
    PROVE  IsList(Only(s, S)) /\ ToSet(Only(s, S)) = ToSet(s) \intersect S
<1> DEFINE T == ToSet(s)
<1>1. s \in Seq(T)
  BY DEF IsList
<1> HIDE DEF T
<1>2. Only(s, S) \in Seq(T) /\ ToSet(Only(s, S)) = ToSet(s) \intersect S
  BY <1>1, OnlyKeeps
<1> QED  BY <1>2, SequencesAreLists

\* Two lists after each other hold what either holds.
LEMMA ListsTogether ==
    ASSUME NEW a, NEW b, IsList(a), IsList(b)
    PROVE  IsList(a \o b) /\ ToSet(a \o b) = ToSet(a) \union ToSet(b)
<1> DEFINE T == ToSet(a) \union ToSet(b)
           c == a \o b
<1>1. a \in Seq(T) /\ b \in Seq(T)
  BY SeqMonotonic DEF IsList
<1>2. c \in Seq(T) /\ Len(c) = Len(a) + Len(b)
      /\ \A i \in 1 .. Len(a) + Len(b) : c[i] = IF i <= Len(a) THEN a[i] ELSE b[i - Len(a)]
  BY <1>1, ConcatProperties
<1>3. /\ Len(a) \in Nat /\ DOMAIN a = 1 .. Len(a) /\ Len(b) \in Nat /\ DOMAIN b = 1 .. Len(b)
      /\ DOMAIN c = 1 .. Len(a) + Len(b)
  BY <1>1, <1>2
<1> HIDE DEF c
<1>4. ASSUME NEW i \in DOMAIN c PROVE c[i] \in T
  BY <1>2, <1>3 DEF ToSet
<1>5. ASSUME NEW i \in DOMAIN a PROVE a[i] \in ToSet(c)
  <2>1. i \in DOMAIN c /\ c[i] = a[i]
    BY <1>2, <1>3
  <2> QED  BY <2>1 DEF ToSet
<1>6. ASSUME NEW i \in DOMAIN b PROVE b[i] \in ToSet(c)
  <2>1. i + Len(a) \in DOMAIN c /\ c[i + Len(a)] = b[i]
    BY <1>2, <1>3
  <2> QED  BY <2>1 DEF ToSet
<1>7. ToSet(c) = T
  BY <1>4, <1>5, <1>6 DEF ToSet
<1> QED  BY <1>2, <1>7 DEF IsList, c

\* A list of one element is a list.
LEMMA ListOfOne == ASSUME NEW e PROVE IsList(<<e>>) /\ ToSet(<<e>>) = {e}
  BY DEF IsList, ToSet

\* A list of elements of D is a sequence over D.
LEMMA ListOver ==
    ASSUME NEW s, IsList(s), NEW D, ToSet(s) \subseteq D PROVE s \in Seq(D)
  BY SeqMonotonic DEF IsList

\* The head of a list and its tail are its elements.
LEMMA HeadAndTail ==
    ASSUME NEW T, NEW s \in Seq(T), s # <<>>
    PROVE  Head(s) \in T /\ Tail(s) \in Seq(T) /\ ToSet(s) = {Head(s)} \union ToSet(Tail(s))
<1>1. Len(s) \in Nat \ {0} /\ DOMAIN s = 1 .. Len(s) /\ \A i \in 1 .. Len(s) : s[i] \in T
  OBVIOUS
<1>2. Head(s) = s[1] /\ Tail(s) \in Seq(T) /\ Len(Tail(s)) = Len(s) - 1
  OBVIOUS
<1>3. \A i \in 1 .. Len(s) - 1 : Tail(s)[i] = s[i + 1]
  OBVIOUS
<1>4. DOMAIN Tail(s) = 1 .. Len(s) - 1
  BY <1>2
<1>5. ASSUME NEW i \in 1 .. Len(s) PROVE s[i] \in {Head(s)} \union ToSet(Tail(s))
  <2>1. CASE i = 1
    BY <1>2, <2>1
  <2>2. CASE i # 1
    <3>1. i - 1 \in 1 .. Len(s) - 1 /\ (i - 1) + 1 = i
      BY <1>1, <2>2
    <3>2. s[i] = Tail(s)[i - 1]
      BY <1>3, <3>1
    <3> QED  BY <1>4, <3>1, <3>2 DEF ToSet
  <2> QED  BY <2>1, <2>2
<1>6. ASSUME NEW i \in 1 .. Len(s) - 1 PROVE Tail(s)[i] \in ToSet(s)
  <2>1. i + 1 \in 1 .. Len(s)
    BY <1>1
  <2> QED  BY <1>1, <1>3, <2>1 DEF ToSet
<1>7. Head(s) \in ToSet(s) /\ Head(s) \in T
  BY <1>1, <1>2 DEF ToSet
<1>8. ToSet(s) = {s[i] : i \in 1 .. Len(s)} /\ ToSet(Tail(s)) = {Tail(s)[i] : i \in 1 .. Len(s) - 1}
  BY <1>1, <1>4 DEF ToSet
<1> QED  BY <1>2, <1>5, <1>6, <1>7, <1>8

\* A list by index is a list.
LEMMA ListByIndex ==
    ASSUME NEW n \in Nat, NEW s, s = [i \in 1 .. n |-> s[i]]
    PROVE  IsList(s) /\ Len(s) = n /\ ToSet(s) = {s[i] : i \in 1 .. n}
<1>1. DOMAIN s = 1 .. n
  OBVIOUS
<1>2. ToSet(s) = {s[i] : i \in 1 .. n}
  BY <1>1 DEF ToSet
<1>3. \A i \in 1 .. n : s[i] \in ToSet(s)
  BY <1>2
<1>4. s \in Seq(ToSet(s))
  BY <1>1, <1>3, SeqDef
<1> QED  BY <1>1, <1>2, <1>4 DEF IsList

\* The values over V of a loop of n rounds that starts with a and does g[i] in round i ...
LoopValues(n, V, a, g) ==
    {f \in [0 .. n -> V] : f[0] = a /\ \A i \in 1 .. n : f[i] = g[i][f[i - 1]]}

\* ... exist.
LEMMA LoopExists ==
    ASSUME NEW n \in Nat, NEW V, NEW a \in V, NEW g \in [1 .. n -> [V -> V]]
    PROVE  LoopValues(n, V, a, g) # {}
<1> DEFINE Runs(k) == {f \in [0 .. k -> V] : f[0] = a /\ \A i \in 1 .. k : f[i] = g[i][f[i - 1]]}
           S == {k \in 0 .. n : Runs(k) # {}}
<1>1. 0 \in S
  <2>1. [i \in 0 .. 0 |-> a] \in Runs(0)
    OBVIOUS
  <2> QED  BY <2>1
<1>2. ASSUME NEW k \in 0 .. (n - 1), k \in S PROVE k + 1 \in S
  <2>1. PICK f : f \in Runs(k)
    BY <1>2
  <2> DEFINE h == [i \in 0 .. (k + 1) |-> IF i = k + 1 THEN g[k + 1][f[k]] ELSE f[i]]
  <2>2. k + 1 \in 1 .. n /\ k \in 0 .. k /\ f[k] \in V /\ f \in [0 .. k -> V]
    BY <2>1
  <2>3. g[k + 1][f[k]] \in V
    BY <2>2
  <2>4. h \in [0 .. (k + 1) -> V] /\ h[0] = a
    BY <2>1, <2>2, <2>3
  <2>5. ASSUME NEW i \in 1 .. (k + 1) PROVE h[i] = g[i][h[i - 1]]
    <3>1. CASE i = k + 1
      <4>1. h[i - 1] = f[k] /\ h[i] = g[k + 1][f[k]]
        BY <3>1
      <4> QED  BY <3>1, <4>1
    <3>2. CASE i # k + 1
      <4>1. i \in 1 .. k /\ h[i] = f[i] /\ h[i - 1] = f[i - 1]
        BY <3>2
      <4> QED  BY <2>1, <4>1
    <3> QED  BY <3>1, <3>2
  <2>6. h \in Runs(k + 1)
    BY <2>4, <2>5
  <2>7. k + 1 \in 0 .. n
    OBVIOUS
  <2> HIDE DEF Runs, h
  <2> QED  BY <2>6, <2>7
<1>3. n \in S
  <2> HIDE DEF S
  <2>1. 0 .. n \subseteq S
    BY <1>1, <1>2, UpTo
  <2> QED  BY <2>1
<1> QED  BY <1>3 DEF LoopValues

\* FlattenSeq joins the lists one after the other.
LEMMA FlattenLoop ==
    ASSUME NEW T, NEW ss \in Seq(Seq(T)), ss # <<>>
    PROVE  \E f : /\ f[1] = ss[1] /\ f[Len(ss)] = FlattenSeq(ss)
                  /\ \A i \in 2 .. Len(ss) : f[i] = f[i - 1] \o ss[i]
<1> DEFINE n == Len(ss)
           Eq(F) == F = [i \in 1 .. n |-> IF i = 1 THEN ss[i] ELSE F[i - 1] \o ss[i]]
           F == CHOOSE h : Eq(h)
           g == [i \in 1 .. (n - 1) |-> [v \in Seq(T) |-> v \o ss[i + 1]]]
           last == n - 1
           V == Seq(T)
           first == ss[1]
<1>0. n \in Nat /\ n >= 1 /\ \A i \in 1 .. n : ss[i] \in Seq(T)
  OBVIOUS
<1>1. last \in Nat /\ first \in V
  BY <1>0
<1>2. g \in [1 .. last -> [V -> V]]
  <2>1. ASSUME NEW i \in 1 .. last, NEW v \in Seq(T) PROVE v \o ss[i + 1] \in Seq(T)
    <3>1. i + 1 \in 1 .. n
      BY <1>0
    <3> QED  BY <1>0, <3>1, ConcatProperties
  <2> QED  BY <2>1
<1>3. PICK f \in [0 .. (n - 1) -> Seq(T)] :
          f[0] = ss[1] /\ \A i \in 1 .. (n - 1) : f[i] = g[i][f[i - 1]]
  <2>1. LoopValues(last, V, first, g) # {}
    <3> HIDE DEF last, g, V, first
    <3> QED  BY <1>1, <1>2, LoopExists
  <2> QED  BY <2>1 DEF LoopValues
<1> DEFINE h == [i \in 1 .. n |-> f[i - 1]]
<1>4. Eq(h)
  <2>1. ASSUME NEW i \in 1 .. n PROVE h[i] = IF i = 1 THEN ss[i] ELSE h[i - 1] \o ss[i]
    <3>1. CASE i = 1
      BY <1>0, <1>3, <3>1
    <3>2. CASE i # 1
      <4>1. i - 1 \in 1 .. (n - 1) /\ i - 2 \in 0 .. (n - 1) /\ (i - 1) - 1 = i - 2 /\ (i - 1) + 1 = i
        BY <1>0, <3>2
      <4>2. f[i - 1] = g[i - 1][f[i - 2]] /\ f[i - 2] \in Seq(T)
        BY <1>3, <4>1
      <4>3. g[i - 1][f[i - 2]] = f[i - 2] \o ss[i]
        BY <4>1, <4>2
      <4>4. h[i] = f[i - 1] /\ h[i - 1] = f[i - 2]
        BY <1>0, <3>2, <4>1
      <4> QED  BY <3>2, <4>2, <4>3, <4>4
    <3> QED  BY <3>1, <3>2
  <2>2. h = [i \in 1 .. n |-> h[i]]
    OBVIOUS
  <2> HIDE DEF h
  <2> QED  BY <2>1, <2>2
<1>5. Eq(F)
  <2> HIDE DEF Eq
  <2> QED  BY <1>4, Zenon
<1>6. FlattenSeq(ss) = F[n]
  BY <1>0 DEF FlattenSeq
<1> HIDE DEF F
<1>7. \A i \in 1 .. n : F[i] = IF i = 1 THEN ss[i] ELSE F[i - 1] \o ss[i]
  BY <1>5
<1>8. 1 \in 1 .. n /\ \A i \in 2 .. n : i \in 1 .. n /\ i # 1
  BY <1>0
<1> QED  BY <1>6, <1>7, <1>8

\* And holds what they hold.
LEMMA FlattenHolds ==
    ASSUME NEW n \in Nat, NEW ss, ss = [i \in 1 .. n |-> ss[i]], \A i \in 1 .. n : IsList(ss[i])
    PROVE  /\ IsList(FlattenSeq(ss))
           /\ ToSet(FlattenSeq(ss)) = UNION {ToSet(ss[i]) : i \in 1 .. n}
<1> DEFINE T == UNION {ToSet(ss[i]) : i \in 1 .. n}
           upto(k) == UNION {ToSet(ss[i]) : i \in 1 .. k}
<1>1. Len(ss) = n /\ DOMAIN ss = 1 .. n
  BY ListByIndex
<1>2. ss \in Seq(Seq(T))
  <2>1. \A i \in 1 .. n : ss[i] \in Seq(T)
    <3> SUFFICES ASSUME NEW i \in 1 .. n PROVE ss[i] \in Seq(T)
      OBVIOUS
    <3>1. ToSet(ss[i]) \subseteq T
      OBVIOUS
    <3> HIDE DEF T
    <3> QED  BY <3>1, ListOver
  <2> DEFINE V == Seq(T)
  <2>2. \A i \in 1 .. n : ss[i] \in V
    BY <2>1
  <2> HIDE DEF V
  <2>3. ss \in [1 .. n -> V]
    BY <2>2
  <2>4. ss \in Seq(V)
    BY <2>3, SeqDef
  <2> QED  BY <2>4 DEF V
<1>3. CASE n = 0
  <2>1. FlattenSeq(ss) = ss /\ ss = <<>>
    BY <1>1, <1>2, <1>3 DEF FlattenSeq
  <2>2. IsList(<<>>) /\ ToSet(<<>>) = {}
    BY DEF IsList, ToSet
  <2>3. T = {}
    BY <1>3
  <2> QED  BY <2>1, <2>2, <2>3
<1>4. CASE n # 0
  <2>1. PICK f : /\ f[1] = ss[1] /\ f[n] = FlattenSeq(ss)
                 /\ \A i \in 2 .. n : f[i] = f[i - 1] \o ss[i]
    <3> HIDE DEF T
    <3>1. ss # <<>>
      BY <1>1, <1>4
    <3> QED  BY <1>1, <1>2, <3>1, FlattenLoop
  <2> DEFINE S == {k \in 0 .. (n - 1) : IsList(f[k + 1]) /\ ToSet(f[k + 1]) = upto(k + 1)}
  <2>2. 0 \in S
    <3>1. upto(1) = ToSet(ss[1])
      OBVIOUS
    <3> QED  BY <1>4, <2>1, <3>1
  <2>3. ASSUME NEW k \in 0 .. ((n - 1) - 1), k \in S PROVE k + 1 \in S
    <3>1. k + 2 \in 2 .. n /\ (k + 2) - 1 = k + 1 /\ k + 2 \in 1 .. n /\ k + 1 \in 0 .. (n - 1) /\ (k + 1) + 1 = k + 2
      BY <1>4
    <3>2. f[k + 2] = f[k + 1] \o ss[k + 2]
      BY <2>1, <3>1
    <3>3. IsList(f[k + 1]) /\ ToSet(f[k + 1]) = upto(k + 1) /\ IsList(ss[k + 2])
      BY <2>3, <3>1
    <3>4. upto(k + 2) = upto(k + 1) \union ToSet(ss[k + 2])
      <4>1. 1 .. (k + 2) = 1 .. (k + 1) \union {k + 2}
        BY <3>1
      <4> HIDE DEF T
      <4> QED  BY <4>1, Zenon
    <3> DEFINE a == f[k + 1]
               b == ss[k + 2]
    <3>5. IsList(f[k + 2]) /\ ToSet(f[k + 2]) = upto(k + 2)
      <4>1. IsList(a) /\ IsList(b) /\ ToSet(a) = upto(k + 1)
        BY <3>3
      <4>2. f[k + 2] = a \o b /\ upto(k + 2) = ToSet(a) \union ToSet(b)
        BY <3>2, <3>4, <4>1
      <4> HIDE DEF upto, T, a, b
      <4> QED  BY <4>1, <4>2, ListsTogether
    <3> HIDE DEF upto, T
    <3> QED  BY <3>1, <3>5
  <2>4. n - 1 \in S
    <3> HIDE DEF S
    <3>1. n - 1 \in Nat
      BY <1>4
    <3>2. 0 .. (n - 1) \subseteq S
      BY <2>2, <2>3, <3>1, UpTo
    <3> QED  BY <3>1, <3>2
  <2>5. (n - 1) + 1 = n
    OBVIOUS
  <2> QED  BY <2>1, <2>4, <2>5
<1> QED  BY <1>3, <1>4

\* A function of levels with one level more.
WithLevel(f, k, next) == [n \in 0 .. (k + 1) |-> IF n = k + 1 THEN next ELSE f[n]]

\* A function of levels goes on to one level more.
LEMMA OneMore ==
    ASSUME NEW k \in Nat, NEW f, NEW next
    PROVE  LET g == WithLevel(f, k, next)
           IN  /\ g = [n \in 0 .. (k + 1) |-> g[n]]
               /\ \A n \in 0 .. k : g[n] = f[n]
               /\ g[k + 1] = next
<1> DEFINE g == WithLevel(f, k, next)
<1>1. g = [n \in 0 .. (k + 1) |-> g[n]]
  BY DEF WithLevel
<1>2. \A n \in 0 .. k : n \in 0 .. (k + 1) /\ n # k + 1
  OBVIOUS
<1>3. g[k + 1] = next /\ \A n \in 0 .. k : g[n] = f[n]
  BY <1>2 DEF WithLevel
<1> HIDE DEF g
<1> QED  BY <1>1, <1>3 DEF g

\* A list of one more element.
LEMMA LongerList ==
    ASSUME NEW s, IsList(s), NEW e
    PROVE  IsList(Append(s, e)) /\ Append(s, e) # <<>>
<1>1. IsList(<<e>>) /\ Append(s, e) = s \o <<e>> /\ Append(s, e) # <<>>
  BY ListOfOne DEF IsList
<1> QED  BY <1>1, ListsTogether

\* Applied to each of a list.
LEMMA ListOfEach ==
    ASSUME NEW s, IsList(s), NEW t, t = [i \in DOMAIN s |-> t[i]]
    PROVE  IsList(t) /\ ToSet(t) = {t[i] : i \in DOMAIN s}
<1> DEFINE n == Len(s)
<1>1. n \in Nat /\ DOMAIN s = 1 .. n
  BY DEF IsList
<1> HIDE DEF n
<1> QED  BY <1>1, ListByIndex

\* Longer lists that are equal have equal parts.
LEMMA LongerAreEqual ==
    ASSUME NEW a, IsList(a), NEW b, IsList(b), NEW x, NEW y, Append(a, x) = Append(b, y)
    PROVE  a = b /\ x = y
<1> DEFINE D == ToSet(a) \union ToSet(b) \union {x, y}
<1>1. a \in Seq(D) /\ b \in Seq(D) /\ x \in D /\ y \in D
  BY ListOver
<1> HIDE DEF D
<1> QED  BY <1>1, AppendInjective
=============================================================================
