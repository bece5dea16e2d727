-------------------------- MODULE ImpactGraphProofs --------------------------
(***************************************************************************)
(* Proofs about impact, for every set of snapshots and every depth limit:  *)
(* about the traversal of ImpactGraph in any snapshot, and about the       *)
(* snapshots that IndexedSnapshot makes of any well-formed facts.          *)
(*                                                                         *)
(* The argument for the traversal: what a level has explored stays         *)
(* explored (Explored), it stops only at its limit or with nothing left to *)
(* find (Exhausted), and the report is made of what it leaves              *)
(* (ReportedFromTraversal).  That for the snapshots: the recursion over    *)
(* bases has visited every class that a class inherits from when it ends   *)
(* (WalkOK), so whatever is resolved is known (Resolved), and the          *)
(* relationships derived join entities of the snapshot.                    *)
(***************************************************************************)
EXTENDS RepositoryImpact, ListLemmas, FiniteSetTheorems

-----------------------------------------------------------------------------
(* What the facts of a repository define.                                  *)

ClassesIn(loaded) == UNION {ToSet(m.classes) : m \in ToSet(Named(loaded))}
FunctionsIn(loaded) == UNION {ToSet(m.functions) : m \in ToSet(Named(loaded))}

\* The modules of an index are those with a name.
LEMMA NamedModules ==
    ASSUME NEW loaded, IsList(loaded)
    PROVE  /\ IsList(Named(loaded))
           /\ ToSet(Named(loaded)) = {m \in ToSet(loaded) : m.name # NoName}
<1> DEFINE S == {m \in ToSet(loaded) : m.name # NoName}
<1>1. ToSet(loaded) \intersect S = S
  OBVIOUS
<1>2. IsList(Only(loaded, S)) /\ ToSet(Only(loaded, S)) = ToSet(loaded) \intersect S
  BY OnlyIsList
<1> QED  BY <1>1, <1>2 DEF Named

\* A name is resolved to a symbol that has it.
LEMMA LastOfHasName ==
    ASSUME NEW symbols, IsList(symbols)
    PROVE  /\ DOMAIN LastOf(symbols) = {s.qname : s \in ToSet(symbols)}
           /\ \A q \in DOMAIN LastOf(symbols) :
                 LastOf(symbols)[q] \in ToSet(symbols) /\ LastOf(symbols)[q].qname = q
<1>1. DOMAIN symbols = 1 .. Len(symbols) /\ Len(symbols) \in Nat
  BY DEF IsList
<1>2. DOMAIN LastOf(symbols) = {s.qname : s \in ToSet(symbols)}
  BY DEF LastOf
<1>3. ASSUME NEW q \in DOMAIN LastOf(symbols)
      PROVE  LastOf(symbols)[q] \in ToSet(symbols) /\ LastOf(symbols)[q].qname = q
  <2> DEFINE P == {i \in DOMAIN symbols : symbols[i].qname = q}
  <2>1. P # {}
    BY <1>2, <1>3 DEF ToSet
  <2>2. P \in SUBSET (1 .. Len(symbols))
    BY <1>1
  <2>3. Max(P) \in P
    <3> HIDE DEF P
    <3> QED  BY <1>1, <2>1, <2>2, PartHasLargest
  <2>4. LastOf(symbols)[q] = symbols[Max(P)]
    BY <1>2, <1>3 DEF LastOf
  <2> HIDE DEF P
  <2>5. Max(P) \in DOMAIN symbols /\ symbols[Max(P)].qname = q
    BY <2>3 DEF P
  <2> QED  BY <2>4, <2>5 DEF ToSet
<1> QED  BY <1>2, <1>3

\* The lists of several modules, one after the other.
LEMMA ListsOfModules ==
    ASSUME NEW named, IsList(named), NEW lists, lists = [i \in DOMAIN named |-> lists[i]],
           \A i \in DOMAIN named : IsList(lists[i])
    PROVE  /\ IsList(FlattenSeq(lists))
           /\ ToSet(FlattenSeq(lists)) = UNION {ToSet(lists[i]) : i \in DOMAIN named}
<1>1. DOMAIN named = 1 .. Len(named) /\ Len(named) \in Nat
  BY DEF IsList
<1> QED  BY <1>1, FlattenHolds

\* The index knows the modules, classes and functions of the facts, and nothing else.
LEMMA IndexKnows ==
    ASSUME NEW loaded, FactsOK(loaded)
    PROVE  LET index == RepositoryIndex(loaded) IN
           /\ index.modules = {m.name : m \in ToSet(Named(loaded))}
           /\ \A q : IsFunction(q, index) <=> \E f \in FunctionsIn(loaded) : f.qname = q
           /\ \A q : IsClass(q, index) <=> \E c \in ClassesIn(loaded) : c.qname = q
           /\ \A q : IsClass(q, index) => index.classes[q] \in ClassesIn(loaded)
           /\ IsFiniteSet(DOMAIN index.classes)
<1> DEFINE named == Named(loaded)
           classes == [i \in DOMAIN named |-> named[i].classes]
           functions == [i \in DOMAIN named |-> named[i].functions]
           index == RepositoryIndex(loaded)
<1>0. index.modules = {named[i].name : i \in DOMAIN named}
      /\ index.classes = LastOf(FlattenSeq(classes)) /\ index.functions = LastOf(FlattenSeq(functions))
  BY DEF RepositoryIndex
<1>1. IsList(named) /\ \A m \in ToSet(named) : m \in ToSet(loaded)
  BY NamedModules DEF FactsOK
<1>2. \A i \in DOMAIN named :
        named[i] \in ToSet(named) /\ IsList(named[i].classes) /\ IsList(named[i].functions)
  BY <1>1 DEF FactsOK, ToSet
<1>3. IsList(FlattenSeq(classes)) /\ ToSet(FlattenSeq(classes)) = ClassesIn(loaded)
  <2>1. \A i \in DOMAIN named : IsList(classes[i])
    BY <1>2
  <2>2. classes = [i \in DOMAIN named |-> classes[i]]
    OBVIOUS
  <2>3. UNION {ToSet(classes[i]) : i \in DOMAIN named} = ClassesIn(loaded)
    <3>1. {ToSet(classes[i]) : i \in DOMAIN named} = {ToSet(m.classes) : m \in ToSet(named)}
      BY DEF ToSet
    <3> QED  BY <3>1 DEF ClassesIn
  <2> HIDE DEF named, classes
  <2> QED  BY <1>1, <2>1, <2>2, <2>3, ListsOfModules
<1>4. IsList(FlattenSeq(functions)) /\ ToSet(FlattenSeq(functions)) = FunctionsIn(loaded)
  <2>1. \A i \in DOMAIN named : IsList(functions[i])
    BY <1>2
  <2>2. functions = [i \in DOMAIN named |-> functions[i]]
    OBVIOUS
  <2>3. UNION {ToSet(functions[i]) : i \in DOMAIN named} = FunctionsIn(loaded)
    <3>1. {ToSet(functions[i]) : i \in DOMAIN named} = {ToSet(m.functions) : m \in ToSet(named)}
      BY DEF ToSet
    <3> QED  BY <3>1 DEF FunctionsIn
  <2> HIDE DEF named, functions
  <2> QED  BY <1>1, <2>1, <2>2, <2>3, ListsOfModules
<1> HIDE DEF classes, functions
<1>5. index.modules = {m.name : m \in ToSet(named)}
  BY <1>0 DEF ToSet
<1>6. \A q : IsFunction(q, index) <=> \E f \in FunctionsIn(loaded) : f.qname = q
  <2>1. DOMAIN index.functions = {f.qname : f \in FunctionsIn(loaded)}
    BY <1>0, <1>4, LastOfHasName
  <2> HIDE DEF index
  <2> QED  BY <2>1 DEF IsFunction
<1>7. \A q : IsClass(q, index) <=> \E c \in ClassesIn(loaded) : c.qname = q
  <2>1. DOMAIN index.classes = {c.qname : c \in ClassesIn(loaded)}
    BY <1>0, <1>3, LastOfHasName
  <2> HIDE DEF index
  <2> QED  BY <2>1 DEF IsClass
<1>8. \A q : IsClass(q, index) => index.classes[q] \in ClassesIn(loaded)
  BY <1>0, <1>3, LastOfHasName DEF IsClass
<1>9. IsFiniteSet(DOMAIN index.classes)
  <2> DEFINE all == FlattenSeq(classes)
  <2>1. Len(all) \in Nat /\ DOMAIN all = 1 .. Len(all)
    BY <1>3 DEF IsList
  <2>2. DOMAIN index.classes = {all[i].qname : i \in 1 .. Len(all)}
    <3>1. DOMAIN index.classes = {c.qname : c \in ToSet(all)}
      BY <1>0, <1>3, LastOfHasName
    <3>2. ToSet(all) = {all[i] : i \in 1 .. Len(all)}
      BY <2>1 DEF ToSet
    <3> HIDE DEF all, index
    <3> QED  BY <3>1, <3>2
  <2>3. IsFiniteSet(1 .. Len(all))
    BY <2>1, FS_Interval
  <2> HIDE DEF all
  <2> DEFINE names == {all[i].qname : i \in 1 .. Len(all)}
             f == [i \in 1 .. Len(all) |-> all[i].qname]
  <2>4. f \in Surjection(1 .. Len(all), names)
    BY Zenon DEF Surjection
  <2>5. IsFiniteSet(names)
    <3> HIDE DEF names, f
    <3> QED  BY <2>3, <2>4, FS_Surjection
  <2> QED  BY <2>2, <2>5
<1> QED  BY <1>5, <1>6, <1>7, <1>8, <1>9

-----------------------------------------------------------------------------
(* Class hierarchies.                                                      *)

Walks(T) == [seen : Seq(T), todo : Seq(T)]

\* One call of the recursion adds the class to those seen, and its bases to those left.
LEMMA VisitAdds ==
    ASSUME NEW T, NEW context, NEW walk \in Walks(T), walk.todo # <<>>,
           IsList(BasesByName(Head(walk.todo), context)),
           ToSet(BasesByName(Head(walk.todo), context)) \subseteq T
    PROVE  LET class == Head(walk.todo)
               after == Visit(walk, context)
           IN  /\ after \in Walks(T)
               /\ class \in ToSet(walk.todo)
               /\ after.seen = Append(walk.seen, class)
               /\ ToSet(after.seen) = ToSet(walk.seen) \union {class}
               /\ ToSet(after.todo) =
                     (ToSet(BasesByName(class, context)) \union ToSet(walk.todo)) \ ToSet(after.seen)
<1> DEFINE class == Head(walk.todo)
           bases == BasesByName(class, context)
           seen == Append(walk.seen, class)
           next == bases \o Tail(walk.todo)
           todo == Only(next, ToSet(next) \ ToSet(seen))
<1>1. walk.seen \in Seq(T) /\ walk.todo \in Seq(T)
  BY DEF Walks
<1>2. class \in T /\ Tail(walk.todo) \in Seq(T) /\ ToSet(walk.todo) = {class} \union ToSet(Tail(walk.todo))
  BY <1>1, HeadAndTail
<1>3. bases \in Seq(T)
  BY ListOver
<1>4. seen \in Seq(T) /\ ToSet(seen) = ToSet(walk.seen) \union {class}
  BY <1>1, <1>2, AppendProperties, AppendAdds
<1>5. next \in Seq(T) /\ ToSet(next) = ToSet(bases) \union ToSet(Tail(walk.todo))
  <2>1. IsList(bases) /\ IsList(Tail(walk.todo))
    BY <1>2, SequencesAreLists
  <2> HIDE DEF bases
  <2>2. ToSet(next) = ToSet(bases) \union ToSet(Tail(walk.todo))
    BY <2>1, ListsTogether
  <2> QED  BY <1>2, <1>3, <2>2, ConcatProperties
<1>6. todo \in Seq(T) /\ ToSet(todo) = ToSet(next) \ ToSet(seen)
  <2> HIDE DEF next, seen
  <2>1. ToSet(next) \intersect (ToSet(next) \ ToSet(seen)) = ToSet(next) \ ToSet(seen)
    OBVIOUS
  <2> QED  BY <1>5, <2>1, OnlyKeeps
<1>7. Visit(walk, context) = [seen |-> seen, todo |-> todo]
  BY DEF Visit
<1>8. class \in ToSet(seen)
  BY <1>4
<1>9. ToSet(todo) = (ToSet(bases) \union ToSet(walk.todo)) \ ToSet(seen)
  <2> HIDE DEF class, bases, next, seen, todo
  <2> QED  BY <1>2, <1>5, <1>6, <1>8
<1> HIDE DEF class, bases, next, seen, todo
<1>10. Visit(walk, context) \in Walks(T) /\ Visit(walk, context).seen = seen /\ Visit(walk, context).todo = todo
  BY <1>4, <1>6, <1>7 DEF Walks
<1> QED  BY <1>2, <1>4, <1>9, <1>10 DEF class, bases, seen

\* Bases are known classes, and there are finitely many.
HierarchyOK(context) ==
    /\ IsFiniteSet(DOMAIN context.index.classes)
    /\ \A c : /\ IsList(BasesByName(c, context))
              /\ ToSet(BasesByName(c, context)) \subseteq DOMAIN context.index.classes

\* S holds a class and whatever its classes inherit from.
Inherits(S, class, context) ==
    class \in S /\ \A c \in S : ToSet(BasesByName(c, context)) \subseteq S

ClassesFrom(class, context) == {class} \union DOMAIN context.index.classes

\* The recursion after k classes: it has seen or has left every base of a class seen, none
\* twice, and nothing that the class does not inherit from.
WalkOK(walk, k, class, context) ==
    /\ walk \in Walks(ClassesFrom(class, context))
    /\ IF k = 0 THEN walk.seen = <<>> /\ walk.todo = <<class>>
       ELSE walk.seen # <<>> /\ walk.seen[1] = class
    /\ IsInjective(walk.seen)
    /\ ToSet(walk.seen) \intersect ToSet(walk.todo) = {}
    /\ \A c \in ToSet(walk.seen) :
          ToSet(BasesByName(c, context)) \subseteq ToSet(walk.seen) \union ToSet(walk.todo)
    /\ \A S : Inherits(S, class, context) => ToSet(walk.seen) \union ToSet(walk.todo) \subseteq S
    /\ walk.todo # <<>> => Cardinality(ToSet(walk.seen)) = k

\* It does before the first class, and after one more.
LEMMA WalkStarts ==
    ASSUME NEW class, NEW context
    PROVE  WalkOK([seen |-> <<>>, todo |-> <<class>>], 0, class, context)
<1>1. ToSet(<<class>>) = {class} /\ ToSet(<<>>) = {}
  BY ListOfOne DEF ToSet
<1>2. IsInjective(<<>>)
  BY DEF IsInjective
<1>3. <<class>> \in Seq(ClassesFrom(class, context)) /\ <<>> \in Seq(ClassesFrom(class, context))
  BY DEF ClassesFrom
<1> QED  BY <1>1, <1>2, <1>3, FS_EmptySet DEF WalkOK, Walks, Inherits

LEMMA WalkGoesOn ==
    ASSUME NEW class, NEW context, HierarchyOK(context), NEW k \in Nat, NEW walk,
           WalkOK(walk, k, class, context)
    PROVE  WalkOK(IF walk.todo = <<>> THEN walk ELSE Visit(walk, context), k + 1, class, context)
<1> DEFINE T == ClassesFrom(class, context)
<1>0. walk \in Walks(T) /\ walk.seen \in Seq(T) /\ walk.todo \in Seq(T)
  BY DEF WalkOK, Walks
<1>1. CASE walk.todo = <<>>
  <2>1. k # 0 /\ k + 1 # 0
    BY <1>1 DEF WalkOK
  <2> QED  BY <1>1, <2>1 DEF WalkOK
<1>2. CASE walk.todo # <<>>
  <2> DEFINE c == Head(walk.todo)
             after == Visit(walk, context)
  <2>1. IsList(BasesByName(c, context)) /\ ToSet(BasesByName(c, context)) \subseteq T
    BY DEF HierarchyOK, ClassesFrom
  <2>2. /\ after \in Walks(T)
        /\ c \in ToSet(walk.todo)
        /\ after.seen = Append(walk.seen, c)
        /\ ToSet(after.seen) = ToSet(walk.seen) \union {c}
        /\ ToSet(after.todo) =
              (ToSet(BasesByName(c, context)) \union ToSet(walk.todo)) \ ToSet(after.seen)
    <3> HIDE DEF T
    <3> QED  BY <1>0, <1>2, <2>1, VisitAdds
  <2>3. c \notin ToSet(walk.seen) /\ c \in T
    <3>1. c \in T
      <4> HIDE DEF T
      <4> QED  BY <1>0, <1>2, HeadAndTail
    <3> QED  BY <2>2, <3>1 DEF WalkOK
  <2> HIDE DEF after
  <2>4. after.seen # <<>> /\ after.seen[1] = class /\ IsInjective(after.seen)
    <3>1. after.seen # <<>> /\ IsInjective(after.seen)
      <4> HIDE DEF T, c
      <4>1. IsInjective(walk.seen)
        BY DEF WalkOK
      <4> QED  BY <1>0, <2>2, <2>3, <4>1, AppendAdds
    <3>2. CASE k = 0
      <4>1. walk.seen = <<>> /\ c = class
        BY <3>2 DEF WalkOK
      <4> QED  BY <2>2, <3>1, <4>1
    <3>3. CASE k # 0
      <4>1. walk.seen # <<>> /\ walk.seen[1] = class
        BY <3>3 DEF WalkOK
      <4>2. Append(walk.seen, c)[1] = walk.seen[1]
        <5> HIDE DEF c, T
        <5> QED  BY <1>0, <2>3, <4>1
      <4> QED  BY <2>2, <3>1, <4>1, <4>2
    <3> QED  BY <3>2, <3>3
  <2>5. ToSet(after.seen) \intersect ToSet(after.todo) = {}
    BY <2>2
  <2>6. ASSUME NEW d \in ToSet(after.seen)
        PROVE  ToSet(BasesByName(d, context)) \subseteq ToSet(after.seen) \union ToSet(after.todo)
    <3> HIDE DEF c
    <3>1. CASE d = c
      BY <2>2, <3>1
    <3>2. CASE d # c
      <4>1. ToSet(BasesByName(d, context)) \subseteq ToSet(walk.seen) \union ToSet(walk.todo)
        BY <2>2, <2>6, <3>2 DEF WalkOK
      <4> QED  BY <2>2, <4>1
    <3> QED  BY <3>1, <3>2
  <2>7. ASSUME NEW S, Inherits(S, class, context)
        PROVE  ToSet(after.seen) \union ToSet(after.todo) \subseteq S
    <3> HIDE DEF c
    <3>1. ToSet(walk.seen) \union ToSet(walk.todo) \subseteq S
      BY <2>7 DEF WalkOK
    <3>2. c \in S /\ ToSet(BasesByName(c, context)) \subseteq S
      BY <2>2, <2>7, <3>1 DEF Inherits
    <3> QED  BY <2>2, <3>1, <3>2
  <2>8. Cardinality(ToSet(after.seen)) = k + 1
    <3>1. IsFiniteSet(T)
      BY FS_AddElement, Zenon DEF HierarchyOK, ClassesFrom
    <3>2. ToSet(walk.seen) \subseteq T
      BY <1>0 DEF ToSet
    <3>3. IsFiniteSet(ToSet(walk.seen))
      <4> HIDE DEF T
      <4> QED  BY <3>1, <3>2, FS_Subset
    <3>4. Cardinality(ToSet(walk.seen)) = k
      BY <1>2 DEF WalkOK
    <3> HIDE DEF c
    <3> QED  BY <2>2, <2>3, <3>3, <3>4, FS_AddElement
  <2>9. k + 1 # 0
    OBVIOUS
  <2> HIDE DEF T
  <2>10. WalkOK(after, k + 1, class, context)
    BY <2>2, <2>4, <2>5, <2>6, <2>7, <2>8, <2>9 DEF WalkOK, T
  <2> QED  BY <1>2, <2>10 DEF after
<1> QED  BY <1>1, <1>2

\* The classes searched for a method: the class, first, and all it inherits from, once each.
LEMMA WalkVisits ==
    ASSUME NEW class, NEW context, HierarchyOK(context)
    PROVE  LET walk == Walk(class, context)
           IN  /\ walk \in Seq(ClassesFrom(class, context)) /\ walk # <<>> /\ walk[1] = class
               /\ IsInjective(walk)
               /\ Inherits(ToSet(walk), class, context)
               /\ \A S : Inherits(S, class, context) => ToSet(walk) \subseteq S
<1> DEFINE T == ClassesFrom(class, context)
           D == DOMAIN context.index.classes
           N == 1 + Cardinality(D)
           start == [seen |-> <<>>, todo |-> <<class>>]
           V == Walks(T)
           goon(v) == IF v.todo = <<>> THEN v ELSE Visit(v, context)
           Eq(F) == F = [n \in 0 .. N |-> IF n = 0 THEN start
                                          ELSE IF F[n - 1].todo = <<>> THEN F[n - 1]
                                          ELSE Visit(F[n - 1], context)]
           F == CHOOSE h : Eq(h)
           g == [i \in 1 .. N |-> [v \in V |-> goon(v)]]
<1>1. IsFiniteSet(D) /\ Cardinality(D) \in Nat /\ N \in Nat
  <2>1. IsFiniteSet(D)
    BY DEF HierarchyOK
  <2> HIDE DEF D
  <2>2. Cardinality(D) \in Nat
    BY <2>1, FS_CardinalityType
  <2> QED  BY <2>1, <2>2
<1>2. Walk(class, context) = F[N].seen
  BY DEF Walk
<1>3. start \in V
  BY DEF Walks, ClassesFrom
<1>4. g \in [1 .. N -> [V -> V]]
  <2>1. ASSUME NEW v \in V PROVE goon(v) \in V
    <3>1. CASE v.todo = <<>>
      BY <3>1
    <3>2. CASE v.todo # <<>>
      <4>1. IsList(BasesByName(Head(v.todo), context)) /\ ToSet(BasesByName(Head(v.todo), context)) \subseteq T
        BY DEF HierarchyOK, ClassesFrom
      <4>2. Visit(v, context) \in V
        <5> HIDE DEF T
        <5> QED  BY <3>2, <4>1, VisitAdds
      <4> QED  BY <3>2, <4>2
    <3> QED  BY <3>1, <3>2
  <2> HIDE DEF V, goon
  <2> QED  BY <2>1
<1>5. PICK f \in [0 .. N -> V] : f[0] = start /\ \A i \in 1 .. N : f[i] = g[i][f[i - 1]]
  <2>1. LoopValues(N, V, start, g) # {}
    <3> HIDE DEF N, V, start, g
    <3> QED  BY <1>1, <1>3, <1>4, LoopExists
  <2> HIDE DEF N, V, start, g
  <2> QED  BY <2>1 DEF LoopValues
<1>6. Eq(f)
  <2> HIDE DEF N, V, start
  <2>1. ASSUME NEW n \in 0 .. N
        PROVE  f[n] = IF n = 0 THEN start
                      ELSE IF f[n - 1].todo = <<>> THEN f[n - 1] ELSE Visit(f[n - 1], context)
    <3>1. CASE n = 0
      BY <1>5, <3>1
    <3>2. CASE n # 0
      <4>1. n \in 1 .. N /\ n - 1 \in 0 .. N
        BY <1>1, <3>2
      <4>2. f[n] = g[n][f[n - 1]] /\ f[n - 1] \in V
        BY <1>5, <4>1
      <4>3. g[n][f[n - 1]] = goon(f[n - 1])
        BY <4>1, <4>2
      <4> QED  BY <3>2, <4>2, <4>3
    <3> QED  BY <3>1, <3>2
  <2> QED  BY <2>1
<1>7. Eq(F)
  <2> HIDE DEF Eq
  <2> QED  BY <1>6, Zenon
<1> HIDE DEF F, N
<1>8. /\ F[0] = start
      /\ \A n \in 1 .. N : F[n] = goon(F[n - 1])
  <2>1. 0 \in 0 .. N /\ \A n \in 1 .. N : n \in 0 .. N /\ n # 0
    BY <1>1
  <2> HIDE DEF start
  <2> QED  BY <1>7, <2>1
<1> DEFINE S == {k \in 0 .. N : WalkOK(F[k], k, class, context)}
<1>9. N \in S
  <2>1. 0 \in S
    <3>1. WalkOK(start, 0, class, context)
      BY WalkStarts
    <3> QED  BY <1>1, <1>8, <3>1
  <2>2. ASSUME NEW k \in 0 .. (N - 1), k \in S PROVE k + 1 \in S
    <3>1. k + 1 \in 1 .. N /\ (k + 1) - 1 = k /\ k \in Nat /\ k + 1 \in 0 .. N
      BY <1>1
    <3>2. F[k + 1] = IF F[k].todo = <<>> THEN F[k] ELSE Visit(F[k], context)
      BY <1>8, <3>1
    <3>3. WalkOK(F[k], k, class, context)
      BY <2>2
    <3>4. WalkOK(F[k + 1], k + 1, class, context)
      BY <3>1, <3>2, <3>3, WalkGoesOn
    <3> QED  BY <3>1, <3>4
  <2> HIDE DEF S
  <2>3. 0 .. N \subseteq S
    BY <1>1, <2>1, <2>2, UpTo
  <2> QED  BY <1>1, <2>3
<1>10. WalkOK(F[N], N, class, context) /\ N # 0
  BY <1>1, <1>9 DEF N
<1> DEFINE walk == F[N]
<1> HIDE DEF walk, S
<1>11. walk.seen \in Seq(T) /\ walk.todo \in Seq(T)
  BY <1>10 DEF WalkOK, Walks, walk
<1>12. walk.todo = <<>>
  <2> SUFFICES ASSUME walk.todo # <<>> PROVE FALSE
    OBVIOUS
  <2>1. Cardinality(ToSet(walk.seen)) = N
    BY <1>10 DEF WalkOK, walk
  <2>2. IsFiniteSet(T) /\ Cardinality(T) <= N
    <3> HIDE DEF D
    <3>1. IsFiniteSet(D \union {class}) /\ Cardinality(D \union {class}) <= Cardinality(D) + 1
      <4>1. IsFiniteSet(D \union {class})
            /\ Cardinality(D \union {class}) = IF class \in D THEN Cardinality(D) ELSE Cardinality(D) + 1
        BY <1>1, FS_AddElement, Zenon
      <4> QED  BY <1>1, <4>1
    <3>2. T = D \union {class}
      BY DEF ClassesFrom, D
    <3> QED  BY <1>1, <3>1, <3>2 DEF N
  <2>3. ToSet(walk.seen) \subseteq T /\ ToSet(walk.todo) \subseteq T
    <3> HIDE DEF T
    <3> QED  BY <1>11 DEF ToSet
  <2>4. ToSet(walk.seen) = T
    <3> HIDE DEF T
    <3>1. Cardinality(ToSet(walk.seen)) <= Cardinality(T) /\ Cardinality(T) \in Nat
      BY <2>2, <2>3, FS_Subset, FS_CardinalityType
    <3>2. Cardinality(T) = Cardinality(ToSet(walk.seen))
      BY <1>1, <2>1, <2>2, <3>1
    <3> QED  BY <2>2, <2>3, <3>2, FS_Subset
  <2>5. Head(walk.todo) \in ToSet(walk.todo)
    <3> HIDE DEF T
    <3> QED  BY <1>11, HeadAndTail
  <2>6. ToSet(walk.seen) \intersect ToSet(walk.todo) = {}
    BY <1>10 DEF WalkOK, walk
  <2> HIDE DEF T
  <2> QED  BY <2>3, <2>4, <2>5, <2>6
<1>13. ToSet(walk.todo) = {}
  BY <1>12 DEF ToSet
<1>14. walk.seen # <<>> /\ walk.seen[1] = class /\ IsInjective(walk.seen)
  BY <1>10 DEF WalkOK, walk
<1>15. class \in ToSet(walk.seen)
  <2> HIDE DEF T
  <2>1. 1 \in DOMAIN walk.seen
    BY <1>11, <1>14
  <2> QED  BY <1>14, <2>1 DEF ToSet
<1>16. Inherits(ToSet(walk.seen), class, context)
  BY <1>10, <1>13, <1>15 DEF WalkOK, Inherits, walk
<1>17. \A S1 : Inherits(S1, class, context) => ToSet(walk.seen) \subseteq S1
  BY <1>10 DEF WalkOK, walk
<1>18. Walk(class, context) = walk.seen
  BY <1>2 DEF walk
<1> QED  BY <1>11, <1>14, <1>16, <1>17, <1>18

\* The bases found are known classes.
LEMMA BasesAreKnown ==
    ASSUME NEW context, NEW class, IsList(class.bases)
    PROVE  /\ IsList(BasesOf(class, context))
           /\ ToSet(BasesOf(class, context)) \subseteq DOMAIN context.index.classes
<1> DEFINE base(i) == IF Len(class.bases[i]) = 1
                      THEN Lookup(context.namespaces[class.module], Head(class.bases[i])) ELSE NoName
           found == [i \in DOMAIN class.bases |-> base(i)]
<1>1. DOMAIN class.bases = 1 .. Len(class.bases) /\ Len(class.bases) \in Nat
  BY DEF IsList
<1>2. found = [i \in 1 .. Len(class.bases) |-> found[i]]
  BY <1>1
<1>3. BasesOf(class, context) = Only(found, DOMAIN context.index.classes)
  BY DEF BasesOf
<1> HIDE DEF found
<1>4. IsList(found)
  BY <1>1, <1>2, ListByIndex
<1> QED  BY <1>3, <1>4, OnlyIsList

\* The facts of a repository make a hierarchy.
LEMMA FactsMakeHierarchy ==
    ASSUME NEW loaded, FactsOK(loaded), NEW context, context.index = RepositoryIndex(loaded)
    PROVE  HierarchyOK(context)
<1>1. IsFiniteSet(DOMAIN context.index.classes)
  BY IndexKnows
<1>2. ASSUME NEW name
      PROVE  IsList(BasesByName(name, context))
             /\ ToSet(BasesByName(name, context)) \subseteq DOMAIN context.index.classes
  <2>1. CASE IsClass(name, context.index)
    <3>1. context.index.classes[name] \in ClassesIn(loaded)
      BY <2>1, IndexKnows
    <3>2. IsList(context.index.classes[name].bases)
      BY <3>1, NamedModules DEF FactsOK, ClassesIn
    <3> QED  BY <2>1, <3>2, BasesAreKnown DEF BasesByName
  <2>2. CASE ~IsClass(name, context.index)
    <3>1. IsList(<<>>) /\ ToSet(<<>>) = {}
      BY DEF IsList, ToSet
    <3> QED  BY <2>2, <3>1 DEF BasesByName
  <2> QED  BY <2>1, <2>2
<1> QED  BY <1>1, <1>2 DEF HierarchyOK

\* The first class of a list that has the method.
LEMMA FirstMethodFound ==
    ASSUME NEW T, NEW classes \in Seq(T), NEW method, NEW index
    PROVE  LET has(c) == IsFunction(Append(c, method), index)
               found == FirstMethod(classes, method, index)
           IN  \/ /\ found = NoName
                  /\ \A c \in ToSet(classes) : ~has(c)
               \/ \E i \in DOMAIN classes : /\ has(classes[i]) /\ found = Append(classes[i], method)
                                            /\ \A j \in 1 .. i - 1 : ~has(classes[j])
<1> DEFINE has(c) == IsFunction(Append(c, method), index)
           P == {i \in 1 .. Len(classes) : has(classes[i])}
<1>1. Len(classes) \in Nat /\ DOMAIN classes = 1 .. Len(classes)
      /\ \A i \in 1 .. Len(classes) : classes[i] \in T
  OBVIOUS
<1>2. CASE P = {}
  <2>1. SelectInSeq(classes, has) = 0
    BY <1>2 DEF SelectInSeq
  <2>2. FirstMethod(classes, method, index) = NoName
    BY <2>1 DEF FirstMethod
  <2> QED  BY <1>1, <1>2, <2>2 DEF ToSet
<1>3. CASE P # {}
  <2>1. SelectInSeq(classes, has) = Min(P)
    BY <1>3 DEF SelectInSeq
  <2>2. Min(P) \in P
    <3>1. P \in SUBSET (1 .. Len(classes))
      OBVIOUS
    <3> HIDE DEF P
    <3> QED  BY <1>1, <1>3, <3>1, PartHasSmallest
  <2>3. Min(P) \in 1 .. Len(classes) /\ has(classes[Min(P)])
    BY <2>2
  <2>4. FirstMethod(classes, method, index) = Append(classes[Min(P)], method)
    <3>1. FirstMethod(classes, method, index) = IF Min(P) = 0 THEN NoName ELSE Append(classes[Min(P)], method)
      BY <1>3 DEF FirstMethod, SelectInSeq
    <3>2. Min(P) # 0
      BY <1>1, <2>3
    <3> QED  BY <3>1, <3>2
  <2>5. \A j \in 1 .. Min(P) - 1 : ~has(classes[j])
    <3>1. P \in SUBSET (1 .. Len(classes))
      OBVIOUS
    <3>2. \A j \in P : Min(P) <= j
      <4> HIDE DEF P
      <4> QED  BY <1>1, <1>3, <3>1, PartHasSmallest
    <3>3. \A j \in 1 .. Min(P) - 1 : j \in 1 .. Len(classes) /\ ~(Min(P) <= j)
      BY <1>1, <2>3
    <3> QED  BY <3>2, <3>3
  <2> DEFINE first == Min(P)
  <2> HIDE DEF P, first
  <2>6. /\ first \in DOMAIN classes /\ has(classes[first])
        /\ FirstMethod(classes, method, index) = Append(classes[first], method)
        /\ \A j \in 1 .. first - 1 : ~has(classes[j])
    BY <1>1, <2>3, <2>4, <2>5 DEF first
  <2> QED  BY <2>6
<1> QED  BY <1>2, <1>3

\* What is resolved is looked up in the index of all modules.
LEMMA ContextIndex == ASSUME NEW loaded PROVE Context(loaded).index = RepositoryIndex(loaded)
  BY DEF Context, WithNamespaces, WithAttributes, WithLocals

\* A method that an object of a class has is found: the one of the class itself if it
\* defines it, or else one of a class it inherits from, and none if no class has it, along
\* hierarchies of any shape, cyclic ones too (type_inference.py:79-109).
THEOREM MethodsAreInherited ==
    ASSUME NEW loaded, FactsOK(loaded), NEW class, IsList(class), NEW method,
           NEW ancestors, Inherits(ancestors, class, Context(loaded)),
           \A S : Inherits(S, class, Context(loaded)) => ancestors \subseteq S
    PROVE  LET has(c) == IsFunction(Append(c, method), RepositoryIndex(loaded))
               found == resolve_method_on_class(class, method, Context(loaded))
           IN  /\ found = NoName <=> \A c \in ancestors : ~has(c)
               /\ found # NoName => \E c \in ancestors : has(c) /\ found = Append(c, method)
               /\ has(class) => found = Append(class, method)
<1> DEFINE context == Context(loaded)
           index == RepositoryIndex(loaded)
           has(c) == IsFunction(Append(c, method), index)
           walk == Walk(class, context)
           found == FirstMethod(walk, method, index)
           T == ClassesFrom(class, context)
           Finds(i) == has(walk[i]) /\ found = Append(walk[i], method) /\ \A j \in 1 .. i - 1 : ~has(walk[j])
<1>1. context.index = index
  BY ContextIndex
<1>2. HierarchyOK(context)
  BY <1>1, FactsMakeHierarchy
<1>3. walk \in Seq(T) /\ walk # <<>> /\ walk[1] = class /\ ToSet(walk) = ancestors
  BY <1>2, WalkVisits
<1>4. resolve_method_on_class(class, method, context) = found
  BY <1>1 DEF resolve_method_on_class
<1>5. ASSUME NEW c \in T PROVE Append(c, method) # NoName
  <2>1. IsList(c)
    <3>1. CASE c = class
      BY <3>1
    <3>2. CASE IsClass(c, index)
      <4>1. \E d \in ClassesIn(loaded) : d.qname = c
        BY <3>2, IndexKnows
      <4> QED  BY <4>1, NamedModules DEF FactsOK, ClassesIn
    <3> QED  BY <1>1, <3>1, <3>2 DEF ClassesFrom, IsClass
  <2> DEFINE D == ToSet(c) \union {method}
  <2>2. c \in Seq(D) /\ method \in D
    BY <2>1, ListOver
  <2> HIDE DEF D
  <2> QED  BY <2>2, AppendProperties DEF NoName
<1>6. \/ found = NoName /\ \A c \in ToSet(walk) : ~has(c)
      \/ \E i \in DOMAIN walk : Finds(i)
  <2> HIDE DEF T, walk, context, index
  <2> QED  BY <1>3, FirstMethodFound
<1> HIDE DEF T, walk, context, index, found
<1>7. /\ 1 \in DOMAIN walk
      /\ \A i \in DOMAIN walk : walk[i] \in T /\ walk[i] \in ancestors /\ (i = 1 \/ 1 \in 1 .. i - 1)
  BY <1>3 DEF ToSet
<1>8. CASE found = NoName /\ \A c \in ToSet(walk) : ~has(c)
  BY <1>1, <1>3, <1>4, <1>7, <1>8 DEF context, index
<1>9. CASE \E i \in DOMAIN walk : Finds(i)
  <2>1. PICK i \in DOMAIN walk : Finds(i)
    BY <1>9
  <2>2. found # NoName /\ walk[i] \in ancestors
    BY <1>5, <1>7, <2>1
  <2>3. has(class) => walk[i] = class
    BY <1>3, <1>7, <2>1
  <2> QED  BY <1>4, <2>1, <2>2, <2>3 DEF context, index
<1> QED  BY <1>6, <1>8, <1>9

-----------------------------------------------------------------------------
(* What is resolved is an entity.                                          *)

\* A method found is a known function.
LEMMA ResolvedMethods ==
    ASSUME NEW loaded, FactsOK(loaded), NEW context, context.index = RepositoryIndex(loaded),
           NEW class, NEW method
    PROVE  LET found == resolve_method_on_class(class, method, context)
           IN  found # NoName => IsFunction(found, context.index)
<1> DEFINE walk == Walk(class, context)
           T == ClassesFrom(class, context)
           index == context.index
           has(c) == IsFunction(Append(c, method), index)
           found == FirstMethod(walk, method, index)
           Finds(i) == has(walk[i]) /\ found = Append(walk[i], method) /\ \A j \in 1 .. i - 1 : ~has(walk[j])
<1>1. walk \in Seq(T)
  BY FactsMakeHierarchy, WalkVisits
<1>2. \/ found = NoName /\ \A c \in ToSet(walk) : ~has(c)
      \/ \E i \in DOMAIN walk : Finds(i)
  <2> HIDE DEF walk, T, index
  <2> QED  BY <1>1, FirstMethodFound
<1>3. found = NoName \/ IsFunction(found, index)
  <2> HIDE DEF walk, index, found
  <2> QED  BY <1>2
<1> QED  BY <1>3 DEF resolve_method_on_class

\* A call goes to a known function or class, or nowhere known.
LEMMA CallsAreKnown ==
    ASSUME NEW loaded, FactsOK(loaded), NEW context, context.index = RepositoryIndex(loaded),
           NEW owner, NEW locals, NEW names, NEW callee
    PROVE  LET called == resolve_call(owner, locals, names, callee, context)
           IN  called # NoName => IsFunction(called, context.index) \/ IsClass(called, context.index)
<1>1. ASSUME NEW class, NEW method, resolve_method_on_class(class, method, context) # NoName
      PROVE  IsFunction(resolve_method_on_class(class, method, context), context.index)
  BY <1>1, ResolvedMethods
<1>2. ASSUME NEW class, NEW method, MethodOn(class, method, context) # NoName
      PROVE  IsFunction(MethodOn(class, method, context), context.index)
  BY <1>1, <1>2 DEF MethodOn
<1> DEFINE known == Lookup(names, Head(callee))
           own == Head(callee) \in Receivers /\ owner # NoName
           class == ReceiverClass(own, owner, locals, known, callee, context)
           method == Last(callee)
<1>3. resolve_call(owner, locals, names, callee, context) =
         IF ~own /\ Len(callee) = 1
         THEN IF IsFunction(known, context.index) \/ IsClass(known, context.index) THEN known ELSE NoName
         ELSE MethodOn(class, method, context)
  BY DEF resolve_call
<1> HIDE DEF own, class, method, known
<1> QED  BY <1>2, <1>3

\* The classes and functions of modules.
SymbolsOf(resolved) ==
    UNION {{ClassRef(c.name) : c \in m.classes} \union {FunctionRef(f) : f \in m.functions} : m \in resolved}

\* Modules whose imports, bases, calls and owners are among them.
Resolved(resolved) ==
    \A m \in resolved :
        /\ m.imports \subseteq {o.name : o \in resolved}
        /\ m.calls \subseteq SymbolsOf(resolved)
        /\ \A c \in m.classes : {ClassRef(b) : b \in c.bases} \subseteq SymbolsOf(resolved)
        /\ \A f \in m.functions :
              /\ f.calls \subseteq SymbolsOf(resolved)
              /\ f.owner \in {ModuleRef(m.name)} \union {ClassRef(c.name) : c \in m.classes}

\* What a scope calls is an entity.
LEMMA SymbolsAreEntities ==
    ASSUME NEW resolved PROVE SymbolsOf(resolved) \subseteq EntitiesOf(resolved)
  BY DEF SymbolsOf, EntitiesOf

\* An edge of a module.
EdgesOfModule(resolved, m) ==
    ContainsEdges(m) \union ImportEdges(m) \union InheritsEdges(m) \union CallEdges(m)
    \union TestEdges(resolved, m)

\* Every relationship is derived from a module.
LEMMA EdgesByModule ==
    ASSUME NEW resolved, NEW r \in build_relationships(resolved)
    PROVE  \E m \in resolved : r \in EdgesOfModule(resolved, m)
  BY DEF build_relationships, EdgesOfModule

\* A test edge leaves a test module, or a function of one that calls the entity tested.
LEMMA TestEdgeForms ==
    ASSUME NEW resolved, NEW m \in resolved, NEW r \in TestEdges(resolved, m)
    PROVE  m.test /\ \E f \in m.functions : \E t \in f.calls : \E o \in Owning(resolved, t) :
              \/ r = Edge("tests", FunctionRef(f), t)
              \/ r = Edge("tests", ModuleRef(m.name), ModuleRef(o.name))
<1>1. m.test
  BY DEF TestEdges
<1>2. PICK f \in m.functions : r \in UNION {TestsAsserted(resolved, m, f, t) : t \in f.calls}
  BY <1>1 DEF TestEdges
<1>3. PICK t \in f.calls : r \in TestsAsserted(resolved, m, f, t)
  BY <1>2
<1>4. PICK o \in Owning(resolved, t) :
        r \in {Edge("tests", FunctionRef(f), t), Edge("tests", ModuleRef(m.name), ModuleRef(o.name))}
  BY <1>3 DEF TestsAsserted
<1> QED  BY <1>1, <1>2, <1>3, <1>4

\* The relationships of resolved modules join entities of theirs.
LEMMA ResolvedEdges ==
    ASSUME NEW resolved, Resolved(resolved), NEW r \in build_relationships(resolved)
    PROVE  r.source \in EntitiesOf(resolved) /\ r.target \in EntitiesOf(resolved) /\ r.kind \in Kinds
<1>1. PICK m \in resolved : r \in EdgesOfModule(resolved, m)
  BY EdgesByModule
<1>2. /\ FileRef(m) \in EntitiesOf(resolved)
      /\ \A o \in resolved : ModuleRef(o.name) \in EntitiesOf(resolved)
      /\ \A c \in m.classes : ClassRef(c.name) \in EntitiesOf(resolved)
      /\ \A f \in m.functions : FunctionRef(f) \in EntitiesOf(resolved)
  BY DEF EntitiesOf
<1>3. CASE r \in ContainsEdges(m)
  <2>1. \A f \in m.functions : f.owner \in EntitiesOf(resolved)
    BY <1>2 DEF Resolved
  <2> QED  BY <1>2, <1>3, <2>1 DEF ContainsEdges, Edge, Kinds
<1>4. CASE r \in ImportEdges(m)
  <2>1. PICK n \in m.imports : r = Edge("imports", ModuleRef(m.name), ModuleRef(n))
    BY <1>4 DEF ImportEdges
  <2>2. \E o \in resolved : o.name = n
    BY DEF Resolved
  <2> QED  BY <1>2, <2>1, <2>2 DEF Edge, Kinds
<1>5. CASE r \in InheritsEdges(m)
  <2>1. PICK c \in m.classes : \E b \in c.bases : r = Edge("inherits", ClassRef(c.name), ClassRef(b))
    BY <1>5 DEF InheritsEdges
  <2>2. PICK b \in c.bases : r = Edge("inherits", ClassRef(c.name), ClassRef(b))
    BY <2>1
  <2>3. ClassRef(b) \in EntitiesOf(resolved)
    BY <2>1, <2>2, SymbolsAreEntities DEF Resolved
  <2> QED  BY <1>2, <2>2, <2>3 DEF Edge, Kinds
<1>6. CASE r \in CallEdges(m)
  <2>1. \/ \E t \in m.calls : r = Edge("calls", ModuleRef(m.name), t)
        \/ \E f \in m.functions : \E t \in f.calls : r = Edge("calls", FunctionRef(f), t)
    BY <1>6 DEF CallEdges, CallsOf
  <2>2. m.calls \subseteq EntitiesOf(resolved) /\ \A f \in m.functions : f.calls \subseteq EntitiesOf(resolved)
    BY SymbolsAreEntities DEF Resolved
  <2> QED  BY <1>2, <2>1, <2>2 DEF Edge, Kinds
<1>7. CASE r \in TestEdges(resolved, m)
  <2>1. PICK f \in m.functions : \E t \in f.calls : \E o \in Owning(resolved, t) :
              \/ r = Edge("tests", FunctionRef(f), t)
              \/ r = Edge("tests", ModuleRef(m.name), ModuleRef(o.name))
    BY <1>7, TestEdgeForms
  <2>2. f.calls \subseteq EntitiesOf(resolved)
    BY SymbolsAreEntities DEF Resolved
  <2>3. \A t : Owning(resolved, t) \subseteq resolved
    BY DEF Owning
  <2> QED  BY <1>2, <2>1, <2>2, <2>3 DEF Edge, Kinds
<1> QED  BY <1>1, <1>3, <1>4, <1>5, <1>6, <1>7 DEF EdgesOfModule

\* A test that calls an entity of a module that is not a test is an edge to it.
LEMMA CallsAreTested ==
    ASSUME NEW resolved, NEW m \in resolved, m.test, NEW f \in m.functions, NEW t \in f.calls,
           NEW o \in Owning(resolved, t), o.name # m.name, ~o.test
    PROVE  Edge("tests", FunctionRef(f), t) \in build_relationships(resolved)
<1>1. Edge("tests", FunctionRef(f), t) \in TestsAsserted(resolved, m, f, t)
  BY DEF TestsAsserted
<1>2. Edge("tests", FunctionRef(f), t) \in TestEdges(resolved, m)
  BY <1>1 DEF TestEdges
<1> QED  BY <1>2 DEF build_relationships

\* No entity imports or calls itself.
LEMMA OnlyClassesExtendThemselves ==
    ASSUME NEW resolved, NEW r \in build_relationships(resolved), r.source = r.target,
           r.kind \in {"imports", "calls", "inherits"}
    PROVE  r.kind = "inherits"
<1>1. PICK m \in resolved : r \in EdgesOfModule(resolved, m)
  BY EdgesByModule
<1>2. r \notin ContainsEdges(m)
  BY DEF ContainsEdges, Edge
<1>3. r \notin ImportEdges(m)
  BY DEF ImportEdges, Edge, ModuleRef, Ref
<1>4. r \notin CallEdges(m)
  BY DEF CallEdges, CallsOf, Edge
<1>5. r \notin TestEdges(resolved, m)
  BY TestEdgeForms DEF Edge
<1>6. r \in InheritsEdges(m)
  BY <1>1, <1>2, <1>3, <1>4, <1>5 DEF EdgesOfModule
<1> QED  BY <1>6 DEF InheritsEdges, Edge

\* A resolved module has the names of its facts.
LEMMA ResolvedFields ==
    ASSUME NEW m, NEW context
    PROVE  LET r == ResolvedModule(m, context) IN
           /\ r.name = m.name /\ r.path = m.path /\ r.test = m.test
           /\ {c.name : c \in r.classes} = {c.qname : c \in ToSet(m.classes)}
           /\ {f.name : f \in r.functions} = {f.qname : f \in ToSet(m.functions)}
<1> DEFINE r == ResolvedModule(m, context)
           bases(c) == ToSet(BasesOf(c, context))
<1>1. r.classes = {[name |-> c.qname, bases |-> bases(c)] : c \in ToSet(m.classes)}
  BY DEF ResolvedModule
<1>2. {c.name : c \in r.classes} = {c.qname : c \in ToSet(m.classes)}
  <2> HIDE DEF r, bases
  <2>1. \A c \in r.classes : \E d \in ToSet(m.classes) : c.name = d.qname
    BY <1>1
  <2>2. ASSUME NEW d \in ToSet(m.classes) PROVE \E c \in r.classes : c.name = d.qname
    <3>1. [name |-> d.qname, bases |-> bases(d)] \in r.classes
      BY <1>1
    <3>2. [name |-> d.qname, bases |-> bases(d)].name = d.qname
      OBVIOUS
    <3> QED  BY <3>1, <3>2, Zenon
  <2> QED  BY <2>1, <2>2
<1>3. {f.name : f \in r.functions} = {f.qname : f \in ToSet(m.functions)}
  <2> DEFINE owner(f) == IF f.owner = NoName THEN ModuleRef(m.name) ELSE ClassRef(f.owner)
             scope(f) == ScopeCalls(f.calls, f.owner, Lookup(context.locals, f.qname),
                                    context.namespaces[m.name], context)
  <2>1. r.functions = {[name |-> f.qname, owner |-> owner(f), calls |-> scope(f)] : f \in ToSet(m.functions)}
    BY DEF ResolvedModule
  <2> HIDE DEF r, owner, scope
  <2>2. \A f \in r.functions : \E g \in ToSet(m.functions) : f.name = g.qname
    BY <2>1
  <2>3. ASSUME NEW g \in ToSet(m.functions) PROVE \E f \in r.functions : f.name = g.qname
    <3>1. [name |-> g.qname, owner |-> owner(g), calls |-> scope(g)] \in r.functions
      BY <2>1
    <3>2. [name |-> g.qname, owner |-> owner(g), calls |-> scope(g)].name = g.qname
      OBVIOUS
    <3> QED  BY <3>1, <3>2, Zenon
  <2> QED  BY <2>2, <2>3
<1>4. r.name = m.name /\ r.path = m.path /\ r.test = m.test
  BY DEF ResolvedModule
<1> QED  BY <1>2, <1>3, <1>4

\* The symbols of the resolved modules are the classes and functions that the index knows.
LEMMA KnownAreSymbols ==
    ASSUME NEW loaded, FactsOK(loaded), NEW q
    PROVE  /\ IsClass(q, RepositoryIndex(loaded)) => ClassRef(q) \in SymbolsOf(ResolvedModules(loaded))
           /\ IsFunction(q, RepositoryIndex(loaded)) =>
                 Ref("FUNCTION", q) \in SymbolsOf(ResolvedModules(loaded))
<1> DEFINE context == Context(loaded)
<1>1. ResolvedModules(loaded) = {ResolvedModule(m, context) : m \in ToSet(Named(loaded))}
  BY DEF ResolvedModules, ResolvedWith
<1>2. ASSUME IsClass(q, RepositoryIndex(loaded)) PROVE ClassRef(q) \in SymbolsOf(ResolvedModules(loaded))
  <2>1. PICK m \in ToSet(Named(loaded)) : \E c \in ToSet(m.classes) : c.qname = q
    BY <1>2, IndexKnows DEF ClassesIn
  <2>2. \E c \in ResolvedModule(m, context).classes : c.name = q
    BY <2>1, ResolvedFields
  <2> HIDE DEF context
  <2> QED  BY <1>1, <2>1, <2>2 DEF SymbolsOf
<1>3. ASSUME IsFunction(q, RepositoryIndex(loaded))
      PROVE  Ref("FUNCTION", q) \in SymbolsOf(ResolvedModules(loaded))
  <2>1. PICK m \in ToSet(Named(loaded)) : \E f \in ToSet(m.functions) : f.qname = q
    BY <1>3, IndexKnows DEF FunctionsIn
  <2>2. \E f \in ResolvedModule(m, context).functions : f.name = q
    BY <2>1, ResolvedFields
  <2> HIDE DEF context
  <2> QED  BY <1>1, <2>1, <2>2 DEF SymbolsOf, FunctionRef
<1> QED  BY <1>2, <1>3

\* The calls of a scope go to classes and functions of the repository.
LEMMA ScopesCallSymbols ==
    ASSUME NEW loaded, FactsOK(loaded), NEW sites, NEW owner, NEW locals, NEW names
    PROVE  ScopeCalls(sites, owner, locals, names, Context(loaded)) \subseteq SymbolsOf(ResolvedModules(loaded))
<1> DEFINE context == Context(loaded)
<1>1. context.index = RepositoryIndex(loaded)
  BY ContextIndex
<1> HIDE DEF context
<1> SUFFICES ASSUME NEW e \in ScopeCalls(sites, owner, locals, names, context)
             PROVE  e \in SymbolsOf(ResolvedModules(loaded))
  BY DEF context
<1>2. PICK s \in sites :
        /\ e = CalledEntity(resolve_call(owner, locals, names, s.fn, context), context.index)
        /\ resolve_call(owner, locals, names, s.fn, context) # NoName
  BY DEF ScopeCalls
<1> DEFINE called == resolve_call(owner, locals, names, s.fn, context)
<1>3. IsFunction(called, context.index) \/ IsClass(called, context.index)
  BY <1>1, <1>2, CallsAreKnown
<1> QED  BY <1>1, <1>2, <1>3, KnownAreSymbols DEF CalledEntity

\* An import of a repository is one of its modules.
LEMMA ImportsAreKnown ==
    ASSUME NEW module, NEW import, NEW index
    PROVE  ImportedModule(module, import, index) \in index.modules \union {NoName}
  BY DEF ImportedModule, ImportedFrom, KnownModule

\* Whatever the facts of a repository are resolved to, is in the repository.
LEMMA FactsAreResolved ==
    ASSUME NEW loaded, FactsOK(loaded)
    PROVE  Resolved(ResolvedModules(loaded))
<1> DEFINE context == Context(loaded)
           resolved == ResolvedModules(loaded)
<1>0. context.index = RepositoryIndex(loaded)
  BY ContextIndex
<1>1. resolved = {ResolvedModule(m, context) : m \in ToSet(Named(loaded))}
  BY DEF ResolvedModules, ResolvedWith
<1> HIDE DEF context, resolved
<1>2. {o.name : o \in resolved} = context.index.modules
  <2>1. context.index.modules = {m.name : m \in ToSet(Named(loaded))}
    BY <1>0, IndexKnows
  <2>2. \A m : ResolvedModule(m, context).name = m.name
    BY ResolvedFields
  <2> QED  BY <1>1, <2>1, <2>2
<1> SUFFICES ASSUME NEW m \in ToSet(Named(loaded))
             PROVE  LET r == ResolvedModule(m, context) IN
                    /\ r.imports \subseteq {o.name : o \in resolved}
                    /\ r.calls \subseteq SymbolsOf(resolved)
                    /\ \A c \in r.classes : {ClassRef(b) : b \in c.bases} \subseteq SymbolsOf(resolved)
                    /\ \A f \in r.functions :
                          /\ f.calls \subseteq SymbolsOf(resolved)
                          /\ f.owner \in {ModuleRef(r.name)} \union {ClassRef(c.name) : c \in r.classes}
  BY <1>1 DEF Resolved, resolved
<1> DEFINE r == ResolvedModule(m, context)
           owner(f) == IF f.owner = NoName THEN ModuleRef(m.name) ELSE ClassRef(f.owner)
           scope(f) == ScopeCalls(f.calls, f.owner, Lookup(context.locals, f.qname),
                                  context.namespaces[m.name], context)
           bases(c) == ToSet(BasesOf(c, context))
<1>3. r.imports \subseteq {o.name : o \in resolved}
  <2>1. r.imports = {ImportedModule(m, i, context.index) : i \in ToSet(m.imports)} \ {NoName}
    BY DEF ResolvedModule
  <2> HIDE DEF r
  <2> QED  BY <1>2, <2>1, ImportsAreKnown
<1>4. r.calls \subseteq SymbolsOf(resolved)
  <2>1. r.calls = ScopeCalls(m.calls, NoName, <<>>, context.namespaces[m.name], context)
    BY DEF ResolvedModule
  <2> HIDE DEF r
  <2> QED  BY <2>1, ScopesCallSymbols DEF context, resolved
<1>5. ASSUME NEW c \in r.classes PROVE {ClassRef(b) : b \in c.bases} \subseteq SymbolsOf(resolved)
  <2>1. r.classes = {[name |-> d.qname, bases |-> bases(d)] : d \in ToSet(m.classes)}
    BY DEF ResolvedModule
  <2> HIDE DEF r, bases
  <2>2. PICK d \in ToSet(m.classes) : c = [name |-> d.qname, bases |-> bases(d)]
    BY <1>5, <2>1
  <2>3. IsList(d.bases)
    BY NamedModules DEF FactsOK
  <2>4. bases(d) \subseteq DOMAIN context.index.classes
    BY <2>3, BasesAreKnown DEF bases
  <2>5. \A b \in bases(d) : ClassRef(b) \in SymbolsOf(resolved)
    BY <1>0, <2>4, KnownAreSymbols DEF IsClass, resolved
  <2> QED  BY <2>2, <2>5
<1>6. ASSUME NEW f \in r.functions
      PROVE  /\ f.calls \subseteq SymbolsOf(resolved)
             /\ f.owner \in {ModuleRef(r.name)} \union {ClassRef(c.name) : c \in r.classes}
  <2>1. r.functions = {[name |-> g.qname, owner |-> owner(g), calls |-> scope(g)] : g \in ToSet(m.functions)}
    BY DEF ResolvedModule
  <2>2. r.name = m.name /\ {c.name : c \in r.classes} = {c.qname : c \in ToSet(m.classes)}
    BY ResolvedFields
  <2> HIDE DEF r, owner, scope
  <2>3. PICK g \in ToSet(m.functions) : f = [name |-> g.qname, owner |-> owner(g), calls |-> scope(g)]
    BY <1>6, <2>1
  <2>4. scope(g) \subseteq SymbolsOf(resolved)
    BY ScopesCallSymbols DEF scope, context, resolved
  <2>5. g.owner # NoName => \E c \in ToSet(m.classes) : c.qname = g.owner
    BY NamedModules DEF FactsOK
  <2>6. owner(g) \in {ModuleRef(r.name)} \union {ClassRef(c.name) : c \in r.classes}
    BY <2>2, <2>5 DEF owner
  <2> QED  BY <2>3, <2>4, <2>6
<1> QED  BY <1>3, <1>4, <1>5, <1>6

-----------------------------------------------------------------------------
(* The snapshots of indexed repositories.                                  *)

\* The relationships of a snapshot join entities of the snapshot: nothing that queries
\* follow leads out of it (relationships.py:90-183, 237-305, 417-476).
THEOREM EdgesJoinEntities ==
    ASSUME NEW files, NEW loaded, FactsOK(loaded)
    PROVE  LET s == SnapshotOf(files, loaded)
           IN  \A r \in s.edges : r.source \in s.entities /\ r.target \in s.entities /\ r.kind \in Kind
<1> DEFINE resolved == ResolvedModules(loaded)
           s == SnapshotOf(files, loaded)
<1>1. EntitiesOf(resolved) \subseteq s.entities /\ s.edges = build_relationships(resolved)
  BY DEF SnapshotOf, SnapshotWith
<1>2. Resolved(resolved)
  BY FactsAreResolved
<1> HIDE DEF resolved, s
<1>3. \A r \in s.edges : r.source \in EntitiesOf(resolved) /\ r.target \in EntitiesOf(resolved) /\ r.kind \in Kinds
  BY <1>1, <1>2, ResolvedEdges
<1>4. Kinds = Kind
  BY DEF Kinds, Kind
<1> QED  BY <1>1, <1>3, <1>4 DEF s

\* What a resolved method call of a method's own object becomes: a relationship, unless the
\* method calls itself.
LEMMA SelfCallsAreEdges ==
    ASSUME NEW files, NEW loaded, FactsOK(loaded), NEW m \in ToSet(Named(loaded)),
           NEW f \in ToSet(m.functions), f.owner # NoName,
           NEW method, NEW site \in f.calls, site.fn = <<"self", method>>
    PROVE  LET found == resolve_method_on_class(f.owner, method, Context(loaded))
           IN  found # NoName /\ found # f.qname =>
                  Edge("calls", Ref("FUNCTION", f.qname), Ref("FUNCTION", found))
                      \in SnapshotOf(files, loaded).edges
<1> DEFINE context == Context(loaded)
           found == resolve_method_on_class(f.owner, method, context)
           locals == Lookup(context.locals, f.qname)
           names == context.namespaces[m.name]
           called == resolve_call(f.owner, locals, names, site.fn, context)
           r == ResolvedModule(m, context)
           owner(g) == IF g.owner = NoName THEN ModuleRef(m.name) ELSE ClassRef(g.owner)
           scope(g) == ScopeCalls(g.calls, g.owner, Lookup(context.locals, g.qname), names, context)
           g == [name |-> f.qname, owner |-> owner(f), calls |-> scope(f)]
<1> SUFFICES ASSUME found # NoName, found # f.qname
             PROVE  Edge("calls", Ref("FUNCTION", f.qname), Ref("FUNCTION", found))
                        \in SnapshotOf(files, loaded).edges
  OBVIOUS
<1>1. context.index = RepositoryIndex(loaded)
  BY ContextIndex
<1>2. called = found
  <2>1. Head(site.fn) = "self" /\ Last(site.fn) = method /\ Len(site.fn) = 2
    BY DEF Last
  <2>2. "self" \in Receivers
    BY DEF Receivers
  <2> HIDE DEF context, locals, names
  <2>3. ReceiverClass(TRUE, f.owner, locals, Lookup(names, "self"), site.fn, context) = f.owner
    BY <2>1 DEF ReceiverClass
  <2>4. called = MethodOn(f.owner, method, context)
    BY <2>1, <2>2, <2>3 DEF resolve_call
  <2> QED  BY <2>4 DEF MethodOn
<1>3. IsFunction(found, context.index)
  BY <1>1, ResolvedMethods
<1>4. Ref("FUNCTION", found) \in scope(f)
  <2>1. CalledEntity(found, context.index) = Ref("FUNCTION", found)
    BY <1>3 DEF CalledEntity
  <2> HIDE DEF context, locals, names, found
  <2> QED  BY <1>2, <2>1 DEF ScopeCalls, locals
<1>5. g \in r.functions
  BY DEF ResolvedModule
<1>6. r \in ResolvedModules(loaded)
  BY DEF ResolvedModules, ResolvedWith
<1> HIDE DEF context, found, r, owner, scope
<1>7. g.name = f.qname /\ Ref("FUNCTION", found) \in g.calls
  BY <1>4
<1> HIDE DEF g
<1>8. Edge("calls", FunctionRef(g), Ref("FUNCTION", found)) \in CallEdges(r)
  BY <1>5, <1>7 DEF CallEdges, CallsOf, FunctionRef, Ref
<1>9. Edge("calls", FunctionRef(g), Ref("FUNCTION", found)) \in build_relationships(ResolvedModules(loaded))
  BY <1>6, <1>8 DEF build_relationships
<1> QED  BY <1>7, <1>9 DEF SnapshotOf, SnapshotWith, FunctionRef

\* A method's call of a method of its own object becomes a relationship whenever the class
\* or a class it inherits from has the method, to one of them, to the class's own if it has
\* it; only a method's call of itself is none (type_inference.py:79-109,
\* relationships.py:291-358, 446-458).
THEOREM SelfCallsFindTheirMethod ==
    ASSUME NEW files, NEW loaded, FactsOK(loaded), NEW m \in ToSet(Named(loaded)),
           NEW f \in ToSet(m.functions), f.owner # NoName,
           NEW method, NEW site \in f.calls, site.fn = <<"self", method>>,
           NEW ancestors, Inherits(ancestors, f.owner, Context(loaded)),
           \A S : Inherits(S, f.owner, Context(loaded)) => ancestors \subseteq S,
           \E c \in ancestors : IsFunction(Append(c, method), RepositoryIndex(loaded))
    PROVE  \E c \in ancestors :
              /\ IsFunction(Append(c, method), RepositoryIndex(loaded))
              /\ IsFunction(Append(f.owner, method), RepositoryIndex(loaded)) =>
                    Append(c, method) = Append(f.owner, method)
              /\ \/ Append(c, method) = f.qname
                 \/ Edge("calls", Ref("FUNCTION", f.qname), Ref("FUNCTION", Append(c, method)))
                       \in SnapshotOf(files, loaded).edges
<1> DEFINE found == resolve_method_on_class(f.owner, method, Context(loaded))
<1>1. IsList(f.owner)
  BY NamedModules DEF FactsOK
<1>2. /\ found # NoName
      /\ found # NoName => \E c \in ancestors :
             IsFunction(Append(c, method), RepositoryIndex(loaded)) /\ found = Append(c, method)
      /\ IsFunction(Append(f.owner, method), RepositoryIndex(loaded)) => found = Append(f.owner, method)
  <2> DEFINE class == f.owner
  <2>1. IsList(class) /\ Inherits(ancestors, class, Context(loaded))
        /\ \A S : Inherits(S, class, Context(loaded)) => ancestors \subseteq S
    BY <1>1
  <2> HIDE DEF class
  <2>2. LET has(c) == IsFunction(Append(c, method), RepositoryIndex(loaded))
            resolved == resolve_method_on_class(class, method, Context(loaded))
        IN  /\ resolved = NoName <=> \A c \in ancestors : ~has(c)
            /\ resolved # NoName => \E c \in ancestors : has(c) /\ resolved = Append(c, method)
            /\ has(class) => resolved = Append(class, method)
    BY <2>1, MethodsAreInherited
  <2> QED  BY <2>2 DEF class
<1>3. PICK c \in ancestors : IsFunction(Append(c, method), RepositoryIndex(loaded)) /\ found = Append(c, method)
  BY <1>2
<1>4. found # f.qname => Edge("calls", Ref("FUNCTION", f.qname), Ref("FUNCTION", found)) \in SnapshotOf(files, loaded).edges
  BY <1>2, SelfCallsAreEdges
<1> HIDE DEF found
<1> QED  BY <1>2, <1>3, <1>4

\* Resolved modules of tests and others keep their names apart.
LEMMA ResolvedTestsApart ==
    ASSUME NEW loaded, TestNamesApart(loaded),
           NEW m \in ResolvedModules(loaded), NEW o \in ResolvedModules(loaded), m.test, ~o.test
    PROVE  /\ m.name # o.name
           /\ \A f \in m.functions, g \in o.functions : f.name # g.name
<1> DEFINE context == Context(loaded)
<1>1. ResolvedModules(loaded) = {ResolvedModule(x, context) : x \in ToSet(Named(loaded))}
  BY DEF ResolvedModules, ResolvedWith
<1> HIDE DEF context
<1>2. PICK x \in ToSet(Named(loaded)) : m = ResolvedModule(x, context)
  BY <1>1
<1>3. PICK y \in ToSet(Named(loaded)) : o = ResolvedModule(y, context)
  BY <1>1
<1>4. /\ m.name = x.name /\ m.test = x.test /\ {f.name : f \in m.functions} = {f.qname : f \in ToSet(x.functions)}
      /\ o.name = y.name /\ o.test = y.test /\ {g.name : g \in o.functions} = {g.qname : g \in ToSet(y.functions)}
  <2>1. /\ m.name = x.name /\ m.test = x.test
        /\ {f.name : f \in m.functions} = {f.qname : f \in ToSet(x.functions)}
    BY <1>2, ResolvedFields
  <2>2. /\ o.name = y.name /\ o.test = y.test
        /\ {g.name : g \in o.functions} = {g.qname : g \in ToSet(y.functions)}
    BY <1>3, ResolvedFields
  <2> QED  BY <2>1, <2>2
<1>5. x.name # y.name /\ \A f \in ToSet(x.functions), g \in ToSet(y.functions) : f.qname # g.qname
  BY <1>4 DEF TestNamesApart
<1>6. ASSUME NEW f \in m.functions, NEW g \in o.functions PROVE f.name # g.name
  <2>1. \E d \in ToSet(x.functions) : f.name = d.qname
    BY <1>4
  <2>2. \E e \in ToSet(y.functions) : g.name = e.qname
    BY <1>4
  <2> QED  BY <1>5, <2>1, <2>2
<1> QED  BY <1>4, <1>5, <1>6

\* A test of an edge is an entity of a test module.
LEMMA TestedByTests ==
    ASSUME NEW resolved, NEW r \in build_relationships(resolved), r.kind = "tests"
    PROVE  r.source \in EntitiesOf({m \in resolved : m.test})
<1>1. PICK m \in resolved : r \in EdgesOfModule(resolved, m)
  BY EdgesByModule
<1>2. r \in TestEdges(resolved, m)
  <2>1. r \notin ContainsEdges(m) /\ r \notin ImportEdges(m) /\ r \notin InheritsEdges(m) /\ r \notin CallEdges(m)
    BY DEF ContainsEdges, ImportEdges, InheritsEdges, CallEdges, CallsOf, Edge
  <2> QED  BY <1>1, <2>1 DEF EdgesOfModule
<1>3. PICK f \in m.functions : r.source = FunctionRef(f) \/ r.source = ModuleRef(m.name)
  BY <1>2, TestEdgeForms DEF Edge
<1>4. m.test
  BY <1>2, TestEdgeForms
<1> QED  BY <1>3, <1>4 DEF EntitiesOf

\* A function of a calls edge calls its target.
LEMMA CallsByFunctions ==
    ASSUME NEW resolved, NEW r \in build_relationships(resolved), r.kind = "calls", r.source.kind = "FUNCTION"
    PROVE  \E m \in resolved : \E f \in m.functions : r.source = FunctionRef(f) /\ r.target \in f.calls
<1>1. PICK m \in resolved : r \in EdgesOfModule(resolved, m)
  BY EdgesByModule
<1>2. r \in CallEdges(m)
  <2>1. r \notin ContainsEdges(m) /\ r \notin ImportEdges(m) /\ r \notin InheritsEdges(m)
    BY DEF ContainsEdges, ImportEdges, InheritsEdges, Edge
  <2>2. r \notin TestEdges(resolved, m)
    BY TestEdgeForms DEF Edge
  <2> QED  BY <1>1, <2>1, <2>2 DEF EdgesOfModule
<1>3. r \notin CallsOf(ModuleRef(m.name), m.calls)
  BY DEF CallsOf, Edge, ModuleRef, Ref
<1>4. PICK f \in m.functions : r \in CallsOf(FunctionRef(f), f.calls)
  BY <1>2, <1>3 DEF CallEdges
<1> QED  BY <1>4 DEF CallsOf, Edge

\* A test that calls what is not of a test has a tests edge to it.
LEMMA TestsOfCalls ==
    ASSUME NEW loaded, FactsOK(loaded), TestNamesApart(loaded),
           NEW r \in build_relationships(ResolvedModules(loaded)),
           r.kind = "calls", r.source.kind = "FUNCTION",
           r.source \in EntitiesOf({m \in ResolvedModules(loaded) : m.test}),
           r.target \notin EntitiesOf({m \in ResolvedModules(loaded) : m.test})
    PROVE  Edge("tests", r.source, r.target) \in build_relationships(ResolvedModules(loaded))
<1> DEFINE resolved == ResolvedModules(loaded)
           tests == {m \in resolved : m.test}
<1>1. PICK m \in resolved : \E f \in m.functions : r.source = FunctionRef(f) /\ r.target \in f.calls
  BY CallsByFunctions
<1>2. PICK f \in m.functions : r.source = FunctionRef(f) /\ r.target \in f.calls
  BY <1>1
<1>3. PICK p \in tests : \E g \in p.functions : r.source = FunctionRef(g)
  BY DEF EntitiesOf, FileRef, ModuleRef, ClassRef, FunctionRef, Ref
<1>4. \E g \in p.functions : g.name = f.name
  BY <1>2, <1>3 DEF FunctionRef, Ref
<1>5. m.test
  BY <1>3, <1>4, ResolvedTestsApart
<1>6. r.target \in SymbolsOf(resolved)
  BY <1>2, FactsAreResolved DEF Resolved
<1>7. PICK o \in resolved : \/ r.target \in {ClassRef(c.name) : c \in o.classes}
                           \/ r.target \in {FunctionRef(g) : g \in o.functions}
  BY <1>6 DEF SymbolsOf
<1>8. o \in Owning(resolved, r.target)
  BY <1>7 DEF Owning
<1>9. ~o.test
  BY <1>7 DEF EntitiesOf
<1>10. o.name # m.name
  BY <1>5, <1>9, ResolvedTestsApart
<1> HIDE DEF resolved, tests
<1>11. Edge("tests", FunctionRef(f), r.target) \in build_relationships(resolved)
  BY <1>2, <1>5, <1>8, <1>9, <1>10, CallsAreTested
<1> QED  BY <1>2, <1>11 DEF resolved

-----------------------------------------------------------------------------
(* The invariant of the traversal.                                         *)

\* The dependents of an entity found before the last level have been found.
Explored == \A e \in visited \ frontier : DependentsOf(e) \subseteq visited

\* The flag is the last level's, and the target is explored in the first.
LevelsCounted ==
    /\ truncated <=> depth = MaxDepth
    /\ target \in frontier => depth = 0
    /\ target \notin collected

\* The loop ends at its limit or with no entity to add.
Exhausted == stage # "traverse" => truncated \/ NextFrontier = {}

\* What compute_impact_facts takes from the traversal.
ReportedFromTraversal ==
    stage = "done" =>
        /\ facts.direct = DependentsOf(target)
        /\ facts.indirect = collected \ DependentsOf(target)
        /\ facts.tests = UNION {TestsFor(e) : e \in visited}
        /\ facts.apis = visited \intersect snapshot.handlers
        /\ facts.truncated = truncated
        /\ facts.confidence = Confidence

IInv ==
    /\ snapshot \in Snapshots
    /\ ImpactTypeOK
    /\ Explored
    /\ LevelsCounted
    /\ Exhausted
    /\ ReportedFromTraversal
    /\ EverythingDepends

-----------------------------------------------------------------------------
(* One level of the traversal.                                             *)

\* Whatever a level finds depends on an entity of the level before.
LEMMA LevelFinds ==
    ASSUME NEW x \in NextFrontier
    PROVE  /\ x \notin visited
           /\ \E e \in frontier : x \in DependentsOf(e)
  BY DEF NextFrontier

\* A level finds every dependent of the level before.
LEMMA LevelMissesNothing ==
    ASSUME NEW e \in frontier, NEW x \in DependentsOf(e)
    PROVE  x \in visited \union NextFrontier
  BY DEF NextFrontier

\* Dependents are entities of the snapshot.
LEMMA DependentsAreEntities ==
    ASSUME snapshot \in Snapshots, NEW e
    PROVE  DependentsOf(e) \subseteq snapshot.entities
  BY SourcesAssumption DEF DependentsOf

\* A round that adds a level.
Deepen ==
    /\ stage = "traverse" /\ stage' = "traverse"
    /\ depth # MaxDepth
    /\ depth' = depth + 1
    /\ frontier' = NextFrontier
    /\ collected' = collected \union NextFrontier
    /\ truncated' = (depth = MaxDepth - 1)
    /\ UNCHANGED <<snapshot, target, facts>>

\* The round that ends the loop.
Stop ==
    /\ stage = "traverse" /\ stage' = "collect"
    /\ depth = MaxDepth \/ NextFrontier = {}
    /\ UNCHANGED <<depth, frontier, collected, truncated, snapshot, target, facts>>

LEMMA ExploreCases == ASSUME Explore PROVE Deepen \/ Stop
  BY DEF Explore, Deepen, Stop

-----------------------------------------------------------------------------
(* IInv is inductive.                                                      *)

LEMMA InitEstablishes == Init => IInv
<1> SUFFICES ASSUME Init PROVE IInv
  OBVIOUS
<1>1. ImpactTypeOK
  <2>1. depth \in 0 .. MaxDepth
    BY DepthAssumption DEF Init, Ask
  <2>2. truncated \in BOOLEAN /\ stage \in {"traverse", "collect", "done"}
    BY DEF Init, Ask
  <2> QED
    BY <2>1, <2>2 DEF Init, Ask, ImpactTypeOK, visited
<1>2. Explored /\ LevelsCounted
  BY DepthAssumption DEF Init, Ask, Explored, LevelsCounted, visited
<1>3. EverythingDepends
  BY DEF Init, Ask, EverythingDepends, visited
<1> QED
  BY <1>1, <1>2, <1>3 DEF Init, Ask, IInv, Exhausted, ReportedFromTraversal

LEMMA DeepenPreserves == ASSUME IInv, Deepen PROVE IInv'
<1>1. visited' = visited \union NextFrontier
  BY DEF Deepen, visited
<1>2. \A e : DependentsOf(e)' = DependentsOf(e)
  BY DEF Deepen, DependentsOf
<1>3. ImpactTypeOK'
  <2>1. NextFrontier \subseteq snapshot.entities
    BY LevelFinds, DependentsAreEntities DEF IInv
  <2>2. depth + 1 \in 0 .. MaxDepth
    BY DepthAssumption DEF IInv, ImpactTypeOK, Deepen
  <2> QED
    BY <1>1, <2>1, <2>2 DEF IInv, ImpactTypeOK, Deepen
<1>4. Explored'
  <2> SUFFICES ASSUME NEW e \in visited, e \notin NextFrontier, NEW x \in DependentsOf(e)
               PROVE  x \in visited \union NextFrontier
    BY <1>1, <1>2 DEF Explored, Deepen
  <2>1. CASE e \in frontier
    BY <2>1, LevelMissesNothing
  <2>2. CASE e \notin frontier
    BY <2>2 DEF IInv, Explored
  <2> QED
    BY <2>1, <2>2
<1>5. LevelsCounted'
  <2>1. target \notin NextFrontier
    BY LevelFinds DEF visited
  <2>2. truncated' <=> depth' = MaxDepth
    <3>1. depth = MaxDepth - 1 <=> depth + 1 = MaxDepth
      BY DepthAssumption DEF IInv, ImpactTypeOK
    <3> QED
      BY <3>1, Zenon DEF Deepen
  <2>3. target \in frontier' => depth' = 0
    BY <2>1 DEF Deepen
  <2>4. target \notin collected'
    BY <2>1 DEF IInv, LevelsCounted, Deepen
  <2>5. target' = target
    BY DEF Deepen
  <2> QED
    BY <2>2, <2>3, <2>4, <2>5 DEF LevelsCounted
<1>6. Exhausted' /\ ReportedFromTraversal'
  BY DEF Exhausted, ReportedFromTraversal, Deepen
<1>7. EverythingDepends'
  <2> SUFFICES ASSUME NEW part \in SUBSET (visited \union NextFrontier),
                      target \in part,
                      \A e \in part :
                        DependentsOf(e) \intersect (visited \union NextFrontier) \subseteq part
               PROVE  visited \union NextFrontier \subseteq part
    BY <1>1, <1>2 DEF EverythingDepends, Deepen
  <2> DEFINE old == part \intersect visited
  <2>1. target \in old /\ old \in SUBSET visited
    BY DEF visited
  <2>2. \A e \in old : DependentsOf(e) \intersect visited \subseteq old
    OBVIOUS
  <2>3. old = visited
    BY <2>1, <2>2 DEF IInv, EverythingDepends
  <2>4. frontier \subseteq part
    BY <2>3 DEF IInv, ImpactTypeOK
  <2>5. NextFrontier \subseteq part
    BY <2>4, LevelFinds
  <2> QED
    BY <2>3, <2>5
<1> QED
  BY <1>3, <1>4, <1>5, <1>6, <1>7 DEF IInv, Deepen

\* What a step that keeps the traversal's variables keeps.
LEMMA TraversalKept ==
    ASSUME IInv, UNCHANGED <<snapshot, target, depth, frontier, collected, truncated>>
    PROVE  /\ (snapshot \in Snapshots)' /\ Explored' /\ LevelsCounted' /\ EverythingDepends'
           /\ NextFrontier' = NextFrontier
           /\ stage' \in {"traverse", "collect", "done"} => ImpactTypeOK'
<1>1. visited' = visited
  BY DEF visited
<1>2. \A e : DependentsOf(e)' = DependentsOf(e)
  BY DEF DependentsOf
<1>3. NextFrontier' = NextFrontier
  BY <1>1, <1>2 DEF NextFrontier
<1>4. Explored' /\ EverythingDepends'
  BY <1>1, <1>2 DEF IInv, Explored, EverythingDepends
<1> QED
  BY <1>1, <1>3, <1>4 DEF IInv, LevelsCounted, ImpactTypeOK

LEMMA StopPreserves == ASSUME IInv, Stop PROVE IInv'
<1>1. UNCHANGED <<snapshot, target, depth, frontier, collected, truncated>> /\ stage' = "collect"
  BY DEF Stop
<1>2. Exhausted'
  BY <1>1, TraversalKept DEF IInv, LevelsCounted, Exhausted, Stop
<1> QED
  BY <1>1, <1>2, TraversalKept DEF IInv, ReportedFromTraversal

LEMMA CollectPreserves == ASSUME IInv, Collect PROVE IInv'
<1>1. /\ UNCHANGED <<snapshot, target, depth, frontier, collected, truncated>>
      /\ stage = "collect" /\ stage' = "done"
  BY DEF Collect
<1>2. Exhausted'
  BY <1>1, TraversalKept DEF IInv, Exhausted
<1>3. ReportedFromTraversal'
  <2>1. DependentsOf(target)' = DependentsOf(target) /\ Confidence' = Confidence
    BY <1>1 DEF DependentsOf, Confidence
  <2>2. (UNION {TestsFor(e) : e \in visited})' = UNION {TestsFor(e) : e \in visited}
    BY <1>1 DEF visited, TestsFor
  <2>3. (visited \intersect snapshot.handlers)' = visited \intersect snapshot.handlers
    BY <1>1 DEF visited
  <2> QED
    BY <1>1, <2>1, <2>2, <2>3 DEF Collect, ReportedFromTraversal
<1> QED
  BY <1>1, <1>2, <1>3, TraversalKept DEF IInv

LEMMA StutterPreserves == ASSUME IInv, UNCHANGED vars PROVE IInv'
<1>1. UNCHANGED <<snapshot, target, depth, frontier, collected, truncated, stage, facts>>
  BY DEF vars
<1>2. Exhausted' /\ ReportedFromTraversal'
  <2>1. DependentsOf(target)' = DependentsOf(target) /\ Confidence' = Confidence
    BY <1>1 DEF DependentsOf, Confidence
  <2>2. (UNION {TestsFor(e) : e \in visited})' = UNION {TestsFor(e) : e \in visited}
    BY <1>1 DEF visited, TestsFor
  <2>3. (visited \intersect snapshot.handlers)' = visited \intersect snapshot.handlers
    BY <1>1 DEF visited
  <2> QED
    BY <1>1, <2>1, <2>2, <2>3, TraversalKept DEF IInv, Exhausted, ReportedFromTraversal
<1> QED
  BY <1>1, <1>2, TraversalKept DEF IInv, ImpactTypeOK

\* The invariant the others follow from.
THEOREM Invariance == Spec => []IInv
<1>1. Init => IInv
  BY InitEstablishes
<1>2. IInv /\ [Next]_vars => IInv'
  <2> SUFFICES ASSUME IInv, [Next]_vars PROVE IInv'
    OBVIOUS
  <2>1. CASE Explore
    BY <2>1, ExploreCases, DeepenPreserves, StopPreserves
  <2>2. CASE Collect
    BY <2>2, CollectPreserves
  <2>3. CASE UNCHANGED vars
    BY <2>3, StutterPreserves
  <2> QED
    BY <2>1, <2>2, <2>3 DEF Next, Finished
<1> QED
  BY <1>1, <1>2, PTL DEF Spec

-----------------------------------------------------------------------------
(* What the traversal promises.                                            *)

\* The traversal stays within its limit and within the snapshot (graph.py:77-90).
THEOREM TypeCorrect == Spec => []ImpactTypeOK
  BY Invariance, PTL DEF IInv

\* Every entity found depends on the target through entities found, in snapshots of any
\* shape, cyclic ones too (graph.py:79-85).
THEOREM OnlyDependentsFound == Spec => []EverythingDepends
  BY Invariance, PTL DEF IInv

\* A traversal that was not cut off found whatever depends on the target or on an entity
\* it found.
LEMMA ClosedUnlessTruncated ==
    ASSUME IInv, stage = "done", ~truncated, NEW e \in visited
    PROVE  DependentsOf(e) \subseteq visited
<1>1. NextFrontier = {}
  BY DEF IInv, Exhausted
<1>2. CASE e \in frontier
  BY <1>1, <1>2, LevelMissesNothing
<1>3. CASE e \notin frontier
  BY <1>3 DEF IInv, Explored
<1> QED
  BY <1>2, <1>3

\* The target's own dependents are always found: the limit is at least one level.
LEMMA TargetExplored ==
    ASSUME IInv, stage = "done"
    PROVE  DependentsOf(target) \subseteq visited
<1>1. target \in visited
  BY DEF visited
<1>2. CASE truncated
  <2>1. target \notin frontier
    BY <1>2, DepthAssumption DEF IInv, LevelsCounted
  <2> QED
    BY <1>1, <2>1 DEF IInv, Explored
<1>3. CASE ~truncated
  BY <1>1, <1>3, ClosedUnlessTruncated
<1> QED
  BY <1>2, <1>3

\* The report names the entities found, and the target when it depends on itself.
LEMMA ReportedAreFound ==
    ASSUME IInv, stage = "done"
    PROVE  Reported = collected \union DependentsOf(target)
  BY TargetExplored DEF IInv, ReportedFromTraversal, Reported

\* impact leaves out nothing that depends on what it reports, unless it says that the
\* traversal was cut off and lowers its confidence (graph.py:77-90, impact.py:95-109).
THEOREM CompleteUnlessTruncated == Spec => []NothingLeftOut
<1>1. IInv => NothingLeftOut
  <2> SUFFICES ASSUME IInv, stage = "done" PROVE NothingLeftOut
    BY DEF NothingLeftOut
  <2>1. CASE truncated
    <3>1. facts.truncated /\ facts.confidence = "medium"
      BY <2>1 DEF IInv, ReportedFromTraversal, Confidence
    <3> QED
      BY <3>1 DEF NothingLeftOut
  <2>2. CASE ~truncated
    <3>1. {target} \union Reported = visited
      BY ReportedAreFound, TargetExplored DEF visited
    <3> QED
      BY <2>2, <3>1, ClosedUnlessTruncated DEF NothingLeftOut
  <2> QED
    BY <2>1, <2>2
<1> QED
  BY <1>1, Invariance, PTL
=============================================================================
