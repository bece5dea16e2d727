------------------------ MODULE RepositoryImpactProofs ------------------------
(***************************************************************************)
(* Proofs about impact on the snapshots that index builds from sources,    *)
(* for every repository that RepositoriesAssumption admits, whatever       *)
(* stands in what to any bounded depth.                                    *)
(*                                                                         *)
(* The argument goes from the sources to the report.  The visitor of a     *)
(* scope finds the calls and assignments written in it, and no others      *)
(* (SitesAreWritten, WrittenAreHeld); a definition extracted is written    *)
(* (FactsAreWritten); so a call that resolves to something is an edge      *)
(* that leaves the scope it is written in, and an edge is such a call      *)
(* (EdgeIsCall, CallIsEdge).  Where a name is defined once, the facts are  *)
(* those of that definition (KnownBodies, OneFunctionFact), which tells    *)
(* what a call of that name goes to (OnlyCall): for self, what the         *)
(* recursion over bases visits (OwnMethodFound), and for a variable, the   *)
(* type its assignments agree on (TypesAreAssigned).                       *)
(***************************************************************************)
EXTENDS ImpactGraphProofs

-----------------------------------------------------------------------------
(* Levels.                                                                 *)

\* The visitor, the extraction, what is written and the types of variables are levels, each from
\* the one before: such functions exist.
LEMMA VisitedLevels ==
    ASSUME NEW body
    PROVE  LET after == VisitedAfter(body) IN
           /\ after[0] = body
           /\ \A n \in 0 .. (MaxNesting - 1) : after[n + 1] = VisitDeeper(after[n])
<1> DEFINE N == MaxNesting
           start == body
           Is(f, k) == /\ f = [n \in 0 .. k |-> f[n]] /\ f[0] = start
                       /\ \A n \in 1 .. k : f[n] = VisitDeeper(f[n - 1])
           S == {k \in 0 .. N : \E f : Is(f, k)}
<1>0. N \in Nat
  BY NestingAssumption
<1>1. 0 \in S
  <2> DEFINE g == [n \in 0 .. 0 |-> start]
  <2>1. Is(g, 0)
    <3> HIDE DEF start
    <3>1. g = [n \in 0 .. 0 |-> g[n]] /\ g[0] = start /\ 1 .. 0 = {}
      OBVIOUS
    <3> QED  BY <3>1
  <2> HIDE DEF Is, g
  <2> QED  BY <1>0, <2>1
<1>2. ASSUME NEW k \in 0 .. (N - 1), k \in S PROVE k + 1 \in S
  <2>1. PICK f : Is(f, k)
    BY <1>2
  <2> HIDE DEF start, N
  <2> DEFINE next == VisitDeeper(f[k])
             g == WithLevel(f, k, next)
  <2>2. /\ g = [n \in 0 .. (k + 1) |-> g[n]] /\ \A n \in 0 .. k : g[n] = f[n]
        /\ g[k + 1] = next
    <3> HIDE DEF next
    <3> QED  BY <1>0, OneMore
  <2> HIDE DEF g
  <2>3. ASSUME NEW n \in 1 .. (k + 1) PROVE g[n] = VisitDeeper(g[n - 1])
    <3>1. n - 1 \in 0 .. k /\ ((n \in 1 .. k /\ n \in 0 .. k) \/ (n = k + 1 /\ n - 1 = k))
      BY <1>0
    <3>2. g[n - 1] = f[n - 1]
      BY <2>2, <3>1
    <3>3. CASE n \in 1 .. k /\ n \in 0 .. k
      BY <2>1, <2>2, <3>2, <3>3
    <3>4. CASE n = k + 1 /\ n - 1 = k
      BY <2>2, <3>2, <3>4
    <3> QED  BY <3>1, <3>3, <3>4
  <2>4. 0 \in 0 .. k /\ k + 1 \in 0 .. N
    BY <1>0
  <2>5. Is(g, k + 1)
    BY <2>1, <2>2, <2>3, <2>4
  <2> HIDE DEF Is
  <2> QED  BY <2>4, <2>5
<1>3. PICK f : Is(f, N)
  <2> HIDE DEF S, N
  <2>1. 0 .. N \subseteq S
    BY <1>0, <1>1, <1>2, UpTo
  <2>2. N \in 0 .. N
    BY <1>0
  <2> QED  BY <2>1, <2>2 DEF S
<1>4. f = [n \in 0 .. N |-> IF n = 0 THEN start ELSE VisitDeeper(f[n - 1])]
  <2> HIDE DEF start, N
  <2>1. \A n \in 0 .. N : n = 0 \/ n \in 1 .. N
    BY <1>0
  <2> QED  BY <1>3, <2>1
<1> DEFINE after == VisitedAfter(body)
<1>5. after = [n \in 0 .. N |-> IF n = 0 THEN start ELSE VisitDeeper(after[n - 1])]
  BY <1>4 DEF VisitedAfter
<1> HIDE DEF after, start
<1>6. \A n \in 0 .. (MaxNesting - 1) : n + 1 \in 0 .. N /\ n + 1 # 0 /\ (n + 1) - 1 = n
  BY <1>0, NestingAssumption
<1>7. after[0] = start /\ \A n \in 0 .. (MaxNesting - 1) : after[n + 1] = VisitDeeper(after[n])
  BY <1>0, <1>5, <1>6
<1> QED  BY <1>7 DEF after, start

LEMMA WrittenLevels ==
    ASSUME NEW file
    PROVE  LET after == WrittenAfter(file) IN
           /\ after[0] = In(ModuleRef(NameOf(file)), file.body)
           /\ \A n \in 0 .. (MaxNesting - 1) : after[n + 1] = WithParts(after[n])
<1> DEFINE N == MaxNesting
           start == In(ModuleRef(NameOf(file)), file.body)
           Is(f, k) == /\ f = [n \in 0 .. k |-> f[n]] /\ f[0] = start
                       /\ \A n \in 1 .. k : f[n] = WithParts(f[n - 1])
           S == {k \in 0 .. N : \E f : Is(f, k)}
<1>0. N \in Nat
  BY NestingAssumption
<1>1. 0 \in S
  <2> DEFINE g == [n \in 0 .. 0 |-> start]
  <2>1. Is(g, 0)
    <3> HIDE DEF start
    <3>1. g = [n \in 0 .. 0 |-> g[n]] /\ g[0] = start /\ 1 .. 0 = {}
      OBVIOUS
    <3> QED  BY <3>1
  <2> HIDE DEF Is, g
  <2> QED  BY <1>0, <2>1
<1>2. ASSUME NEW k \in 0 .. (N - 1), k \in S PROVE k + 1 \in S
  <2>1. PICK f : Is(f, k)
    BY <1>2
  <2> HIDE DEF start, N
  <2> DEFINE next == WithParts(f[k])
             g == WithLevel(f, k, next)
  <2>2. /\ g = [n \in 0 .. (k + 1) |-> g[n]] /\ \A n \in 0 .. k : g[n] = f[n]
        /\ g[k + 1] = next
    <3> HIDE DEF next
    <3> QED  BY <1>0, OneMore
  <2> HIDE DEF g
  <2>3. ASSUME NEW n \in 1 .. (k + 1) PROVE g[n] = WithParts(g[n - 1])
    <3>1. n - 1 \in 0 .. k /\ ((n \in 1 .. k /\ n \in 0 .. k) \/ (n = k + 1 /\ n - 1 = k))
      BY <1>0
    <3>2. g[n - 1] = f[n - 1]
      BY <2>2, <3>1
    <3>3. CASE n \in 1 .. k /\ n \in 0 .. k
      BY <2>1, <2>2, <3>2, <3>3
    <3>4. CASE n = k + 1 /\ n - 1 = k
      BY <2>2, <3>2, <3>4
    <3> QED  BY <3>1, <3>3, <3>4
  <2>4. 0 \in 0 .. k /\ k + 1 \in 0 .. N
    BY <1>0
  <2>5. Is(g, k + 1)
    BY <2>1, <2>2, <2>3, <2>4
  <2> HIDE DEF Is
  <2> QED  BY <2>4, <2>5
<1>3. PICK f : Is(f, N)
  <2> HIDE DEF S, N
  <2>1. 0 .. N \subseteq S
    BY <1>0, <1>1, <1>2, UpTo
  <2>2. N \in 0 .. N
    BY <1>0
  <2> QED  BY <2>1, <2>2 DEF S
<1>4. f = [n \in 0 .. N |-> IF n = 0 THEN start ELSE WithParts(f[n - 1])]
  <2> HIDE DEF start, N
  <2>1. \A n \in 0 .. N : n = 0 \/ n \in 1 .. N
    BY <1>0
  <2> QED  BY <1>3, <2>1
<1> DEFINE after == WrittenAfter(file)
<1>5. after = [n \in 0 .. N |-> IF n = 0 THEN start ELSE WithParts(after[n - 1])]
  BY <1>4 DEF WrittenAfter
<1> HIDE DEF after, start
<1>6. \A n \in 0 .. (MaxNesting - 1) : n + 1 \in 0 .. N /\ n + 1 # 0 /\ (n + 1) - 1 = n
  BY <1>0, NestingAssumption
<1>7. after[0] = start /\ \A n \in 0 .. (MaxNesting - 1) : after[n + 1] = WithParts(after[n])
  BY <1>0, <1>5, <1>6
<1> QED  BY <1>7 DEF after, start

LEMMA ExtractedLevels ==
    ASSUME NEW body, NEW module
    PROVE  LET after == ExtractedAfter(body, module) IN
           /\ after[0] = ToExtract(Definitions(body), module, NoName)
           /\ \A n \in 0 .. MaxNesting : after[n + 1] = ExtractDeeper(after[n])
<1> DEFINE N == MaxNesting + 1
           start == ToExtract(Definitions(body), module, NoName)
           Is(f, k) == /\ f = [n \in 0 .. k |-> f[n]] /\ f[0] = start
                       /\ \A n \in 1 .. k : f[n] = ExtractDeeper(f[n - 1])
           S == {k \in 0 .. N : \E f : Is(f, k)}
<1>0. N \in Nat
  BY NestingAssumption
<1>1. 0 \in S
  <2> DEFINE g == [n \in 0 .. 0 |-> start]
  <2>1. Is(g, 0)
    <3> HIDE DEF start
    <3>1. g = [n \in 0 .. 0 |-> g[n]] /\ g[0] = start /\ 1 .. 0 = {}
      OBVIOUS
    <3> QED  BY <3>1
  <2> HIDE DEF Is, g
  <2> QED  BY <1>0, <2>1
<1>2. ASSUME NEW k \in 0 .. (N - 1), k \in S PROVE k + 1 \in S
  <2>1. PICK f : Is(f, k)
    BY <1>2
  <2> HIDE DEF start, N
  <2> DEFINE next == ExtractDeeper(f[k])
             g == WithLevel(f, k, next)
  <2>2. /\ g = [n \in 0 .. (k + 1) |-> g[n]] /\ \A n \in 0 .. k : g[n] = f[n]
        /\ g[k + 1] = next
    <3> HIDE DEF next
    <3> QED  BY <1>0, OneMore
  <2> HIDE DEF g
  <2>3. ASSUME NEW n \in 1 .. (k + 1) PROVE g[n] = ExtractDeeper(g[n - 1])
    <3>1. n - 1 \in 0 .. k /\ ((n \in 1 .. k /\ n \in 0 .. k) \/ (n = k + 1 /\ n - 1 = k))
      BY <1>0
    <3>2. g[n - 1] = f[n - 1]
      BY <2>2, <3>1
    <3>3. CASE n \in 1 .. k /\ n \in 0 .. k
      BY <2>1, <2>2, <3>2, <3>3
    <3>4. CASE n = k + 1 /\ n - 1 = k
      BY <2>2, <3>2, <3>4
    <3> QED  BY <3>1, <3>3, <3>4
  <2>4. 0 \in 0 .. k /\ k + 1 \in 0 .. N
    BY <1>0
  <2>5. Is(g, k + 1)
    BY <2>1, <2>2, <2>3, <2>4
  <2> HIDE DEF Is
  <2> QED  BY <2>4, <2>5
<1>3. PICK f : Is(f, N)
  <2> HIDE DEF S, N
  <2>1. 0 .. N \subseteq S
    BY <1>0, <1>1, <1>2, UpTo
  <2>2. N \in 0 .. N
    BY <1>0
  <2> QED  BY <2>1, <2>2 DEF S
<1>4. f = [n \in 0 .. N |-> IF n = 0 THEN start ELSE ExtractDeeper(f[n - 1])]
  <2> HIDE DEF start, N
  <2>1. \A n \in 0 .. N : n = 0 \/ n \in 1 .. N
    BY <1>0
  <2> QED  BY <1>3, <2>1
<1> DEFINE after == ExtractedAfter(body, module)
<1>5. after = [n \in 0 .. N |-> IF n = 0 THEN start ELSE ExtractDeeper(after[n - 1])]
  BY <1>4 DEF ExtractedAfter
<1> HIDE DEF after, start
<1>6. \A n \in 0 .. MaxNesting : n + 1 \in 0 .. N /\ n + 1 # 0 /\ (n + 1) - 1 = n
  BY <1>0, NestingAssumption
<1>7. after[0] = start /\ \A n \in 0 .. MaxNesting : after[n + 1] = ExtractDeeper(after[n])
  BY <1>0, <1>5, <1>6
<1> QED  BY <1>7 DEF after, start

LEMMA TypesLevels ==
    ASSUME NEW function, NEW context, Len(function.assignments) \in Nat
    PROVE  LET after == TypesAfter(function, context) IN
           /\ after[0] = ParameterTypes(function, context.namespaces[function.module], context.index)
           /\ \A n \in 0 .. (Len(function.assignments) - 1) :
                 after[n + 1] = Assigned(after[n], function.assignments[n + 1], function, context)
<1> DEFINE N == Len(function.assignments)
           start == ParameterTypes(function, context.namespaces[function.module], context.index)
           Is(f, k) == /\ f = [n \in 0 .. k |-> f[n]] /\ f[0] = start
                       /\ \A n \in 1 .. k : f[n] = Assigned(f[n - 1], function.assignments[n], function, context)
           S == {k \in 0 .. N : \E f : Is(f, k)}
<1>0. N \in Nat
  BY DEF TypesAfter
<1>1. 0 \in S
  <2> DEFINE g == [n \in 0 .. 0 |-> start]
  <2>1. Is(g, 0)
    <3> HIDE DEF start
    <3>1. g = [n \in 0 .. 0 |-> g[n]] /\ g[0] = start /\ 1 .. 0 = {}
      OBVIOUS
    <3> QED  BY <3>1
  <2> HIDE DEF Is, g
  <2> QED  BY <1>0, <2>1
<1>2. ASSUME NEW k \in 0 .. (N - 1), k \in S PROVE k + 1 \in S
  <2>1. PICK f : Is(f, k)
    BY <1>2
  <2> HIDE DEF start, N
  <2> DEFINE next == Assigned(f[k], function.assignments[k + 1], function, context)
             g == WithLevel(f, k, next)
  <2>2. /\ g = [n \in 0 .. (k + 1) |-> g[n]] /\ \A n \in 0 .. k : g[n] = f[n]
        /\ g[k + 1] = next
    <3> HIDE DEF next
    <3> QED  BY <1>0, OneMore
  <2> HIDE DEF g
  <2>3. ASSUME NEW n \in 1 .. (k + 1) PROVE g[n] = Assigned(g[n - 1], function.assignments[n], function, context)
    <3>1. n - 1 \in 0 .. k /\ ((n \in 1 .. k /\ n \in 0 .. k) \/ (n = k + 1 /\ n - 1 = k))
      BY <1>0
    <3>2. g[n - 1] = f[n - 1]
      BY <2>2, <3>1
    <3>3. CASE n \in 1 .. k /\ n \in 0 .. k
      BY <2>1, <2>2, <3>2, <3>3
    <3>4. CASE n = k + 1 /\ n - 1 = k
      BY <2>2, <3>2, <3>4
    <3> QED  BY <3>1, <3>3, <3>4
  <2>4. 0 \in 0 .. k /\ k + 1 \in 0 .. N
    BY <1>0
  <2>5. Is(g, k + 1)
    BY <2>1, <2>2, <2>3, <2>4
  <2> HIDE DEF Is
  <2> QED  BY <2>4, <2>5
<1>3. PICK f : Is(f, N)
  <2> HIDE DEF S, N
  <2>1. 0 .. N \subseteq S
    BY <1>0, <1>1, <1>2, UpTo
  <2>2. N \in 0 .. N
    BY <1>0
  <2> QED  BY <2>1, <2>2 DEF S
<1>4. f = [n \in 0 .. N |-> IF n = 0 THEN start ELSE Assigned(f[n - 1], function.assignments[n], function, context)]
  <2> HIDE DEF start, N
  <2>1. \A n \in 0 .. N : n = 0 \/ n \in 1 .. N
    BY <1>0
  <2> QED  BY <1>3, <2>1
<1> DEFINE after == TypesAfter(function, context)
<1>5. after = [n \in 0 .. N |-> IF n = 0 THEN start
                                 ELSE Assigned(after[n - 1], function.assignments[n], function, context)]
  BY <1>4 DEF TypesAfter
<1> HIDE DEF after, start
<1>6. \A n \in 0 .. (Len(function.assignments) - 1) : n + 1 \in 0 .. N /\ n + 1 # 0 /\ (n + 1) - 1 = n
  BY <1>0, NestingAssumption
<1>7. /\ after[0] = start
      /\ \A n \in 0 .. (Len(function.assignments) - 1) :
            after[n + 1] = Assigned(after[n], function.assignments[n + 1], function, context)
  BY <1>0, <1>5, <1>6
<1> QED  BY <1>7 DEF after, start

-----------------------------------------------------------------------------
(* What the visitor of a scope finds is what is written in it.             *)

\* What is written in a file, is so at some level: every level holds those before.
LEMMA LevelsGrow ==
    ASSUME NEW file, NEW n \in 0 .. MaxNesting
    PROVE  WrittenAfter(file)[n] \subseteq Written(file)
<1> DEFINE W == WrittenAfter(file)
           N == MaxNesting - n
           S == {k \in 0 .. N : W[n] \subseteq W[n + k]}
<1>0. N \in Nat /\ n \in Nat /\ n + N = MaxNesting
  BY NestingAssumption
<1>1. 0 \in S
  BY <1>0
<1>2. ASSUME NEW k \in 0 .. (N - 1), k \in S PROVE k + 1 \in S
  <2>1. n + k \in 0 .. (MaxNesting - 1) /\ n + (k + 1) = (n + k) + 1 /\ k + 1 \in 0 .. N
    BY <1>0, NestingAssumption
  <2>2. W[n + (k + 1)] = WithParts(W[n + k])
    BY <2>1, WrittenLevels
  <2> HIDE DEF W, N
  <2>3. W[n] \subseteq W[n + k]
    BY <1>2
  <2>4. W[n] \subseteq W[n + (k + 1)]
    BY <2>2, <2>3 DEF WithParts
  <2> QED  BY <2>1, <2>4
<1>3. 0 .. N \subseteq S
  <2> HIDE DEF S, N
  <2> QED  BY <1>0, <1>1, <1>2, UpTo
<1>4. N \in S
  <2> HIDE DEF S, N
  <2> QED  BY <1>0, <1>3
<1>5. W[n] \subseteq W[MaxNesting]
  <2> HIDE DEF W, N
  <2> QED  BY <1>0, <1>4
<1> QED  BY <1>5 DEF Written

\* The statements of a scope: those of a module, a function, a class or a lambda.
IsBody(file, scope, body) ==
    \/ scope = ModuleRef(NameOf(file)) /\ body = file.body
    \/ \E w \in Written(file) :
          IsDefinition(w.statement) /\ scope = Defined(w) /\ body = w.statement.body
    \/ \E w \in Written(file) :
          w.statement.is = "lambda" /\ scope = Ref("LAMBDA", NoName) /\ body = w.statement.body

\* The file can be parsed, and a list of statements is written in it, in a scope.
AreWritten(file, scope, statements) ==
    IsList(statements) /\ In(scope, statements) \subseteq Written(file)

\* The statements of a body are written in its scope.
LEMMA BodiesAreWritten ==
    ASSUME NEW file, FileOK(file), file.parses, NEW scope, NEW body, IsBody(file, scope, body)
    PROVE  AreWritten(file, scope, body)
<1>1. CASE scope = ModuleRef(NameOf(file)) /\ body = file.body
  <2>1. In(scope, body) = WrittenAfter(file)[0]
    BY <1>1, WrittenLevels
  <2>2. 0 \in 0 .. MaxNesting
    BY NestingAssumption
  <2> QED  BY <1>1, <2>1, <2>2, LevelsGrow DEF AreWritten, FileOK
<1>2. ASSUME NEW w \in Written(file), IsDefinition(w.statement), scope = Defined(w), body = w.statement.body
      PROVE  AreWritten(file, scope, body)
  <2>1. PartsOf(w) \subseteq Written(file) /\ StatementOK(w.statement)
    BY DEF FileOK
  <2>2. In(scope, body) \subseteq PartsOf(w)
    BY <1>2 DEF PartsOf, IsDefinition
  <2> QED  BY <1>2, <2>1, <2>2 DEF AreWritten, StatementOK
<1>3. ASSUME NEW w \in Written(file), w.statement.is = "lambda", scope = Ref("LAMBDA", NoName),
             body = w.statement.body
      PROVE  AreWritten(file, scope, body)
  <2>1. PartsOf(w) \subseteq Written(file) /\ StatementOK(w.statement)
    BY DEF FileOK
  <2>2. In(scope, body) \subseteq PartsOf(w)
    BY <1>3 DEF PartsOf, IsDefinition
  <2> QED  BY <1>3, <2>1, <2>2 DEF AreWritten, StatementOK
<1> QED  BY <1>1, <1>2, <1>3 DEF IsBody

\* What the visitor goes on with is written in the same scope.
LEMMA NextIsWritten ==
    ASSUME NEW file, FileOK(file), NEW w \in Written(file), file.parses,
           NEW scope, NEW s, w = [scope |-> scope, statement |-> s]
    PROVE  AreWritten(file, scope, VisitedNext(s))
<1>1. PartsOf(w) \subseteq Written(file) /\ StatementOK(s) /\ w.scope = scope /\ w.statement = s
  BY DEF FileOK
<1>2. CASE IsDefinition(s)
  <2>1. VisitedNext(s) = s.decorators /\ In(scope, s.decorators) \subseteq PartsOf(w)
    BY <1>1, <1>2 DEF VisitedNext, PartsOf, IsDefinition
  <2> QED  BY <1>1, <1>2, <2>1 DEF AreWritten, StatementOK
<1>3. CASE s.is \in {"block", "match"}
  <2>1. VisitedNext(s) = s.body /\ In(scope, s.body) \subseteq PartsOf(w)
    BY <1>1, <1>3 DEF VisitedNext, PartsOf, IsDefinition
  <2> QED  BY <1>1, <1>3, <2>1 DEF AreWritten, StatementOK
<1>4. CASE ~IsDefinition(s) /\ s.is \notin {"block", "match"}
  <2>1. VisitedNext(s) = <<s>>
    BY <1>4 DEF VisitedNext
  <2>2. In(scope, <<s>>) = {w}
    BY ListOfOne DEF In
  <2> QED  BY <2>1, <2>2, ListOfOne DEF AreWritten
<1> QED  BY <1>2, <1>3, <1>4

\* So is what a round of the visitor gives.
LEMMA DeeperIsWritten ==
    ASSUME NEW file, FileOK(file), file.parses, NEW scope, NEW body, AreWritten(file, scope, body)
    PROVE  /\ AreWritten(file, scope, VisitDeeper(body))
           /\ ToSet(VisitDeeper(body)) = UNION {ToSet(VisitedNext(s)) : s \in ToSet(body)}
<1> DEFINE lists == [i \in DOMAIN body |-> VisitedNext(body[i])]
<1>1. IsList(body) /\ \A i \in DOMAIN body : body[i] \in ToSet(body)
  BY DEF AreWritten, ToSet
<1>2. ASSUME NEW s \in ToSet(body) PROVE AreWritten(file, scope, VisitedNext(s))
  <2>1. [scope |-> scope, statement |-> s] \in Written(file)
    BY DEF AreWritten, In
  <2> QED  BY <2>1, NextIsWritten
<1>3. lists = [i \in DOMAIN body |-> lists[i]]
  OBVIOUS
<1>4. VisitDeeper(body) = FlattenSeq(lists)
  BY DEF VisitDeeper
<1>5. \A i \in DOMAIN body : lists[i] = VisitedNext(body[i])
  OBVIOUS
<1> HIDE DEF lists
<1>6. \A i \in DOMAIN body : IsList(lists[i])
  BY <1>1, <1>2, <1>5 DEF AreWritten
<1>7. IsList(FlattenSeq(lists)) /\ ToSet(FlattenSeq(lists)) = UNION {ToSet(lists[i]) : i \in DOMAIN body}
  BY <1>1, <1>3, <1>6, ListsOfModules
<1>8. ToSet(VisitDeeper(body)) = UNION {ToSet(VisitedNext(s)) : s \in ToSet(body)}
  <2>1. {ToSet(lists[i]) : i \in DOMAIN body} = {ToSet(VisitedNext(s)) : s \in ToSet(body)}
    BY <1>5 DEF ToSet
  <2> QED  BY <1>4, <1>7, <2>1
<1>9. In(scope, VisitDeeper(body)) \subseteq Written(file)
  <2> SUFFICES ASSUME NEW x \in ToSet(VisitDeeper(body))
               PROVE  [scope |-> scope, statement |-> x] \in Written(file)
    BY DEF In
  <2>1. PICK s \in ToSet(body) : x \in ToSet(VisitedNext(s))
    BY <1>8
  <2> QED  BY <1>2, <2>1 DEF AreWritten, In
<1> QED  BY <1>4, <1>7, <1>8, <1>9 DEF AreWritten

\* Whatever the visitor visits is written in the scope.
LEMMA VisitedAreWritten ==
    ASSUME NEW file, FileOK(file), file.parses, NEW scope, NEW body, AreWritten(file, scope, body),
           NEW n \in 0 .. MaxNesting
    PROVE  AreWritten(file, scope, VisitedAfter(body)[n])
<1> DEFINE S == {k \in 0 .. MaxNesting : AreWritten(file, scope, VisitedAfter(body)[k])}
<1>1. 0 \in S
  BY VisitedLevels, NestingAssumption
<1>2. ASSUME NEW k \in 0 .. (MaxNesting - 1), k \in S PROVE k + 1 \in S
  <2>1. VisitedAfter(body)[k + 1] = VisitDeeper(VisitedAfter(body)[k]) /\ k + 1 \in 0 .. MaxNesting
    BY VisitedLevels, NestingAssumption
  <2> QED  BY <1>2, <2>1, DeeperIsWritten
<1>3. n \in S
  <2> HIDE DEF S
  <2> QED  BY <1>1, <1>2, UpTo, NestingAssumption
<1> QED  BY <1>3

\* The statements of some form in a scope are those written so.
LEMMA StatementsWritten ==
    ASSUME NEW file, NEW scope, NEW form, NEW s
    PROVE  [scope |-> scope, statement |-> s] \in Written(file) /\ s.is = form
              => s \in WrittenIn(file, scope, form)
<1> DEFINE w == [scope |-> scope, statement |-> s]
<1>1. w.scope = scope /\ w.statement = s
  OBVIOUS
<1> HIDE DEF w
<1>2. w \in Written(file) /\ s.is = form => s \in WrittenIn(file, scope, form)
  BY <1>1 DEF WrittenIn
<1> QED  BY <1>2 DEF w

\* The calls that the analyzer records for a scope are written in it.
LEMMA SitesAreWritten ==
    ASSUME NEW file, FileOK(file), file.parses, NEW scope, NEW body, AreWritten(file, scope, body)
    PROVE  Sites(body) \subseteq WrittenIn(file, scope, "call")
<1> DEFINE visit == Visited(body)
<1>1. In(scope, visit) \subseteq Written(file)
  <2>1. MaxNesting \in 0 .. MaxNesting
    BY NestingAssumption
  <2> QED  BY <2>1, VisitedAreWritten DEF Visited, AreWritten
<1> SUFFICES ASSUME NEW s \in Sites(body)
             PROVE  [scope |-> scope, statement |-> s] \in Written(file) /\ s.is = "call"
  BY StatementsWritten
<1>2. s.is = "call"
  BY DEF Sites
<1>3. CASE s \in ToSet(visit)
  BY <1>1, <1>2, <1>3 DEF In
<1>4. CASE \E a \in ToSet(visit) : a.is = "assign" /\ s = a.value
  <2>1. PICK a \in ToSet(visit) : a.is = "assign" /\ s = a.value
    BY <1>4
  <2> DEFINE w == [scope |-> scope, statement |-> a]
  <2>2. w \in Written(file)
    BY <1>1, <2>1 DEF In
  <2>3. PartsOf(w) = In(scope, <<s>>)
    BY <2>1 DEF PartsOf, IsDefinition
  <2>4. [scope |-> scope, statement |-> s] \in PartsOf(w)
    <3> HIDE DEF w
    <3> QED  BY <2>3, ListOfOne DEF In
  <2> HIDE DEF w
  <2> QED  BY <1>2, <2>2, <2>4 DEF FileOK
<1>5. s \in ToSet(visit) \/ \E a \in ToSet(visit) : a.is = "assign" /\ s = a.value
  BY DEF Sites, WithValues
<1> QED  BY <1>3, <1>4, <1>5

\* Values that are assigned hold no statements.
LEMMA ValuesHoldNothing ==
    ASSUME NEW file, FileOK(file), file.parses, NEW scope, NEW body, AreWritten(file, scope, body),
           NEW s \in WithValues(ToSet(body)), s.is \notin {"call", "name", "attribute", "other"}
    PROVE  s \in ToSet(body)
<1>1. ASSUME NEW a \in ToSet(body), a.is = "assign", s = a.value PROVE FALSE
  <2> DEFINE w == [scope |-> scope, statement |-> a]
  <2>1. w \in Written(file) /\ w.statement = a
    BY DEF AreWritten, In
  <2> HIDE DEF w
  <2>2. StatementOK(a)
    BY <2>1 DEF FileOK
  <2> QED  BY <1>1, <2>2 DEF StatementOK
<1> QED  BY <1>1 DEF WithValues

\* The visitor goes on with what stands in a statement visited, in the same scope.
LEMMA VisitGoesOn ==
    ASSUME NEW file, FileOK(file), file.parses, NEW scope, NEW body, AreWritten(file, scope, body),
           NEW k \in 0 .. (MaxNesting - 1), NEW s \in ToSet(VisitedAfter(body)[k])
    PROVE  ToSet(VisitedNext(s)) \subseteq ToSet(VisitedAfter(body)[k + 1])
<1>1. k \in 0 .. MaxNesting
  BY NestingAssumption
<1>2. AreWritten(file, scope, VisitedAfter(body)[k])
  BY <1>1, VisitedAreWritten
<1>3. VisitedAfter(body)[k + 1] = VisitDeeper(VisitedAfter(body)[k])
  BY VisitedLevels
<1> QED  BY <1>2, <1>3, DeeperIsWritten

\* A statement without statements in it stays visited.
LEMMA VisitKeeps ==
    ASSUME NEW file, FileOK(file), file.parses, NEW scope, NEW body, AreWritten(file, scope, body),
           NEW k \in 0 .. MaxNesting, NEW s \in ToSet(VisitedAfter(body)[k]),
           ~IsDefinition(s), s.is \notin {"block", "match"}
    PROVE  s \in ToSet(Visited(body))
<1> DEFINE N == MaxNesting - k
           S == {i \in 0 .. N : s \in ToSet(VisitedAfter(body)[k + i])}
<1>0. N \in Nat /\ k \in Nat /\ k + N = MaxNesting /\ k + 0 = k
  BY NestingAssumption
<1>1. 0 \in S
  BY <1>0
<1>2. ASSUME NEW i \in 0 .. (N - 1), i \in S PROVE i + 1 \in S
  <2>1. k + i \in 0 .. (MaxNesting - 1) /\ k + (i + 1) = (k + i) + 1 /\ i + 1 \in 0 .. N
    BY <1>0, NestingAssumption
  <2>2. s \in ToSet(VisitedNext(s))
    BY ListOfOne DEF VisitedNext
  <2>3. s \in ToSet(VisitedAfter(body)[k + i])
    BY <1>2
  <2> HIDE DEF N
  <2>4. s \in ToSet(VisitedAfter(body)[(k + i) + 1])
    BY <2>1, <2>2, <2>3, VisitGoesOn
  <2> QED  BY <2>1, <2>4
<1>3. 0 .. N \subseteq S
  <2> HIDE DEF S, N
  <2> QED  BY <1>0, <1>1, <1>2, UpTo
<1>4. N \in S
  <2> HIDE DEF S, N
  <2> QED  BY <1>0, <1>3
<1>5. s \in ToSet(VisitedAfter(body)[MaxNesting])
  <2> HIDE DEF N
  <2> QED  BY <1>0, <1>4
<1> QED  BY <1>5 DEF Visited

\* A statement is visited in the scope that it is written in, or is a value assigned there.
IsHeld(file, w, n) ==
    \E body : /\ IsBody(file, w.scope, body)
              /\ \E k \in 0 .. n : w.statement \in WithValues(ToSet(VisitedAfter(body)[k]))

\* What stands in a statement visited is visited in the next round, or is a body of its own.
LEMMA PartsAreHeld ==
    ASSUME NEW file, FileOK(file), file.parses, NEW n \in 0 .. (MaxNesting - 1),
           NEW v \in Written(file), IsHeld(file, v, n), NEW w \in PartsOf(v)
    PROVE  IsHeld(file, w, n + 1)
<1>0. n \in Nat /\ n + 1 \in Nat /\ 0 \in 0 .. n + 1 /\ 0 \in 0 .. MaxNesting
  BY NestingAssumption
<1>1. PICK body : /\ IsBody(file, v.scope, body)
                  /\ \E k \in 0 .. n : v.statement \in WithValues(ToSet(VisitedAfter(body)[k]))
  BY DEF IsHeld
<1>2. PICK k \in 0 .. n : v.statement \in WithValues(ToSet(VisitedAfter(body)[k]))
  BY <1>1
<1>3. k \in 0 .. (MaxNesting - 1) /\ k \in 0 .. MaxNesting /\ k \in 0 .. n + 1 /\ k + 1 \in 0 .. n + 1
  BY NestingAssumption
<1>4. AreWritten(file, v.scope, body) /\ AreWritten(file, v.scope, VisitedAfter(body)[k])
  BY <1>1, <1>3, BodiesAreWritten, VisitedAreWritten
<1>5. ASSUME w \in In(v.scope, VisitedNext(v.statement)),
             v.statement.is \notin {"call", "name", "attribute", "other"}
      PROVE  IsHeld(file, w, n + 1)
  <2>1. v.statement \in ToSet(VisitedAfter(body)[k])
    BY <1>2, <1>4, <1>5, ValuesHoldNothing
  <2>2. w.scope = v.scope /\ w.statement \in ToSet(VisitedNext(v.statement))
    BY <1>5 DEF In
  <2>3. w.statement \in ToSet(VisitedAfter(body)[k + 1])
    BY <1>3, <1>4, <2>1, <2>2, VisitGoesOn
  <2> QED  BY <1>1, <1>3, <2>2, <2>3 DEF IsHeld, WithValues
<1>6. ASSUME NEW scope, NEW inner, IsBody(file, scope, inner), w \in In(scope, inner)
      PROVE  IsHeld(file, w, n + 1)
  <2>1. w.scope = scope /\ w.statement \in ToSet(VisitedAfter(inner)[0])
    BY <1>6, VisitedLevels DEF In
  <2> QED  BY <1>0, <1>6, <2>1 DEF IsHeld, WithValues
<1>7. CASE IsDefinition(v.statement)
  <2>1. w \in In(v.scope, VisitedNext(v.statement)) \/ w \in In(Defined(v), v.statement.body)
    BY <1>7 DEF PartsOf, VisitedNext, IsDefinition
  <2>2. IsBody(file, Defined(v), v.statement.body)
    BY <1>7 DEF IsBody
  <2>3. v.statement.is \notin {"call", "name", "attribute", "other"}
    BY <1>7 DEF IsDefinition
  <2> QED  BY <1>5, <1>6, <2>1, <2>2, <2>3
<1>8. CASE v.statement.is = "lambda"
  <2>1. w \in In(Ref("LAMBDA", NoName), v.statement.body)
    BY <1>8 DEF PartsOf, IsDefinition
  <2>2. IsBody(file, Ref("LAMBDA", NoName), v.statement.body)
    BY <1>8 DEF IsBody
  <2> QED  BY <1>6, <2>1, <2>2
<1>9. CASE v.statement.is = "assign"
  <2>1. w \in In(v.scope, <<v.statement.value>>)
    BY <1>9 DEF PartsOf, IsDefinition
  <2>2. w.scope = v.scope /\ w.statement = v.statement.value
    BY <2>1, ListOfOne DEF In
  <2>3. v.statement \in ToSet(VisitedAfter(body)[k])
    BY <1>2, <1>4, <1>9, ValuesHoldNothing
  <2>4. w.statement \in WithValues(ToSet(VisitedAfter(body)[k]))
    BY <1>9, <2>2, <2>3 DEF WithValues
  <2> QED  BY <1>1, <1>3, <2>2, <2>4 DEF IsHeld
<1>10. CASE v.statement.is \in {"block", "match"}
  <2>1. w \in In(v.scope, VisitedNext(v.statement))
    BY <1>10 DEF PartsOf, VisitedNext, IsDefinition
  <2> QED  BY <1>5, <1>10, <2>1
<1>11. CASE ~IsDefinition(v.statement) /\ v.statement.is \notin {"lambda", "assign", "block", "match"}
  BY <1>11 DEF PartsOf
<1> QED  BY <1>7, <1>8, <1>9, <1>10, <1>11

\* So every statement of a level is visited after as many rounds, ...
LEMMA LevelsAreHeld ==
    ASSUME NEW file, FileOK(file), file.parses, NEW n \in 0 .. MaxNesting, NEW w \in WrittenAfter(file)[n]
    PROVE  IsHeld(file, w, n)
<1> DEFINE S == {k \in 0 .. MaxNesting : \A v \in WrittenAfter(file)[k] : IsHeld(file, v, k)}
<1>1. 0 \in S
  <2>1. WrittenAfter(file)[0] = In(ModuleRef(NameOf(file)), file.body) /\ VisitedAfter(file.body)[0] = file.body
    BY WrittenLevels, VisitedLevels
  <2>2. 0 \in 0 .. 0 /\ 0 \in 0 .. MaxNesting
    BY NestingAssumption
  <2>3. ASSUME NEW v \in WrittenAfter(file)[0] PROVE IsHeld(file, v, 0)
    <3>1. v.scope = ModuleRef(NameOf(file)) /\ v.statement \in ToSet(file.body)
      BY <2>1 DEF In
    <3>2. IsBody(file, v.scope, file.body)
      BY <3>1 DEF IsBody
    <3> QED  BY <2>1, <2>2, <3>1, <3>2 DEF IsHeld, WithValues
  <2> QED  BY <2>2, <2>3
<1>2. ASSUME NEW k \in 0 .. (MaxNesting - 1), k \in S PROVE k + 1 \in S
  <2>1. k \in 0 .. MaxNesting /\ k + 1 \in 0 .. MaxNesting /\ 0 .. k \subseteq 0 .. (k + 1)
    BY NestingAssumption
  <2>2. WrittenAfter(file)[k + 1] = WithParts(WrittenAfter(file)[k])
    BY WrittenLevels
  <2>3. ASSUME NEW v \in WrittenAfter(file)[k + 1] PROVE IsHeld(file, v, k + 1)
    <3>1. CASE v \in WrittenAfter(file)[k]
      <4>1. IsHeld(file, v, k)
        BY <1>2, <3>1
      <4> QED  BY <2>1, <4>1 DEF IsHeld
    <3>2. CASE \E u \in WrittenAfter(file)[k] : v \in PartsOf(u)
      <4>1. PICK u \in WrittenAfter(file)[k] : v \in PartsOf(u)
        BY <3>2
      <4>2. u \in Written(file) /\ IsHeld(file, u, k)
        BY <1>2, <2>1, LevelsGrow
      <4> QED  BY <4>1, <4>2, PartsAreHeld
    <3> QED  BY <2>2, <3>1, <3>2 DEF WithParts
  <2> QED  BY <2>1, <2>3
<1>3. n \in S
  <2> HIDE DEF S
  <2> QED  BY <1>1, <1>2, UpTo, NestingAssumption
<1> QED  BY <1>3

\* ... and whatever a file writes, the visitor of its scope finds.
LEMMA WrittenAreHeld ==
    ASSUME NEW file, FileOK(file), file.parses, NEW w \in Written(file)
    PROVE  \E body : /\ IsBody(file, w.scope, body) /\ AreWritten(file, w.scope, body)
                     /\ w.statement.is = "call" => w.statement \in Sites(body)
                     /\ w.statement.is = "assign" => w.statement \in ToSet(Visited(body))
<1>1. MaxNesting \in 0 .. MaxNesting
  BY NestingAssumption
<1>2. PICK body : /\ IsBody(file, w.scope, body)
                  /\ \E k \in 0 .. MaxNesting : w.statement \in WithValues(ToSet(VisitedAfter(body)[k]))
  BY <1>1, LevelsAreHeld DEF Written, IsHeld
<1>3. PICK k \in 0 .. MaxNesting : w.statement \in WithValues(ToSet(VisitedAfter(body)[k]))
  BY <1>2
<1>4. AreWritten(file, w.scope, body) /\ AreWritten(file, w.scope, VisitedAfter(body)[k])
  BY <1>2, BodiesAreWritten, VisitedAreWritten
<1>5. ASSUME w.statement.is = "call" PROVE w.statement \in Sites(body)
  <2>1. CASE w.statement \in ToSet(VisitedAfter(body)[k])
    <3>1. w.statement \in ToSet(Visited(body))
      BY <1>4, <1>5, <2>1, VisitKeeps DEF IsDefinition
    <3> QED  BY <1>5, <3>1 DEF Sites, WithValues
  <2>2. ASSUME NEW a \in ToSet(VisitedAfter(body)[k]), a.is = "assign", w.statement = a.value
        PROVE  w.statement \in Sites(body)
    <3>1. a \in ToSet(Visited(body))
      BY <1>4, <2>2, VisitKeeps DEF IsDefinition
    <3> QED  BY <1>5, <2>2, <3>1 DEF Sites, WithValues
  <2> QED  BY <1>3, <2>1, <2>2 DEF WithValues
<1>6. ASSUME w.statement.is = "assign" PROVE w.statement \in ToSet(Visited(body))
  <2>1. w.statement \in ToSet(VisitedAfter(body)[k])
    BY <1>3, <1>4, <1>6, ValuesHoldNothing
  <2> QED  BY <1>4, <1>6, <2>1, VisitKeeps DEF IsDefinition
<1> QED  BY <1>2, <1>4, <1>5, <1>6

-----------------------------------------------------------------------------
(* What is extracted from a file is what it defines.                       *)

\* The name that a path gives is a list of its parts.
LEMMA NamesAreLists ==
    ASSUME NEW file, FileOK(file)
    PROVE  IsList(NameOf(file))
<1> DEFINE path == file.path
           T == ToSet(path)
           directory == DirectoryOf(path)
           within == Only(SourceRoots, {root \in ToSet(SourceRoots) : IsPrefix(root, directory)})
           skip == IF within = <<>> THEN 0 ELSE Len(Head(within))
           package == SubSeq(directory, skip + 1, Len(path) - 2)
<1>1. path \in Seq(T) /\ Len(path) >= 2 /\ Len(path) \in Nat
  BY DEF FileOK, IsList
<1>2. Front(path) = SubSeq(path, 1, Len(path) - 1) /\ directory = SubSeq(Front(path), 1, Len(Front(path)) - 1)
  BY DEF Front, DirectoryOf
<1>3. Front(path) \in Seq(T) /\ Len(Front(path)) = Len(path) - 1
  <2> HIDE DEF path, T
  <2> QED  BY <1>1, <1>2
<1>4. directory \in Seq(T) /\ Len(directory) = Len(path) - 2
  <2> HIDE DEF path, T, directory
  <2> QED  BY <1>1, <1>2, <1>3
<1>5. skip \in Nat
  <2>1. IsList(within) /\ ToSet(within) \subseteq ToSet(SourceRoots)
    BY RootsAssumption, OnlyIsList
  <2> HIDE DEF within
  <2>2. within # <<>> => Head(within) \in ToSet(SourceRoots)
    BY <2>1, HeadAndTail DEF IsList
  <2>3. within # <<>> => Len(Head(within)) \in Nat
    BY <2>2, RootsAssumption, LenProperties DEF IsList
  <2> QED  BY <2>3
<1>6. package \in Seq(T)
  <2> HIDE DEF path, T, directory, skip
  <2> QED  BY <1>1, <1>4, <1>5
<1>7. IsList(package)
  <2> HIDE DEF package, T
  <2> QED  BY <1>6, SequencesAreLists
<1>8. IsList(Append(package, StemOf(path)))
  <2> DEFINE stem == StemOf(path)
  <2> HIDE DEF package, path, stem
  <2>1. IsList(<<stem>>) /\ Append(package, stem) = package \o <<stem>>
    BY <1>7, ListOfOne DEF IsList
  <2> QED  BY <1>7, <2>1, ListsTogether DEF stem
<1>9. IsList(NoName)
  BY DEF NoName, IsList
<1>10. NameOf(file) \in {NoName, package, Append(package, StemOf(path))}
  BY DEF NameOf, infer_module_name
<1> QED
  <2> HIDE DEF package, path
  <2> QED  BY <1>7, <1>8, <1>9, <1>10

\* A statement to extract is written in a module or a function, or is a definition in a class.
ItemOK(file, x) ==
    /\ x = [statement |-> x.statement, prefix |-> x.prefix, owner |-> x.owner, extracted |-> x.extracted]
    /\ x.extracted \in BOOLEAN /\ IsList(x.prefix)
    /\ \/ /\ x.owner = NoName
          /\ \E kind \in {"MODULE", "FUNCTION"} :
                [scope |-> Ref(kind, x.prefix), statement |-> x.statement] \in Written(file)
       \/ /\ x.owner # NoName /\ x.owner = x.prefix /\ IsDefinition(x.statement)
          /\ [scope |-> ClassRef(x.prefix), statement |-> x.statement] \in Written(file)
    /\ x.extracted => IsDefinition(x.statement)

\* What stands in a list is extracted one by one.
LEMMA ItemsToExtract ==
    ASSUME NEW body, IsList(body), NEW prefix, NEW owner
    PROVE  LET items == ToExtract(body, prefix, owner)
               item(s) == [statement |-> s, prefix |-> prefix, owner |-> owner, extracted |-> FALSE]
           IN  IsList(items) /\ ToSet(items) = {item(s) : s \in ToSet(body)}
<1> DEFINE items == ToExtract(body, prefix, owner)
           item(s) == [statement |-> s, prefix |-> prefix, owner |-> owner, extracted |-> FALSE]
           n == Len(body)
<1>1. n \in Nat /\ DOMAIN body = 1 .. n
  BY DEF IsList
<1>2. items = [i \in 1 .. n |-> item(body[i])]
  BY <1>1 DEF ToExtract
<1>3. items = [i \in 1 .. n |-> items[i]] /\ \A i \in 1 .. n : items[i] = item(body[i])
  BY <1>2
<1> HIDE DEF items, n
<1>4. IsList(items) /\ ToSet(items) = {items[i] : i \in 1 .. n}
  BY <1>1, <1>3, ListByIndex
<1>5. ToSet(items) = {item(s) : s \in ToSet(body)}
  <2> HIDE DEF item
  <2> QED  BY <1>1, <1>3, <1>4 DEF ToSet
<1> QED  BY <1>4, <1>5 DEF items

\* Those in the body of a module or a function, ...
LEMMA ItemsOfFunctions ==
    ASSUME NEW file, NEW body, NEW kind \in {"MODULE", "FUNCTION"}, NEW prefix, IsList(prefix),
           AreWritten(file, Ref(kind, prefix), body)
    PROVE  LET items == ToExtract(body, prefix, NoName)
           IN  /\ IsList(items)
               /\ \A y \in ToSet(items) : ItemOK(file, y) /\ y.owner = NoName /\ ~y.extracted
<1> DEFINE items == ToExtract(body, prefix, NoName)
           item(s) == [statement |-> s, prefix |-> prefix, owner |-> NoName, extracted |-> FALSE]
<1>1. IsList(items) /\ ToSet(items) = {item(s) : s \in ToSet(body)}
  BY ItemsToExtract DEF AreWritten
<1> HIDE DEF items
<1>2. ASSUME NEW s \in ToSet(body) PROVE ItemOK(file, item(s)) /\ item(s).owner = NoName /\ ~item(s).extracted
  <2>1. [scope |-> Ref(kind, prefix), statement |-> s] \in Written(file)
    BY DEF AreWritten, In
  <2> QED  BY <2>1 DEF ItemOK
<1>3. \A y \in ToSet(items) : ItemOK(file, y) /\ y.owner = NoName /\ ~y.extracted
  <2> HIDE DEF item
  <2> QED  BY <1>1, <1>2
<1> QED  BY <1>1, <1>3 DEF items

\* ... and those in the body of a class.
LEMMA ItemsOfClasses ==
    ASSUME NEW file, NEW body, NEW name, IsList(name), name # NoName,
           AreWritten(file, ClassRef(name), body)
    PROVE  LET items == ToExtract(Definitions(body), name, name)
           IN  /\ IsList(items)
               /\ \A y \in ToSet(items) : ItemOK(file, y) /\ y.owner = name /\ ~y.extracted
<1> DEFINE defs == Definitions(body)
           items == ToExtract(defs, name, name)
           item(s) == [statement |-> s, prefix |-> name, owner |-> name, extracted |-> FALSE]
<1>0. IsList(defs) /\ ToSet(defs) = {s \in ToSet(body) : IsDefinition(s)}
  <2>1. IsList(body)
    BY DEF AreWritten
  <2> QED  BY <2>1, OnlyIsList DEF Definitions
<1> HIDE DEF defs
<1>1. IsList(items) /\ ToSet(items) = {item(s) : s \in ToSet(defs)}
  BY <1>0, ItemsToExtract
<1> HIDE DEF items
<1>2. ASSUME NEW s \in ToSet(defs) PROVE ItemOK(file, item(s)) /\ item(s).owner = name /\ ~item(s).extracted
  <2>1. [scope |-> ClassRef(name), statement |-> s] \in Written(file) /\ IsDefinition(s)
    BY <1>0 DEF AreWritten, In
  <2> QED  BY <2>1 DEF ItemOK
<1>3. \A y \in ToSet(items) : ItemOK(file, y) /\ y.owner = name /\ ~y.extracted
  <2> HIDE DEF item
  <2> QED  BY <1>1, <1>2
<1> QED  BY <1>1, <1>3 DEF items, defs

\* The class that a method is of is extracted, too.
OwnerIn(x, items) ==
    x.owner # NoName =>
        \E y \in items : /\ y.extracted /\ y.statement.is = "class"
                         /\ Append(y.prefix, y.statement.name) = x.owner

\* What a round of the extraction gives is written, and a method comes with its class.
LEMMA NextIsOK ==
    ASSUME NEW file, FileOK(file), file.parses, NEW x, ItemOK(file, x)
    PROVE  LET next == ExtractedNext(x)
           IN  /\ IsList(next)
               /\ \A y \in ToSet(next) :
                     ItemOK(file, y) /\ (y.owner = x.owner \/ OwnerIn(y, ToSet(next)))
               /\ x.extracted => next = <<x>>
               /\ ~x.extracted /\ IsDefinition(x.statement) =>
                     [statement |-> x.statement, prefix |-> x.prefix, owner |-> x.owner, extracted |-> TRUE]
                         \in ToSet(next)
<1> DEFINE s == x.statement
           name == Append(x.prefix, s.name)
           next == ExtractedNext(x)
           done == [statement |-> s, prefix |-> x.prefix, owner |-> x.owner, extracted |-> TRUE]
           Goal == /\ IsList(next)
                   /\ \A y \in ToSet(next) :
                         ItemOK(file, y) /\ (y.owner = x.owner \/ OwnerIn(y, ToSet(next)))
                   /\ x.extracted => next = <<x>>
                   /\ ~x.extracted /\ IsDefinition(x.statement) => done \in ToSet(next)
<1> SUFFICES Goal
  OBVIOUS
<1>0. IsList(name) /\ name # NoName
  BY LongerList DEF ItemOK, NoName
<1>1. CASE x.extracted
  <2>1. next = <<x>> /\ IsList(next) /\ ToSet(next) = {x}
    BY <1>1, ListOfOne DEF ExtractedNext
  <2> QED  BY <1>1, <2>1
<1>d. ASSUME ~x.extracted, IsDefinition(s)
      PROVE  /\ [x EXCEPT !.extracted = TRUE] = done /\ ItemOK(file, done)
             /\ done.owner = x.owner /\ done.extracted /\ done.statement = s /\ done.prefix = x.prefix
             /\ \E w \in Written(file) : w.statement = s /\ Defined(w) =
                    IF s.is = "class" THEN ClassRef(name) ELSE Ref("FUNCTION", name)
  <2>1. [x EXCEPT !.extracted = TRUE] = done
    <3> DEFINE a == x.statement
               b == x.prefix
               c == x.owner
               e == x.extracted
    <3>1. x = [statement |-> a, prefix |-> b, owner |-> c, extracted |-> e]
      BY DEF ItemOK
    <3> HIDE DEF a, b, c, e
    <3>2. PICK yes : yes = TRUE
      OBVIOUS
    <3>3. [x EXCEPT !.extracted = yes] = [statement |-> a, prefix |-> b, owner |-> c, extracted |-> yes]
      BY <3>1
    <3>4. [x EXCEPT !.extracted = TRUE] = [statement |-> a, prefix |-> b, owner |-> c, extracted |-> TRUE]
      BY <3>2, <3>3, Zenon
    <3> QED  BY <3>4 DEF a, b, c
  <2>2. ItemOK(file, done)
    BY <1>d DEF ItemOK
  <2>3. PICK kind \in {"MODULE", "FUNCTION", "CLASS"} :
           [scope |-> Ref(kind, x.prefix), statement |-> s] \in Written(file)
    BY DEF ItemOK, ClassRef
  <2> DEFINE w == [scope |-> Ref(kind, x.prefix), statement |-> s]
  <2>4. w.statement = s /\ w.scope.id = x.prefix
    BY DEF Ref
  <2>5. Defined(w) = IF s.is = "class" THEN ClassRef(name) ELSE Ref("FUNCTION", name)
    <3> HIDE DEF w
    <3> QED  BY <2>4 DEF Defined
  <2> HIDE DEF w
  <2>6. w \in Written(file)
    BY <2>3 DEF w
  <2> QED  BY <2>1, <2>2, <2>4, <2>5, <2>6
<1>2. CASE ~x.extracted /\ s.is = "def"
  <2>0. IsDefinition(s)
    BY <1>2 DEF IsDefinition
  <2> DEFINE inner == ToExtract(s.body, name, NoName)
  <2>1. AreWritten(file, Ref("FUNCTION", name), s.body)
    <3>1. PICK w \in Written(file) : w.statement = s /\ Defined(w) = Ref("FUNCTION", name)
      BY <1>2, <1>d, <2>0
    <3>2. IsBody(file, Ref("FUNCTION", name), s.body)
      BY <2>0, <3>1 DEF IsBody
    <3> QED  BY <3>2, BodiesAreWritten
  <2>2. IsList(inner) /\ \A y \in ToSet(inner) : ItemOK(file, y) /\ y.owner = NoName
    <3> HIDE DEF name
    <3> QED  BY <1>0, <2>1, ItemsOfFunctions
  <2>3. next = <<[x EXCEPT !.extracted = TRUE]>> \o inner
    BY <1>2 DEF ExtractedNext
  <2> HIDE DEF next, done, inner, name, s
  <2>4. next = <<done>> \o inner
    BY <1>2, <1>d, <2>0, <2>3
  <2>5. IsList(next) /\ ToSet(next) = {done} \union ToSet(inner)
    BY <2>2, <2>4, ListOfOne, ListsTogether
  <2> QED  BY <1>2, <1>d, <2>0, <2>2, <2>5 DEF OwnerIn
<1>3. CASE ~x.extracted /\ s.is = "class"
  <2>0. IsDefinition(s)
    BY <1>3 DEF IsDefinition
  <2> DEFINE inner == ToExtract(Definitions(s.body), name, name)
  <2>1. AreWritten(file, ClassRef(name), s.body)
    <3>1. PICK w \in Written(file) : w.statement = s /\ Defined(w) = ClassRef(name)
      BY <1>3, <1>d, <2>0
    <3>2. IsBody(file, ClassRef(name), s.body)
      BY <2>0, <3>1 DEF IsBody
    <3> QED  BY <3>2, BodiesAreWritten
  <2>2. IsList(inner) /\ \A y \in ToSet(inner) : ItemOK(file, y) /\ y.owner = name
    <3> HIDE DEF name
    <3> QED  BY <1>0, <2>1, ItemsOfClasses
  <2>3. next = <<[x EXCEPT !.extracted = TRUE]>> \o inner
    BY <1>3 DEF ExtractedNext
  <2>n. name = Append(x.prefix, s.name)
    OBVIOUS
  <2> HIDE DEF next, done, inner, name, s
  <2>4. next = <<done>> \o inner
    BY <1>3, <1>d, <2>0, <2>3
  <2>5. IsList(next) /\ ToSet(next) = {done} \union ToSet(inner)
    BY <2>2, <2>4, ListOfOne, ListsTogether
  <2>6. \A y \in ToSet(inner) : OwnerIn(y, ToSet(next))
    BY <1>3, <1>d, <2>0, <2>2, <2>5, <2>n DEF OwnerIn
  <2> QED  BY <1>3, <1>d, <2>0, <2>2, <2>5, <2>6
<1>4. CASE ~x.extracted /\ s.is = "block"
  <2>0. ~IsDefinition(s) /\ x.owner = NoName
    BY <1>4 DEF ItemOK, IsDefinition
  <2>1. PICK kind \in {"MODULE", "FUNCTION"} : [scope |-> Ref(kind, x.prefix), statement |-> s] \in Written(file)
    BY <2>0 DEF ItemOK
  <2>2. AreWritten(file, Ref(kind, x.prefix), VisitedNext(s)) /\ VisitedNext(s) = s.body
    <3>1. VisitedNext(s) = s.body
      BY <1>4 DEF VisitedNext, IsDefinition
    <3> QED  BY <2>1, <3>1, NextIsWritten
  <2>3. next = ToExtract(s.body, x.prefix, NoName)
    BY <1>4 DEF ExtractedNext
  <2>4. IsList(x.prefix)
    BY DEF ItemOK
  <2>5. IsList(next) /\ \A y \in ToSet(next) : ItemOK(file, y) /\ y.owner = NoName
    <3> HIDE DEF s, next
    <3> QED  BY <2>2, <2>3, <2>4, ItemsOfFunctions
  <2> HIDE DEF next
  <2> QED  BY <1>4, <2>0, <2>5
<1>5. CASE ~x.extracted /\ s.is \notin {"def", "class", "block"}
  <2>1. next = <<>>
    BY <1>5 DEF ExtractedNext
  <2>2. IsList(next) /\ ToSet(next) = {}
    BY <2>1 DEF IsList, ToSet
  <2> HIDE DEF next
  <2> QED  BY <1>5, <2>2 DEF IsDefinition
<1> QED  BY <1>1, <1>2, <1>3, <1>4, <1>5

ItemsOK(file, items) ==
    IsList(items) /\ \A x \in ToSet(items) : ItemOK(file, x) /\ OwnerIn(x, ToSet(items))

\* A round of the extraction keeps what is extracted and finds what is written.
LEMMA DeeperIsOK ==
    ASSUME NEW file, FileOK(file), file.parses, NEW items, ItemsOK(file, items)
    PROVE  /\ ItemsOK(file, ExtractDeeper(items))
           /\ ToSet(ExtractDeeper(items)) = UNION {ToSet(ExtractedNext(x)) : x \in ToSet(items)}
<1> DEFINE lists == [i \in DOMAIN items |-> ExtractedNext(items[i])]
           deeper == ExtractDeeper(items)
<1>1. IsList(items) /\ \A i \in DOMAIN items : items[i] \in ToSet(items)
  BY DEF ItemsOK, ToSet
<1>2. \A x \in ToSet(items) : ItemOK(file, x) /\ IsList(ExtractedNext(x))
  <2> SUFFICES ASSUME NEW x \in ToSet(items) PROVE ItemOK(file, x) /\ IsList(ExtractedNext(x))
    OBVIOUS
  <2>1. ItemOK(file, x)
    BY DEF ItemsOK
  <2> QED  BY <2>1, NextIsOK
<1>3. lists = [i \in DOMAIN items |-> lists[i]] /\ \A i \in DOMAIN items : lists[i] = ExtractedNext(items[i])
  OBVIOUS
<1>4. deeper = FlattenSeq(lists)
  BY DEF ExtractDeeper
<1> HIDE DEF lists
<1>5. IsList(FlattenSeq(lists)) /\ ToSet(FlattenSeq(lists)) = UNION {ToSet(lists[i]) : i \in DOMAIN items}
  <2>1. \A i \in DOMAIN items : IsList(lists[i])
    BY <1>1, <1>2, <1>3
  <2> QED  BY <1>1, <1>3, <2>1, ListsOfModules
<1>6. ToSet(deeper) = UNION {ToSet(ExtractedNext(x)) : x \in ToSet(items)}
  <2>1. {ToSet(lists[i]) : i \in DOMAIN items} = {ToSet(ExtractedNext(x)) : x \in ToSet(items)}
    BY <1>3 DEF ToSet
  <2> QED  BY <1>4, <1>5, <2>1
<1> HIDE DEF deeper
<1>7. ASSUME NEW y \in ToSet(deeper) PROVE ItemOK(file, y) /\ OwnerIn(y, ToSet(deeper))
  <2>1. PICK x \in ToSet(items) : y \in ToSet(ExtractedNext(x))
    BY <1>6
  <2>2. ItemOK(file, x) /\ OwnerIn(x, ToSet(items))
    BY DEF ItemsOK
  <2>3. ItemOK(file, y) /\ (y.owner = x.owner \/ OwnerIn(y, ToSet(ExtractedNext(x))))
    BY <2>1, <2>2, NextIsOK
  <2>4. CASE OwnerIn(y, ToSet(ExtractedNext(x)))
    <3>1. ToSet(ExtractedNext(x)) \subseteq ToSet(deeper)
      BY <1>6
    <3> QED  BY <2>3, <2>4, <3>1 DEF OwnerIn
  <2>5. CASE y.owner = x.owner /\ y.owner # NoName
    <3>1. PICK z \in ToSet(items) : z.extracted /\ z.statement.is = "class"
                                     /\ Append(z.prefix, z.statement.name) = y.owner
      BY <2>2, <2>5 DEF OwnerIn
    <3>2. ExtractedNext(z) = <<z>>
      BY <1>2, <3>1, NextIsOK
    <3>3. z \in ToSet(deeper)
      BY <1>6, <3>2, ListOfOne
    <3> QED  BY <2>3, <3>1, <3>3 DEF OwnerIn
  <2> QED  BY <2>3, <2>4, <2>5 DEF OwnerIn
<1> QED  BY <1>4, <1>5, <1>6, <1>7 DEF ItemsOK, deeper

\* After every round, what is extracted is written.
LEMMA ExtractedAreOK ==
    ASSUME NEW file, FileOK(file), file.parses, NEW n \in 0 .. MaxNesting + 1
    PROVE  ItemsOK(file, ExtractedAfter(file.body, NameOf(file))[n])
<1> DEFINE After == ExtractedAfter(file.body, NameOf(file))
           N == MaxNesting + 1
           S == {k \in 0 .. N : ItemsOK(file, After[k])}
<1>0. N \in Nat
  BY NestingAssumption
<1>1. 0 \in S
  <2> DEFINE defs == Definitions(file.body)
  <2>1. IsList(defs) /\ ToSet(defs) \subseteq ToSet(file.body)
    <3>1. IsList(file.body)
      BY DEF FileOK
    <3> QED  BY <3>1, OnlyIsList DEF Definitions
  <2>2. AreWritten(file, Ref("MODULE", NameOf(file)), file.body)
    <3>1. IsBody(file, ModuleRef(NameOf(file)), file.body)
      BY DEF IsBody
    <3> QED  BY <3>1, BodiesAreWritten DEF ModuleRef
  <2>3. AreWritten(file, Ref("MODULE", NameOf(file)), defs)
    <3> HIDE DEF defs
    <3> QED  BY <2>1, <2>2 DEF AreWritten, In
  <2>4. After[0] = ToExtract(defs, NameOf(file), NoName)
    BY ExtractedLevels
  <2>5. IsList(NameOf(file))
    BY NamesAreLists
  <2> HIDE DEF defs, After
  <2>6. ItemsOK(file, After[0])
    BY <2>3, <2>4, <2>5, ItemsOfFunctions DEF ItemsOK, OwnerIn
  <2> QED  BY <1>0, <2>6
<1>2. ASSUME NEW k \in 0 .. (N - 1), k \in S PROVE k + 1 \in S
  <2>1. k \in 0 .. MaxNesting /\ k + 1 \in 0 .. N
    BY <1>0, NestingAssumption
  <2>2. After[k + 1] = ExtractDeeper(After[k])
    BY <2>1, ExtractedLevels
  <2> HIDE DEF After, N
  <2> QED  BY <1>2, <2>1, <2>2, DeeperIsOK
<1>3. n \in S
  <2>1. 0 .. N \subseteq S
    <3> HIDE DEF S, N
    <3> QED  BY <1>0, <1>1, <1>2, UpTo
  <2> HIDE DEF S
  <2> QED  BY <2>1
<1> QED  BY <1>3

\* What is extracted stays.
LEMMA ExtractedStay ==
    ASSUME NEW file, FileOK(file), file.parses, NEW k \in 0 .. MaxNesting + 1,
           NEW x \in ToSet(ExtractedAfter(file.body, NameOf(file))[k]), x.extracted
    PROVE  x \in ToSet(Extracted(file.body, NameOf(file)))
<1> DEFINE After == ExtractedAfter(file.body, NameOf(file))
           N == (MaxNesting + 1) - k
           S == {i \in 0 .. N : x \in ToSet(After[k + i])}
<1>0. N \in Nat /\ k \in Nat /\ k + N = MaxNesting + 1 /\ k + 0 = k
  BY NestingAssumption
<1>1. 0 \in S
  BY <1>0
<1>2. ASSUME NEW i \in 0 .. (N - 1), i \in S PROVE i + 1 \in S
  <2>1. k + i \in 0 .. MaxNesting /\ k + i \in 0 .. MaxNesting + 1 /\ k + (i + 1) = (k + i) + 1 /\ i + 1 \in 0 .. N
    BY <1>0, NestingAssumption
  <2>2. After[(k + i) + 1] = ExtractDeeper(After[k + i]) /\ ItemsOK(file, After[k + i])
    BY <2>1, ExtractedLevels, ExtractedAreOK
  <2> HIDE DEF After, N
  <2>3. x \in ToSet(After[k + i])
    BY <1>2
  <2>4. ExtractedNext(x) = <<x>>
    BY <2>2, <2>3, NextIsOK DEF ItemsOK
  <2>5. x \in ToSet(ExtractedNext(x))
    BY <2>4, ListOfOne
  <2>6. x \in ToSet(After[(k + i) + 1])
    BY <2>2, <2>3, <2>5, DeeperIsOK
  <2> QED  BY <2>1, <2>6
<1>3. 0 .. N \subseteq S
  <2> HIDE DEF S, N
  <2> QED  BY <1>0, <1>1, <1>2, UpTo
<1>4. x \in ToSet(After[MaxNesting + 1])
  <2> HIDE DEF N, After
  <2>1. N \in S
    <3> HIDE DEF S
    <3> QED  BY <1>0, <1>3
  <2> QED  BY <1>0, <2>1
<1> QED  BY <1>4 DEF Extracted

\* A definition of the file itself is extracted.
LEMMA TopIsExtracted ==
    ASSUME NEW file, FileOK(file), file.parses, NEW s \in ToSet(file.body), IsDefinition(s)
    PROVE  [statement |-> s, prefix |-> NameOf(file), owner |-> NoName, extracted |-> TRUE]
               \in ToSet(Extracted(file.body, NameOf(file)))
<1> DEFINE After == ExtractedAfter(file.body, NameOf(file))
           defs == Definitions(file.body)
           x == [statement |-> s, prefix |-> NameOf(file), owner |-> NoName, extracted |-> FALSE]
           done == [statement |-> s, prefix |-> NameOf(file), owner |-> NoName, extracted |-> TRUE]
<1>0. 0 \in 0 .. MaxNesting + 1 /\ 0 \in 0 .. MaxNesting /\ 0 + 1 = 1 /\ 1 \in 0 .. MaxNesting + 1
  BY NestingAssumption
<1>1. IsList(defs) /\ s \in ToSet(defs)
  <2>1. IsList(file.body)
    BY DEF FileOK
  <2> QED  BY <2>1, OnlyIsList DEF Definitions
<1>2. After[0] = ToExtract(defs, NameOf(file), NoName) /\ After[1] = ExtractDeeper(After[0])
  BY <1>0, ExtractedLevels
<1>3. ItemsOK(file, After[0])
  BY <1>0, ExtractedAreOK
<1>4. x \in ToSet(ToExtract(defs, NameOf(file), NoName))
  <2> HIDE DEF defs
  <2> QED  BY <1>1, ItemsToExtract
<1>5. x.statement = s /\ x.prefix = NameOf(file) /\ x.owner = NoName /\ ~x.extracted /\ done.extracted
  OBVIOUS
<1>d. done = [statement |-> s, prefix |-> NameOf(file), owner |-> NoName, extracted |-> TRUE]
  OBVIOUS
<1> HIDE DEF After, defs, x, done
<1>6. x \in ToSet(After[0]) /\ ItemOK(file, x)
  BY <1>2, <1>3, <1>4 DEF ItemsOK
<1>7. done \in ToSet(ExtractedNext(x))
  BY <1>5, <1>6, <1>d, NextIsOK
<1>8. done \in ToSet(After[1])
  BY <1>2, <1>3, <1>6, <1>7, DeeperIsOK
<1> QED  BY <1>0, <1>5, <1>8, ExtractedStay DEF After, done

-----------------------------------------------------------------------------
(* The facts of the files of a repository.                                 *)

\* The functions of a module are those extracted, ...
LEMMA FunctionsExtracted ==
    ASSUME NEW items, IsList(items), NEW module
    PROVE  /\ IsList(FunctionsOf(items, module))
           /\ ToSet(FunctionsOf(items, module)) =
                 {FunctionOf(x, module) : x \in {y \in ToSet(items) : y.extracted /\ y.statement.is = "def"}}
<1> DEFINE D == {y \in ToSet(items) : y.extracted /\ y.statement.is = "def"}
           free == Only(items, {x \in ToSet(items) : x.extracted /\ x.statement.is = "def"
                                                       /\ (x.owner # NoName) = FALSE})
           owned == Only(items, {x \in ToSet(items) : x.extracted /\ x.statement.is = "def"
                                                       /\ (x.owner # NoName) = TRUE})
           all == free \o owned
           functions == FunctionsOf(items, module)
<1>1. IsList(free) /\ ToSet(free) = {x \in D : x.owner = NoName}
  BY OnlyIsList
<1>2. IsList(owned) /\ ToSet(owned) = {x \in D : x.owner # NoName}
  BY OnlyIsList
<1>3. functions = [i \in DOMAIN all |-> FunctionOf(all[i], module)]
  BY DEF FunctionsOf
<1> HIDE DEF free, owned
<1>4. IsList(all) /\ ToSet(all) = D
  <2>1. IsList(all) /\ ToSet(all) = ToSet(free) \union ToSet(owned)
    BY <1>1, <1>2, ListsTogether
  <2> HIDE DEF all
  <2> QED  BY <1>1, <1>2, <2>1
<1> HIDE DEF all, functions
<1>5. /\ functions = [i \in DOMAIN all |-> functions[i]]
      /\ \A i \in DOMAIN all : functions[i] = FunctionOf(all[i], module)
  BY <1>3
<1>6. IsList(functions) /\ ToSet(functions) = {functions[i] : i \in DOMAIN all}
  BY <1>4, <1>5, ListOfEach
<1>7. ToSet(functions) = {FunctionOf(x, module) : x \in ToSet(all)}
  BY <1>5, <1>6 DEF ToSet
<1> QED  BY <1>4, <1>6, <1>7 DEF functions

\* ... and so are its classes.
LEMMA ClassesExtracted ==
    ASSUME NEW items, IsList(items), NEW module
    PROVE  /\ IsList(ClassesOf(items, module))
           /\ ToSet(ClassesOf(items, module)) =
                 {ClassOf(x, module) : x \in {y \in ToSet(items) : y.extracted /\ y.statement.is = "class"}}
<1> DEFINE all == Only(items, {x \in ToSet(items) : x.extracted /\ x.statement.is = "class"})
           classes == ClassesOf(items, module)
<1>1. IsList(all) /\ ToSet(all) = {y \in ToSet(items) : y.extracted /\ y.statement.is = "class"}
  BY OnlyIsList
<1>2. classes = [i \in DOMAIN all |-> ClassOf(all[i], module)]
  BY DEF ClassesOf
<1> HIDE DEF all, classes
<1>3. classes = [i \in DOMAIN all |-> classes[i]] /\ \A i \in DOMAIN all : classes[i] = ClassOf(all[i], module)
  BY <1>2
<1>4. IsList(classes) /\ ToSet(classes) = {classes[i] : i \in DOMAIN all}
  BY <1>1, <1>3, ListOfEach
<1>5. ToSet(classes) = {ClassOf(x, module) : x \in ToSet(all)}
  BY <1>3, <1>4 DEF ToSet
<1> QED  BY <1>1, <1>4, <1>5 DEF classes

\* The facts of a definition as it is written.
FunctionFact(file, w) ==
    [name |-> w.statement.name, qname |-> Append(w.scope.id, w.statement.name), module |-> NameOf(file),
     owner |-> IF w.scope.kind = "CLASS" THEN w.scope.id ELSE NoName,
     params |-> w.statement.params, returns |-> w.statement.returns, decorators |-> w.statement.decorators,
     calls |-> Sites(w.statement.body), assignments |-> Assignments(w.statement.body)]

ClassFact(file, w) ==
    [name |-> w.statement.name, qname |-> Append(w.scope.id, w.statement.name), module |-> NameOf(file),
     bases |-> w.statement.bases, fields |-> Of("field", w.statement.body)]

FactFile(file) == analyze_module(file, SourceRoots)

\* A definition of a form that stands in a scope of an entity.
IsWrittenAs(file, w, form) ==
    /\ file.parses /\ w \in Written(file) /\ w.statement.is = form
    /\ w.scope.kind \in {"MODULE", "FUNCTION", "CLASS"} /\ IsList(w.scope.id)
    /\ w.scope.kind = "CLASS" => w.scope.id # NoName

\* Whatever is extracted is written, and it has the facts of what is written.
LEMMA ItemIsWritten ==
    ASSUME NEW file, NEW x, ItemOK(file, x), file.parses,
           x.owner # NoName => x.owner = x.prefix
    PROVE  \E w : /\ w \in Written(file) /\ w.statement = x.statement /\ w.scope.id = x.prefix
                  /\ w.scope.kind \in {"MODULE", "FUNCTION", "CLASS"}
                  /\ w.scope.kind = "CLASS" <=> x.owner # NoName
                  /\ FunctionFact(file, w) = FunctionOf(x, NameOf(file))
                  /\ ClassFact(file, w) = ClassOf(x, NameOf(file))
<1>1. PICK kind \in {"MODULE", "FUNCTION", "CLASS"} :
         /\ [scope |-> Ref(kind, x.prefix), statement |-> x.statement] \in Written(file)
         /\ kind = "CLASS" <=> x.owner # NoName
  BY DEF ItemOK, ClassRef
<1> DEFINE w == [scope |-> Ref(kind, x.prefix), statement |-> x.statement]
<1>2. w.statement = x.statement /\ w.scope.id = x.prefix /\ w.scope.kind = kind
  BY DEF Ref
<1>3. w \in Written(file)
  BY <1>1
<1> HIDE DEF w
<1>4. (IF w.scope.kind = "CLASS" THEN w.scope.id ELSE NoName) = x.owner
  BY <1>1, <1>2
<1>5. FunctionFact(file, w) = FunctionOf(x, NameOf(file))
  BY <1>2, <1>4 DEF FunctionFact, FunctionOf
<1>6. ClassFact(file, w) = ClassOf(x, NameOf(file))
  BY <1>2 DEF ClassFact, ClassOf
<1> QED  BY <1>1, <1>2, <1>3, <1>5, <1>6

\* A file that cannot be parsed has no facts.
LEMMA NothingIn ==
    ASSUME NEW module
    PROVE  Extracted(<<>>, module) = <<>> /\ Sites(<<>>) = {}
<1>e. FlattenSeq([i \in DOMAIN <<>> |-> <<>>]) = <<>> /\ DOMAIN <<>> = {}
  <2> DEFINE lists == [i \in DOMAIN <<>> |-> <<>>]
  <2>1. IsList(<<>>) /\ lists = [i \in DOMAIN <<>> |-> lists[i]] /\ \A i \in DOMAIN <<>> : IsList(lists[i])
    BY DEF IsList
  <2>2. IsList(FlattenSeq(lists)) /\ ToSet(FlattenSeq(lists)) = UNION {ToSet(lists[i]) : i \in DOMAIN <<>>}
    <3> HIDE DEF lists
    <3> QED  BY <2>1, ListsOfModules
  <2>3. ToSet(FlattenSeq(lists)) = {}
    BY <2>2
  <2> HIDE DEF lists
  <2>4. FlattenSeq(lists) = <<>>
    BY <2>2, <2>3 DEF IsList, ToSet
  <2> QED  BY <2>4 DEF lists
<1>1. VisitDeeper(<<>>) = <<>>
  <2>1. [i \in DOMAIN <<>> |-> VisitedNext(<<>>[i])] = [i \in DOMAIN <<>> |-> <<>>]
    BY <1>e
  <2> QED  BY <1>e, <2>1 DEF VisitDeeper
<1>2. ExtractDeeper(<<>>) = <<>>
  <2>1. [i \in DOMAIN <<>> |-> ExtractedNext(<<>>[i])] = [i \in DOMAIN <<>> |-> <<>>]
    BY <1>e
  <2> QED  BY <1>e, <2>1 DEF ExtractDeeper
<1>3. Visited(<<>>) = <<>>
  <2> DEFINE S == {k \in 0 .. MaxNesting : VisitedAfter(<<>>)[k] = <<>>}
  <2>1. 0 \in S
    BY VisitedLevels, NestingAssumption
  <2>2. ASSUME NEW k \in 0 .. (MaxNesting - 1), k \in S PROVE k + 1 \in S
    <3>1. VisitedAfter(<<>>)[k + 1] = VisitDeeper(VisitedAfter(<<>>)[k]) /\ k + 1 \in 0 .. MaxNesting
      BY VisitedLevels, NestingAssumption
    <3> QED  BY <1>1, <2>2, <3>1
  <2>3. MaxNesting \in 0 .. MaxNesting
    BY NestingAssumption
  <2>4. 0 .. MaxNesting \subseteq S
    <3> HIDE DEF S
    <3> QED  BY <2>1, <2>2, UpTo, NestingAssumption
  <2> QED  BY <2>3, <2>4 DEF Visited
<1>4. Extracted(<<>>, module) = <<>>
  <2> DEFINE N == MaxNesting + 1
             After == ExtractedAfter(<<>>, module)
             S == {k \in 0 .. N : After[k] = <<>>}
  <2>0. N \in Nat
    BY NestingAssumption
  <2>1. 0 \in S
    <3>1. Definitions(<<>>) = <<>>
      <4>1. IsList(<<>>) /\ ToSet(<<>>) = {}
        BY DEF IsList, ToSet
      <4>2. IsList(Definitions(<<>>)) /\ ToSet(Definitions(<<>>)) = {}
        BY <4>1, OnlyIsList DEF Definitions
      <4> QED  BY <4>2 DEF IsList, ToSet
    <3>2. ToExtract(<<>>, module, NoName) = <<>>
      BY DEF ToExtract
    <3>3. After[0] = <<>>
      BY <3>1, <3>2, ExtractedLevels
    <3> QED  BY <2>0, <3>3
  <2>2. ASSUME NEW k \in 0 .. (N - 1), k \in S PROVE k + 1 \in S
    <3>1. k \in 0 .. MaxNesting /\ k + 1 \in 0 .. N
      BY <2>0, NestingAssumption
    <3>2. After[k + 1] = ExtractDeeper(After[k])
      BY <3>1, ExtractedLevels
    <3> HIDE DEF After, N
    <3> QED  BY <1>2, <2>2, <3>1, <3>2
  <2>3. N \in 0 .. N
    BY <2>0
  <2>4. 0 .. N \subseteq S
    <3> HIDE DEF S, N
    <3> QED  BY <2>0, <2>1, <2>2, UpTo
  <2> QED  BY <2>3, <2>4 DEF Extracted
<1>5. Sites(<<>>) = {}
  BY <1>3 DEF Sites, WithValues, ToSet
<1> QED  BY <1>4, <1>5

\* The facts of a file, if it can be parsed, ...
LEMMA FactsOfParsed ==
    ASSUME NEW file, FileOK(file), file.parses
    PROVE  LET m == FactFile(file)
               items == Extracted(file.body, NameOf(file))
           IN  /\ m.name = NameOf(file) /\ m.path = file.path /\ m.test = IsTest(file)
               /\ m.functions = FunctionsOf(items, NameOf(file))
               /\ m.classes = ClassesOf(items, NameOf(file))
               /\ m.calls = Sites(file.body)
               /\ IsList(m.imports) /\ ToSet(m.imports) = ImportsOf(file)
               /\ ItemsOK(file, items)
<1> DEFINE m == FactFile(file)
           items == Extracted(file.body, NameOf(file))
<1>1. /\ m.name = NameOf(file) /\ m.path = file.path /\ m.test = IsTest(file)
      /\ m.functions = FunctionsOf(items, NameOf(file))
      /\ m.classes = ClassesOf(items, NameOf(file))
      /\ m.calls = Sites(file.body) /\ m.imports = Of("import", file.body)
  BY DEF FactFile, analyze_module, NameOf
<1>2. IsList(Of("import", file.body)) /\ ToSet(Of("import", file.body)) = ImportsOf(file)
  <2>1. IsList(file.body)
    BY DEF FileOK
  <2>2. IsList(Of("import", file.body))
        /\ ToSet(Of("import", file.body)) = ToSet(file.body) \intersect {s \in ToSet(file.body) : s.is = "import"}
    BY <2>1, OnlyIsList DEF Of
  <2> QED  BY <2>2 DEF ImportsOf
<1>3. ItemsOK(file, items)
  <2>1. MaxNesting + 1 \in 0 .. MaxNesting + 1
    BY NestingAssumption
  <2> QED  BY <2>1, ExtractedAreOK DEF Extracted
<1> HIDE DEF m, items
<1> QED  BY <1>1, <1>2, <1>3 DEF m, items

\* ... and if it cannot.
LEMMA FactsOfBroken ==
    ASSUME NEW file, ~file.parses
    PROVE  LET m == FactFile(file)
           IN  /\ m.name = NameOf(file) /\ m.path = file.path /\ m.test = IsTest(file)
               /\ m.functions = <<>> /\ m.classes = <<>> /\ m.imports = <<>> /\ m.calls = {}
<1> DEFINE m == FactFile(file)
<1>1. /\ m.name = NameOf(file) /\ m.path = file.path /\ m.test = IsTest(file)
      /\ m.functions = FunctionsOf(Extracted(<<>>, NameOf(file)), NameOf(file))
      /\ m.classes = ClassesOf(Extracted(<<>>, NameOf(file)), NameOf(file))
      /\ m.calls = Sites(<<>>) /\ m.imports = Of("import", <<>>)
  BY DEF FactFile, analyze_module, NameOf
<1> HIDE DEF m
<1>2. Extracted(<<>>, NameOf(file)) = <<>> /\ m.calls = {}
  BY <1>1, NothingIn
<1>3. IsList(<<>>) /\ ToSet(<<>>) = {}
  BY DEF IsList, ToSet
<1>4. \A s : IsList(s) /\ ToSet(s) = {} => s = <<>>
  BY DEF IsList, ToSet
<1>5. m.functions = <<>>
  <2>1. IsList(m.functions) /\ ToSet(m.functions) = {}
    BY <1>1, <1>2, <1>3, FunctionsExtracted
  <2> QED  BY <1>4, <2>1
<1>6. m.classes = <<>>
  <2>1. IsList(m.classes) /\ ToSet(m.classes) = {}
    BY <1>1, <1>2, <1>3, ClassesExtracted
  <2> QED  BY <1>4, <2>1
<1>7. m.imports = <<>>
  <2>1. IsList(m.imports) /\ ToSet(m.imports) = {}
    BY <1>1, <1>3, OnlyIsList DEF Of
  <2> QED  BY <1>4, <2>1
<1> QED  BY <1>1, <1>2, <1>5, <1>6, <1>7 DEF m

\* Every fact of a file is that of a definition written in it, and a method is of a class
\* of the file.
LEMMA FactsAreWritten ==
    ASSUME NEW file, FileOK(file)
    PROVE  LET m == FactFile(file)
           IN  /\ IsList(m.functions) /\ IsList(m.classes)
               /\ \A f \in ToSet(m.functions) :
                     /\ \E w : IsWrittenAs(file, w, "def") /\ f = FunctionFact(file, w)
                     /\ f.owner # NoName => \E c \in ToSet(m.classes) : c.qname = f.owner
               /\ \A c \in ToSet(m.classes) :
                     \E w : IsWrittenAs(file, w, "class") /\ c = ClassFact(file, w)
<1> DEFINE m == FactFile(file)
           items == Extracted(file.body, NameOf(file))
<1>1. CASE ~file.parses
  <2>1. m.functions = <<>> /\ m.classes = <<>>
    BY <1>1, FactsOfBroken
  <2> HIDE DEF m
  <2>2. IsList(<<>>) /\ ToSet(<<>>) = {}
    BY DEF IsList, ToSet
  <2>3. /\ IsList(m.functions) /\ IsList(m.classes)
        /\ ToSet(m.functions) = {} /\ ToSet(m.classes) = {}
    BY <2>1, <2>2
  <2> QED  BY <2>3 DEF m
<1>2. CASE file.parses
  <2>1. /\ m.functions = FunctionsOf(items, NameOf(file)) /\ m.classes = ClassesOf(items, NameOf(file))
        /\ ItemsOK(file, items)
    BY <1>2, FactsOfParsed
  <2> HIDE DEF m, items
  <2>2. /\ IsList(m.functions) /\ IsList(m.classes)
        /\ ToSet(m.functions) = {FunctionOf(x, NameOf(file)) :
               x \in {y \in ToSet(items) : y.extracted /\ y.statement.is = "def"}}
        /\ ToSet(m.classes) = {ClassOf(x, NameOf(file)) :
               x \in {y \in ToSet(items) : y.extracted /\ y.statement.is = "class"}}
    BY <2>1, FunctionsExtracted, ClassesExtracted DEF ItemsOK
  <2>3. ASSUME NEW x \in ToSet(items)
        PROVE  \E w : /\ w \in Written(file) /\ w.statement = x.statement
                      /\ w.scope.kind \in {"MODULE", "FUNCTION", "CLASS"} /\ IsList(w.scope.id)
                      /\ w.scope.kind = "CLASS" => w.scope.id # NoName
                      /\ FunctionFact(file, w) = FunctionOf(x, NameOf(file))
                      /\ ClassFact(file, w) = ClassOf(x, NameOf(file))
    <3>1. ItemOK(file, x) /\ IsList(x.prefix) /\ (x.owner # NoName => x.owner = x.prefix)
      BY <2>1 DEF ItemsOK, ItemOK
    <3>2. PICK w : /\ w \in Written(file) /\ w.statement = x.statement /\ w.scope.id = x.prefix
                   /\ w.scope.kind \in {"MODULE", "FUNCTION", "CLASS"}
                   /\ w.scope.kind = "CLASS" <=> x.owner # NoName
                   /\ FunctionFact(file, w) = FunctionOf(x, NameOf(file))
                   /\ ClassFact(file, w) = ClassOf(x, NameOf(file))
      BY <1>2, <3>1, ItemIsWritten
    <3> QED  BY <3>1, <3>2
  <2>4. ASSUME NEW f \in ToSet(m.functions)
        PROVE  /\ \E w : IsWrittenAs(file, w, "def") /\ f = FunctionFact(file, w)
               /\ f.owner # NoName => \E c \in ToSet(m.classes) : c.qname = f.owner
    <3>1. PICK x \in ToSet(items) : x.extracted /\ x.statement.is = "def" /\ f = FunctionOf(x, NameOf(file))
      BY <2>2
    <3>2. \E w : IsWrittenAs(file, w, "def") /\ f = FunctionFact(file, w)
      BY <1>2, <2>3, <3>1 DEF IsWrittenAs
    <3>3. ASSUME f.owner # NoName PROVE \E c \in ToSet(m.classes) : c.qname = f.owner
      <4>1. f.owner = x.owner
        BY <3>1 DEF FunctionOf
      <4>2. PICK y \in ToSet(items) : y.extracted /\ y.statement.is = "class"
                                       /\ Append(y.prefix, y.statement.name) = x.owner
        BY <2>1, <3>3, <4>1 DEF ItemsOK, OwnerIn
      <4>3. ClassOf(y, NameOf(file)) \in ToSet(m.classes)
        BY <2>2, <4>2
      <4>4. ClassOf(y, NameOf(file)).qname = Append(y.prefix, y.statement.name)
        BY DEF ClassOf
      <4> QED  BY <4>1, <4>2, <4>3, <4>4
    <3> QED  BY <3>2, <3>3
  <2>5. ASSUME NEW c \in ToSet(m.classes)
        PROVE  \E w : IsWrittenAs(file, w, "class") /\ c = ClassFact(file, w)
    <3>1. PICK x \in ToSet(items) : x.extracted /\ x.statement.is = "class" /\ c = ClassOf(x, NameOf(file))
      BY <2>2
    <3> QED  BY <1>2, <2>3, <3>1 DEF IsWrittenAs
  <2> QED  BY <2>2, <2>4, <2>5 DEF m
<1> QED  BY <1>1, <1>2

\* A function of the module itself has a fact.
LEMMA TopFunctions ==
    ASSUME NEW file, FileOK(file), file.parses, NEW s \in ToSet(file.body), s.is = "def"
    PROVE  FunctionFact(file, [scope |-> ModuleRef(NameOf(file)), statement |-> s])
               \in ToSet(FactFile(file).functions)
<1> DEFINE items == Extracted(file.body, NameOf(file))
           x == [statement |-> s, prefix |-> NameOf(file), owner |-> NoName, extracted |-> TRUE]
           w == [scope |-> ModuleRef(NameOf(file)), statement |-> s]
<1>1. x \in ToSet(items)
  BY TopIsExtracted DEF IsDefinition
<1>2. FactFile(file).functions = FunctionsOf(items, NameOf(file)) /\ ItemsOK(file, items)
  BY FactsOfParsed
<1>3. FunctionOf(x, NameOf(file)) = FunctionFact(file, w)
  <2>1. x.statement = s /\ x.prefix = NameOf(file) /\ x.owner = NoName
    OBVIOUS
  <2>2. w.statement = s /\ w.scope.id = NameOf(file) /\ w.scope.kind = "MODULE"
    BY DEF ModuleRef, Ref
  <2> HIDE DEF x, w
  <2> QED  BY <2>1, <2>2 DEF FunctionOf, FunctionFact
<1>4. x.extracted /\ x.statement.is = "def"
  OBVIOUS
<1> HIDE DEF items, x, w
<1>5. ToSet(FunctionsOf(items, NameOf(file))) = {FunctionOf(y, NameOf(file)) :
         y \in {z \in ToSet(items) : z.extracted /\ z.statement.is = "def"}}
  BY <1>2, FunctionsExtracted DEF ItemsOK
<1> QED  BY <1>1, <1>2, <1>3, <1>4, <1>5 DEF w

\* The facts of the files of a repository, as they are stored.
FilesOK(files) == IsList(files) /\ \A file \in ToSet(files) : FileOK(file)

\* Those are the facts that resolution and the relationships work on.
LEMMA FactsOfFiles ==
    ASSUME NEW files, FilesOK(files)
    PROVE  LET loaded == Named(FactsOf(files))
           IN  /\ IsList(loaded)
               /\ ToSet(loaded) = {FactFile(file) : file \in {x \in ToSet(files) : NameOf(x) # NoName}}
               /\ ToSet(Named(loaded)) = ToSet(loaded)
               /\ FactsOK(loaded)
<1> DEFINE facts_ == FactsOf(files)
           loaded == Named(facts_)
           stored == {FactFile(file) : file \in {x \in ToSet(files) : NameOf(x) # NoName}}
<1>1. facts_ = [i \in DOMAIN files |-> FactFile(files[i])]
  BY DEF FactsOf, FactFile
<1> HIDE DEF facts_
<1>2. IsList(facts_) /\ ToSet(facts_) = {FactFile(file) : file \in ToSet(files)}
  <2>1. IsList(files)
    BY DEF FilesOK
  <2>2. facts_ = [i \in DOMAIN files |-> facts_[i]] /\ \A i \in DOMAIN files : facts_[i] = FactFile(files[i])
    BY <1>1
  <2>3. IsList(facts_) /\ ToSet(facts_) = {facts_[i] : i \in DOMAIN files}
    BY <2>1, <2>2, ListOfEach
  <2>4. {facts_[i] : i \in DOMAIN files} = {FactFile(file) : file \in ToSet(files)}
    BY <2>2 DEF ToSet
  <2> QED  BY <2>3, <2>4
<1>3. IsList(loaded) /\ ToSet(loaded) = {m \in ToSet(facts_) : m.name # NoName}
  BY <1>2, NamedModules
<1>4. \A file \in ToSet(files) : FactFile(file).name = NameOf(file)
  <2> SUFFICES ASSUME NEW file \in ToSet(files) PROVE FactFile(file).name = NameOf(file)
    OBVIOUS
  <2> QED  BY DEF FactFile, analyze_module, NameOf
<1> HIDE DEF loaded
<1>5. ToSet(loaded) = stored
  BY <1>2, <1>3, <1>4
<1>6. ToSet(Named(loaded)) = ToSet(loaded)
  BY <1>3, NamedModules
<1>7. FactsOK(loaded)
  <2> SUFFICES ASSUME NEW m \in ToSet(loaded)
               PROVE  /\ IsList(m.functions) /\ IsList(m.classes)
                      /\ \A c \in ToSet(m.classes) : IsList(c.qname) /\ IsList(c.bases)
                      /\ \A f \in ToSet(m.functions) :
                            f.owner # NoName => \E c \in ToSet(m.classes) : c.qname = f.owner
    BY <1>3 DEF FactsOK
  <2>1. PICK file \in ToSet(files) : m = FactFile(file)
    BY <1>5
  <2>2. FileOK(file)
    BY DEF FilesOK
  <2>3. /\ IsList(m.functions) /\ IsList(m.classes)
        /\ \A f \in ToSet(m.functions) : f.owner # NoName => \E c \in ToSet(m.classes) : c.qname = f.owner
        /\ \A c \in ToSet(m.classes) : \E w : IsWrittenAs(file, w, "class") /\ c = ClassFact(file, w)
    BY <2>1, <2>2, FactsAreWritten
  <2>4. ASSUME NEW c \in ToSet(m.classes) PROVE IsList(c.qname) /\ IsList(c.bases)
    <3>1. PICK w : IsWrittenAs(file, w, "class") /\ c = ClassFact(file, w)
      BY <2>3
    <3>2. c.qname = Append(w.scope.id, w.statement.name) /\ c.bases = w.statement.bases
      BY <3>1 DEF ClassFact
    <3>3. StatementOK(w.statement) /\ w.statement.is = "class" /\ IsList(w.scope.id)
      BY <2>2, <3>1 DEF FileOK, IsWrittenAs
    <3> QED  BY <3>2, <3>3, LongerList DEF StatementOK
  <2> QED  BY <2>3, <2>4
<1> QED  BY <1>3, <1>5, <1>6, <1>7 DEF loaded, facts_

-----------------------------------------------------------------------------
(* The snapshots that impact traverses are those of facts.                 *)
\* The facts of a repository are well formed, and its test modules have names of their own.
LEMMA SnapshotsOfFacts ==
    ASSUME NEW s \in Snapshots
    PROVE  \E files, loaded : FactsOK(loaded) /\ TestNamesApart(loaded) /\ s = SnapshotOf(files, loaded)
<1>1. PICK files \in Repositories : s = SnapshotOf(files, Named(FactsOf(files)))
  BY IndexAssumption DEF IndexedSnapshots
<1>2. FilesOK(files)
  BY RepositoriesAssumption DEF FilesOK
<1>3. FactsOK(Named(FactsOf(files)))
  BY <1>2, FactsOfFiles
<1>4. TestNamesApart(Named(FactsOf(files)))
  BY TestsAssumption
<1> QED  BY <1>1, <1>3, <1>4

\* Every relationship of a repository joins two of its entities: the snapshots that index
\* builds are the graphs that the traversal takes (relationships.py:610-666).
THEOREM IndexedEdgesJoinEntities ==
    \A s \in Snapshots : \A r \in s.edges :
        r.source \in s.entities /\ r.target \in s.entities /\ r.kind \in Kind
<1> SUFFICES ASSUME NEW s \in Snapshots
             PROVE  \A r \in s.edges : r.source \in s.entities /\ r.target \in s.entities /\ r.kind \in Kind
  OBVIOUS
<1>1. PICK files, loaded : FactsOK(loaded) /\ s = SnapshotOf(files, loaded)
  BY SnapshotsOfFacts
<1> QED  BY <1>1, EdgesJoinEntities

\* Direct and indirect dependents are told apart and are all that was found; the target
\* is among them only if it extends a class of its own name (impact.py:69-72).
THEOREM DirectApartFromIndirect == Spec => []DirectOrIndirect
<1>1. IInv => DirectOrIndirect
  <2> SUFFICES ASSUME IInv, stage = "done" PROVE DirectOrIndirect
    BY DEF DirectOrIndirect
  <2>1. facts.direct \intersect facts.indirect = {}
    BY DEF IInv, ReportedFromTraversal
  <2>2. Reported \ {target} = collected
    BY ReportedAreFound, TargetExplored DEF IInv, LevelsCounted, visited
  <2>3. ASSUME target \in Reported
        PROVE  [kind |-> "inherits", source |-> target, target |-> target] \in snapshot.edges
    <3>1. target \in DependentsOf(target)
      BY <2>3, ReportedAreFound DEF IInv, LevelsCounted
    <3>2. PICK r \in snapshot.edges :
            r.target = target /\ r.source = target /\ r.kind \in DEPENDENCY_KINDS
      BY <3>1 DEF DependentsOf
    <3>3. r.kind = "inherits"
      <4>1. PICK files, loaded : snapshot = SnapshotOf(files, loaded)
        BY SnapshotsOfFacts DEF IInv
      <4>2. r \in build_relationships(ResolvedModules(loaded))
        BY <3>2, <4>1 DEF SnapshotOf, SnapshotWith
      <4> QED  BY <3>2, <4>2, OnlyClassesExtendThemselves DEF DEPENDENCY_KINDS
    <3>4. r \in Edges
      BY <3>2, SnapshotsAssumption DEF IInv
    <3>5. r = [kind |-> "inherits", source |-> target, target |-> target]
      BY <3>2, <3>3, <3>4 DEF Edges
    <3> QED
      BY <3>2, <3>5
  <2> QED
    BY <2>1, <2>2, <2>3 DEF DirectOrIndirect
<1> QED
  BY <1>1, Invariance, PTL

\* The tests that impact reports are those, and all those, that call the target or an
\* entity that depends on it, for the facts of any repository whose test modules have
\* names of their own (relationships.py:517-564, impact.py:74-76).
THEOREM TestsReported == Spec => []TestsAreReported
<1>1. IInv => TestsAreReported
  <2> SUFFICES ASSUME IInv, stage = "done" PROVE TestsAreReported
    BY DEF TestsAreReported
  <2>1. PICK files, loaded : FactsOK(loaded) /\ TestNamesApart(loaded) /\ snapshot = SnapshotOf(files, loaded)
    BY SnapshotsOfFacts DEF IInv
  <2> DEFINE resolved == ResolvedModules(loaded)
  <2>2. /\ snapshot.edges = build_relationships(resolved)
        /\ snapshot.tests = EntitiesOf({m \in resolved : m.test})
    BY <2>1 DEF SnapshotOf, SnapshotWith
  <2>3. facts.tests = UNION {TestsFor(e) : e \in visited}
    BY DEF IInv, ReportedFromTraversal
  <2>4. ASSUME NEW x \in facts.tests PROVE x \in snapshot.tests
    <3>1. PICK r \in snapshot.edges : x = r.source /\ r.kind = "tests"
      BY <2>3 DEF TestsFor
    <3> HIDE DEF resolved
    <3> QED  BY <2>2, <3>1, TestedByTests
  <2>5. ASSUME NEW r \in EdgesOf("calls"), r.source.kind = "FUNCTION", r.source \in snapshot.tests,
               r.target \in visited \ snapshot.tests
        PROVE  r.source \in facts.tests
    <3>1. r \in snapshot.edges /\ r.kind = "calls"
      BY DEF EdgesOf
    <3>2. Edge("tests", r.source, r.target) \in snapshot.edges
      BY <2>1, <2>2, <2>5, <3>1, TestsOfCalls
    <3>3. r.source \in TestsFor(r.target)
      BY <3>2 DEF TestsFor, Edge
    <3> QED  BY <2>3, <2>5, <3>3
  <2> QED
    BY <2>4, <2>5 DEF TestsAreReported
<1> QED
  BY <1>1, Invariance, PTL

-----------------------------------------------------------------------------
(* Names and types.                                                        *)

\* A qualified name ends in the name of the definition.
NamedIn(s) == \E prefix : IsList(prefix) /\ s.qname = Append(prefix, s.name)

\* What the resolution takes from the facts.
WellNamed(loaded) ==
    \A m \in ToSet(loaded) :
        /\ IsList(m.imports)
        /\ \A c \in ToSet(m.classes) : NamedIn(c) /\ c.module = m.name /\ IsList(c.fields)
        /\ \A f \in ToSet(m.functions) : NamedIn(f) /\ f.module = m.name /\ IsList(f.assignments)

\* The last of a longer list is what was added.
LEMMA LastAdded ==
    ASSUME NEW s, IsList(s), NEW e
    PROVE  Last(Append(s, e)) = e /\ Append(s, e) # NoName
<1>1. Len(Append(s, e)) = Len(s) + 1 /\ Append(s, e)[Len(s) + 1] = e /\ Append(s, e) # <<>>
  BY DEF IsList
<1> QED  BY <1>1 DEF Last, NoName

\* So a qualified name is a name.
LEMMA NamesEnd ==
    ASSUME NEW s, NamedIn(s)
    PROVE  IsList(s.qname) /\ s.qname # NoName /\ Last(s.qname) = s.name
<1>1. PICK prefix : IsList(prefix) /\ s.qname = Append(prefix, s.name)
  BY DEF NamedIn
<1> QED  BY <1>1, LastAdded, LongerList

\* The body of a definition is a list that is visited as one.
LEMMA VisitedIsList ==
    ASSUME NEW file, FileOK(file), NEW w, IsDefinition(w.statement), file.parses, w \in Written(file)
    PROVE  IsList(w.statement.body) /\ IsList(Visited(w.statement.body))
<1>1. AreWritten(file, Defined(w), w.statement.body)
  <2>1. IsBody(file, Defined(w), w.statement.body)
    BY DEF IsBody
  <2> QED  BY <2>1, BodiesAreWritten
<1>2. AreWritten(file, Defined(w), VisitedAfter(w.statement.body)[MaxNesting])
  <2>1. MaxNesting \in 0 .. MaxNesting
    BY NestingAssumption
  <2> QED  BY <1>1, <2>1, VisitedAreWritten
<1> QED  BY <1>1, <1>2 DEF AreWritten, Visited

\* The assignments of a body are a list.
LEMMA AssignmentsAreList ==
    ASSUME NEW body, IsList(Visited(body))
    PROVE  IsList(Assignments(body))
<1> DEFINE recorded == Only(Visited(body), {s \in ToSet(Visited(body)) : s.is = "assign" /\ IsRecorded(s)})
           assignment(s) == [target |-> Last(s.to), attribute |-> Len(s.to) = 2,
                             kind |-> s.value.is, value |-> s.value.fn]
           assignments == Assignments(body)
<1>1. IsList(recorded)
  BY OnlyIsList
<1>2. assignments = [i \in DOMAIN recorded |-> assignment(recorded[i])]
  BY DEF Assignments
<1> HIDE DEF recorded, assignment, assignments
<1>3. assignments = [i \in DOMAIN recorded |-> assignments[i]]
  BY <1>2
<1>4. IsList(assignments)
  BY <1>1, <1>3, ListOfEach
<1> QED  BY <1>4 DEF assignments

\* The facts of files are so.
LEMMA FactsWellNamed ==
    ASSUME NEW files, FilesOK(files)
    PROVE  WellNamed(Named(FactsOf(files)))
<1> SUFFICES ASSUME NEW m \in ToSet(Named(FactsOf(files)))
             PROVE  /\ IsList(m.imports)
                    /\ \A c \in ToSet(m.classes) : NamedIn(c) /\ c.module = m.name /\ IsList(c.fields)
                    /\ \A f \in ToSet(m.functions) : NamedIn(f) /\ f.module = m.name /\ IsList(f.assignments)
  BY DEF WellNamed
<1>1. PICK file \in ToSet(files) : m = FactFile(file)
  BY FactsOfFiles
<1>2. FileOK(file)
  BY DEF FilesOK
<1>3. m.name = NameOf(file) /\ IsList(m.imports)
  <2>1. CASE file.parses
    BY <1>1, <1>2, <2>1, FactsOfParsed
  <2>2. CASE ~file.parses
    <3>1. IsList(<<>>)
      BY DEF IsList
    <3> QED  BY <1>1, <2>2, <3>1, FactsOfBroken
  <2> QED  BY <2>1, <2>2
<1>4. ASSUME NEW c \in ToSet(m.classes) PROVE NamedIn(c) /\ c.module = m.name /\ IsList(c.fields)
  <2>1. PICK w : IsWrittenAs(file, w, "class") /\ c = ClassFact(file, w)
    BY <1>1, <1>2, FactsAreWritten
  <2>2. /\ c.qname = Append(w.scope.id, c.name) /\ c.module = NameOf(file)
        /\ c.fields = Of("field", w.statement.body)
    BY <2>1 DEF ClassFact
  <2>3. IsList(w.statement.body)
    BY <1>2, <2>1, VisitedIsList DEF IsWrittenAs, IsDefinition
  <2>4. IsList(c.fields)
    BY <2>2, <2>3, OnlyIsList DEF Of
  <2>5. IsList(w.scope.id)
    BY <2>1 DEF IsWrittenAs
  <2> QED  BY <1>3, <2>2, <2>4, <2>5 DEF NamedIn
<1>5. ASSUME NEW f \in ToSet(m.functions) PROVE NamedIn(f) /\ f.module = m.name /\ IsList(f.assignments)
  <2>1. PICK w : IsWrittenAs(file, w, "def") /\ f = FunctionFact(file, w)
    BY <1>1, <1>2, FactsAreWritten
  <2>2. /\ f.qname = Append(w.scope.id, f.name) /\ f.module = NameOf(file)
        /\ f.assignments = Assignments(w.statement.body)
    BY <2>1 DEF FunctionFact
  <2>3. IsList(Visited(w.statement.body))
    BY <1>2, <2>1, VisitedIsList DEF IsWrittenAs, IsDefinition
  <2>5. IsList(w.scope.id)
    BY <2>1 DEF IsWrittenAs
  <2> QED  BY <1>3, <2>2, <2>3, <2>5, AssignmentsAreList DEF NamedIn
<1> QED  BY <1>3, <1>4, <1>5

\* What a name of a module stands for: an import, and else a function or class of its own.
LEMMA NamesOfModule ==
    ASSUME NEW m, IsList(m.imports), IsList(m.functions), IsList(m.classes), NEW index
    PROVE  LET names == LocalNames(m, index)
               bound(x) == {i \in ToSet(m.imports) :
                               BoundName(i) = x /\ ImportedModule(m, i, index) # NoName}
               own(x) == {s \in {f \in ToSet(m.functions) : f.owner = NoName} \union ToSet(m.classes) : s.name = x}
           IN  /\ \A x : x \in DOMAIN names <=> bound(x) # {} \/ own(x) # {}
               /\ \A x \in DOMAIN names :
                     \/ \E i \in bound(x) : names[x] = Binding(i, ImportedModule(m, i, index), index)
                     \/ bound(x) = {} /\ \E s \in own(x) : names[x] = s.qname
<1> DEFINE names == LocalNames(m, index)
           bound(x) == {i \in ToSet(m.imports) :
                           BoundName(i) = x /\ ImportedModule(m, i, index) # NoName}
           own(x) == {s \in {f \in ToSet(m.functions) : f.owner = NoName} \union ToSet(m.classes) : s.name = x}
           imports == m.imports
           free == Only(m.functions, {f \in ToSet(m.functions) : f.owner = NoName})
           symbols == free \o m.classes
           source(i) == ImportedModule(m, imports[i], index)
           known == {i \in DOMAIN imports : source(i) # NoName}
           binding(x) == {i \in known : BoundName(imports[i]) = x}
           defining(x) == {i \in DOMAIN symbols : symbols[i].name = x}
<1>1. names = [x \in {BoundName(imports[i]) : i \in known} \union {symbols[i].name : i \in DOMAIN symbols} |->
                 IF binding(x) # {}
                 THEN Binding(imports[Max(binding(x))], source(Max(binding(x))), index)
                 ELSE symbols[Min(defining(x))].qname]
  BY DEF LocalNames
<1>2. IsList(symbols) /\ ToSet(symbols) = {f \in ToSet(m.functions) : f.owner = NoName} \union ToSet(m.classes)
  <2>1. IsList(free) /\ ToSet(free) = {f \in ToSet(m.functions) : f.owner = NoName}
    BY OnlyIsList
  <2> HIDE DEF free
  <2> QED  BY <2>1, ListsTogether
<1> HIDE DEF symbols, names
<1>3. \A x : /\ bound(x) = {imports[i] : i \in binding(x)}
             /\ own(x) = {symbols[i] : i \in defining(x)}
  BY <1>2 DEF ToSet
<1>4. PICK n \in Nat : DOMAIN imports = 1 .. n
  BY DEF IsList
<1>5. PICK k \in Nat : DOMAIN symbols = 1 .. k
  BY <1>2 DEF IsList
<1>6. ASSUME NEW x PROVE x \in DOMAIN names <=> bound(x) # {} \/ own(x) # {}
  <2>1. x \in DOMAIN names <=> binding(x) # {} \/ defining(x) # {}
    BY <1>1
  <2>2. bound(x) = {imports[i] : i \in binding(x)} /\ own(x) = {symbols[i] : i \in defining(x)}
    BY <1>3
  <2> HIDE DEF bound, own, binding, defining
  <2> QED  BY <2>1, <2>2
<1>7. ASSUME NEW x \in DOMAIN names, binding(x) # {}
      PROVE  \E i \in bound(x) : names[x] = Binding(i, ImportedModule(m, i, index), index)
  <2> DEFINE last == Max(binding(x))
  <2>1. last \in binding(x)
    <3>1. binding(x) \in SUBSET (1 .. n)
      BY <1>4
    <3> HIDE DEF binding
    <3> QED  BY <1>7, <3>1, PartHasLargest
  <2>2. names[x] = Binding(imports[last], source(last), index)
    BY <1>1, <1>7
  <2>3. imports[last] \in bound(x)
    <3>1. bound(x) = {imports[i] : i \in binding(x)}
      BY <1>3
    <3> HIDE DEF last, bound, binding
    <3> QED  BY <2>1, <3>1
  <2> HIDE DEF last
  <2> QED  BY <2>2, <2>3
<1>8. ASSUME NEW x \in DOMAIN names, binding(x) = {}
      PROVE  bound(x) = {} /\ \E s \in own(x) : names[x] = s.qname
  <2> DEFINE first == Min(defining(x))
  <2>0. bound(x) = {} /\ defining(x) # {}
    <3>1. bound(x) = {}
      BY <1>3, <1>8
    <3> QED  BY <1>3, <1>6, <3>1
  <2>1. first \in defining(x)
    <3>1. defining(x) \in SUBSET (1 .. k)
      BY <1>5
    <3> HIDE DEF defining
    <3> QED  BY <2>0, <3>1, PartHasSmallest
  <2>2. names[x] = symbols[first].qname
    BY <1>1, <1>8
  <2>3. symbols[first] \in own(x)
    <3>1. own(x) = {symbols[i] : i \in defining(x)}
      BY <1>3
    <3> HIDE DEF first, own, defining
    <3> QED  BY <2>1, <3>1
  <2> HIDE DEF first
  <2> QED  BY <2>0, <2>2, <2>3
<1> QED  BY <1>6, <1>7, <1>8 DEF names

\* The names of a module are those of a module of its name.
IsSpaceOf(name, space, loaded, index) ==
    \E m \in ToSet(Named(loaded)) : m.name = name /\ space = LocalNames(m, index)

LEMMA NamespacesOf ==
    ASSUME NEW loaded, FactsOK(loaded), NEW index
    PROVE  LET spaces == Namespaces(Named(loaded), index)
           IN  /\ DOMAIN spaces = {m.name : m \in ToSet(Named(loaded))}
               /\ \A name \in DOMAIN spaces : IsSpaceOf(name, spaces[name], loaded, index)
<1> DEFINE named == Named(Named(loaded))
           spaces == Namespaces(Named(loaded), index)
           having(name) == {i \in DOMAIN named : named[i].name = name}
<1>1. spaces = [name \in {m.name : m \in ToSet(named)} |-> LocalNames(named[Max(having(name))], index)]
  BY DEF Namespaces
<1>2. IsList(named) /\ ToSet(named) = ToSet(Named(loaded))
  <2>1. IsList(Named(loaded)) /\ ToSet(Named(loaded)) = {m \in ToSet(loaded) : m.name # NoName}
    BY NamedModules DEF FactsOK
  <2> QED  BY <2>1, NamedModules
<1> HIDE DEF named, spaces
<1>3. PICK n \in Nat : DOMAIN named = 1 .. n
  BY <1>2 DEF IsList
<1>4. ASSUME NEW name \in DOMAIN spaces
      PROVE  IsSpaceOf(name, spaces[name], loaded, index)
  <2> DEFINE last == Max(having(name))
  <2>1. having(name) \in SUBSET (1 .. n) /\ having(name) # {}
    BY <1>1, <1>3 DEF ToSet
  <2>2. last \in having(name)
    <3> HIDE DEF having
    <3> QED  BY <2>1, PartHasLargest
  <2>3. spaces[name] = LocalNames(named[last], index)
    BY <1>1
  <2> HIDE DEF last
  <2> QED  BY <1>2, <2>2, <2>3 DEF ToSet, IsSpaceOf
<1> QED  BY <1>1, <1>2, <1>4 DEF spaces

\* A type is a class of the repository, or none.
Types(index) == DOMAIN index.classes \union {NoName}

\* The type of an annotation, ...
LEMMA TypeNamesKnown ==
    ASSUME NEW annotation, NEW names, NEW index, ~IsClass(NoName, index)
    PROVE  resolve_type_name(annotation, names, index) \in Types(index)
<1> DEFINE types == SelectSeq(annotation, LAMBDA t : t # "None")
           head == Head(types)
<1>1. resolve_type_name(annotation, names, index) =
         IF Len(types) = 1 /\ IsClass(Lookup(names, head), index) THEN names[head] ELSE NoName
  BY DEF resolve_type_name
<1> HIDE DEF types, head
<1>2. IsClass(Lookup(names, head), index) => names[head] \in DOMAIN index.classes
  BY DEF Lookup, IsClass
<1> QED  BY <1>1, <1>2 DEF Types

\* ... of the value of a call, ...
LEMMA CallTypesKnown ==
    ASSUME NEW callee, NEW names, NEW index, ~IsClass(NoName, index)
    PROVE  ValueTypeFromCall(callee, names, index) \in Types(index)
<1>1. \A resolved : TypeMade(resolved, names, index) \in Types(index)
  BY TypeNamesKnown DEF TypeMade, Types, IsClass
<1> QED  BY <1>1 DEF ValueTypeFromCall

\* ... and of a parameter.
LEMMA ParameterTypesKnown ==
    ASSUME NEW function, NEW names, NEW index, ~IsClass(NoName, index)
    PROVE  \A x \in DOMAIN ParameterTypes(function, names, index) :
              ParameterTypes(function, names, index)[x] \in Types(index)
<1> SUFFICES ASSUME NEW x \in DOMAIN ParameterTypes(function, names, index)
             PROVE  ParameterTypes(function, names, index)[x] \in Types(index)
  OBVIOUS
<1>1. \E annotation : ParameterTypes(function, names, index)[x] = resolve_type_name(annotation, names, index)
  BY DEF ParameterTypes
<1> QED  BY <1>1, TypeNamesKnown

\* The types of attributes are so, ...
LEMMA AttributeTypesKnown ==
    ASSUME NEW class, IsList(class.fields), NEW methods, IsList(methods),
           \A f \in ToSet(methods) : IsList(f.assignments),
           NEW names, NEW index, ~IsClass(NoName, index)
    PROVE  \A x \in DOMAIN AttributeTypes(class, methods, names, index) :
              AttributeTypes(class, methods, names, index)[x] \in Types(index)
<1> DEFINE field(f) == [name |-> f.name, type |-> resolve_type_name(f.annotation, names, index)]
           assigned(method, a) ==
               [name |-> a.target,
                type |-> CASE a.kind = "call" -> ValueTypeFromCall(a.value, names, index)
                           [] a.kind = "name" ->
                                Lookup(ParameterTypes(method, names, index), Head(a.value))
                           [] OTHER -> NoName]
           attributes(method) == Only(method.assignments, {a \in ToSet(method.assignments) : a.attribute})
           within(method) == [i \in DOMAIN attributes(method) |-> assigned(method, attributes(method)[i])]
           fields == [i \in DOMAIN class.fields |-> field(class.fields[i])]
           lists == [i \in DOMAIN methods |-> within(methods[i])]
           candidates == fields \o FlattenSeq(lists)
           typed == {i \in DOMAIN candidates : candidates[i].type # NoName}
           types == AttributeTypes(class, methods, names, index)
<1>1. types = [x \in {candidates[i].name : i \in typed} |->
                 candidates[Min({i \in typed : candidates[i].name = x})].type]
  BY DEF AttributeTypes
<1> HIDE DEF types
<1>2. \A f : field(f).type \in Types(index)
  BY TypeNamesKnown
<1>3. \A method, a : assigned(method, a).type \in Types(index)
  <2> TAKE method, a
  <2>1. ValueTypeFromCall(a.value, names, index) \in Types(index)
    BY CallTypesKnown
  <2>2. Lookup(ParameterTypes(method, names, index), Head(a.value)) \in Types(index)
    BY ParameterTypesKnown DEF Lookup, Types
  <2>3. assigned(method, a).type = CASE a.kind = "call" -> ValueTypeFromCall(a.value, names, index)
                           [] a.kind = "name" ->
                                Lookup(ParameterTypes(method, names, index), Head(a.value))
                           [] OTHER -> NoName
    OBVIOUS
  <2> HIDE DEF assigned
  <2> QED  BY <2>1, <2>2, <2>3 DEF Types
<1> HIDE DEF field, assigned
<1>4. IsList(fields) /\ \A c \in ToSet(fields) : c.type \in Types(index)
  <2>1. /\ fields = [i \in DOMAIN class.fields |-> fields[i]]
        /\ \A i \in DOMAIN class.fields : fields[i].type \in Types(index)
    BY <1>2
  <2> HIDE DEF fields
  <2>2. IsList(fields) /\ ToSet(fields) = {fields[i] : i \in DOMAIN class.fields}
    BY <2>1, ListOfEach
  <2> QED  BY <2>1, <2>2
<1>5. ASSUME NEW method \in ToSet(methods)
      PROVE  IsList(within(method)) /\ \A c \in ToSet(within(method)) : c.type \in Types(index)
  <2> DEFINE list == within(method)
             of == attributes(method)
  <2>1. IsList(of)
    BY OnlyIsList
  <2>2. list = [i \in DOMAIN of |-> list[i]] /\ \A i \in DOMAIN of : list[i].type \in Types(index)
    BY <1>3
  <2> HIDE DEF list, of
  <2>3. IsList(list) /\ ToSet(list) = {list[i] : i \in DOMAIN of}
    BY <2>1, <2>2, ListOfEach
  <2> QED  BY <2>2, <2>3 DEF list
<1> HIDE DEF within
<1>6. IsList(FlattenSeq(lists)) /\ \A c \in ToSet(FlattenSeq(lists)) : c.type \in Types(index)
  <2>1. /\ lists = [i \in DOMAIN methods |-> lists[i]]
        /\ \A i \in DOMAIN methods : methods[i] \in ToSet(methods) /\ lists[i] = within(methods[i])
    BY DEF ToSet
  <2> HIDE DEF lists
  <2>2. \A i \in DOMAIN methods : IsList(lists[i])
    BY <1>5, <2>1
  <2>3. IsList(FlattenSeq(lists)) /\ ToSet(FlattenSeq(lists)) = UNION {ToSet(lists[i]) : i \in DOMAIN methods}
    BY <2>1, <2>2, ListsOfModules
  <2> QED  BY <1>5, <2>1, <2>3
<1>7. IsList(candidates) /\ \A c \in ToSet(candidates) : c.type \in Types(index)
  <2> HIDE DEF fields, lists
  <2>1. IsList(candidates) /\ ToSet(candidates) = ToSet(fields) \union ToSet(FlattenSeq(lists))
    BY <1>4, <1>6, ListsTogether
  <2> QED  BY <1>4, <1>6, <2>1
<1> HIDE DEF candidates
<1>8. PICK n \in Nat : DOMAIN candidates = 1 .. n
  BY <1>7 DEF IsList
<1>9. ASSUME NEW x \in DOMAIN types PROVE types[x] \in Types(index)
  <2> DEFINE having == {i \in typed : candidates[i].name = x}
             first == Min(having)
  <2>1. having \in SUBSET (1 .. n) /\ having # {}
    BY <1>1, <1>8
  <2>2. first \in having
    <3> HIDE DEF having
    <3> QED  BY <2>1, PartHasSmallest
  <2>3. types[x] = candidates[first].type
    BY <1>1
  <2> HIDE DEF first
  <2> QED  BY <1>7, <2>2, <2>3 DEF ToSet
<1> QED  BY <1>9 DEF types

\* ... in every class, ...
AttributesKnown(attributes, index) ==
    \A c \in DOMAIN attributes : \A x \in DOMAIN attributes[c] : attributes[c][x] \in Types(index)

\* The classes and functions of all modules, in one list each.
LEMMA ClassesOfModules ==
    ASSUME NEW loaded, FactsOK(loaded)
    PROVE  LET stored == Named(loaded)
               classes == FlattenSeq([i \in DOMAIN stored |-> stored[i].classes])
               functions == FlattenSeq([i \in DOMAIN stored |-> stored[i].functions])
           IN  /\ IsList(classes) /\ ToSet(classes) = ClassesIn(loaded)
               /\ IsList(functions) /\ ToSet(functions) = FunctionsIn(loaded)
<1> DEFINE stored == Named(loaded)
           ofclasses == [i \in DOMAIN stored |-> stored[i].classes]
           offunctions == [i \in DOMAIN stored |-> stored[i].functions]
<1>1. IsList(stored) /\ \A m \in ToSet(stored) : IsList(m.classes) /\ IsList(m.functions)
  BY NamedModules DEF FactsOK
<1>2. /\ ofclasses = [i \in DOMAIN stored |-> ofclasses[i]]
      /\ offunctions = [i \in DOMAIN stored |-> offunctions[i]]
      /\ \A i \in DOMAIN stored : /\ stored[i] \in ToSet(stored)
                                   /\ ofclasses[i] = stored[i].classes /\ offunctions[i] = stored[i].functions
  BY DEF ToSet
<1>3. ClassesIn(loaded) = UNION {ToSet(stored[i].classes) : i \in DOMAIN stored}
  BY DEF ClassesIn, ToSet
<1>4. FunctionsIn(loaded) = UNION {ToSet(stored[i].functions) : i \in DOMAIN stored}
  BY DEF FunctionsIn, ToSet
<1> HIDE DEF stored, ofclasses, offunctions
<1>5. /\ IsList(FlattenSeq(ofclasses))
      /\ ToSet(FlattenSeq(ofclasses)) = UNION {ToSet(ofclasses[i]) : i \in DOMAIN stored}
  BY <1>1, <1>2, ListsOfModules
<1>6. /\ IsList(FlattenSeq(offunctions))
      /\ ToSet(FlattenSeq(offunctions)) = UNION {ToSet(offunctions[i]) : i \in DOMAIN stored}
  BY <1>1, <1>2, ListsOfModules
<1>7. ToSet(FlattenSeq(ofclasses)) = ClassesIn(loaded)
  BY <1>2, <1>3, <1>5
<1>8. ToSet(FlattenSeq(offunctions)) = FunctionsIn(loaded)
  BY <1>2, <1>4, <1>6
<1> QED  BY <1>5, <1>6, <1>7, <1>8 DEF stored, ofclasses, offunctions

\* ... of a repository, ...
LEMMA ClassAttributesKnown ==
    ASSUME NEW loaded, FactsOK(loaded), WellNamed(loaded), NEW namespaces,
           NEW index, ~IsClass(NoName, index)
    PROVE  AttributesKnown(AttributesByClass(Named(loaded), namespaces, index), index)
<1> DEFINE stored == Named(loaded)
           classes == FlattenSeq([i \in DOMAIN stored |-> stored[i].classes])
           functions == FlattenSeq([i \in DOMAIN stored |-> stored[i].functions])
           methods(c) == Only(functions, {f \in ToSet(functions) : f.owner = c.qname})
           of(c) == AttributeTypes(c, methods(c), namespaces[c.module], index)
           types == [i \in DOMAIN classes |-> of(classes[i])]
           typed == {i \in DOMAIN classes : DOMAIN types[i] # {}}
           all == AttributesByClass(stored, namespaces, index)
<1>1. all = [q \in {classes[i].qname : i \in typed} |-> types[Max({i \in typed : classes[i].qname = q})]]
  BY DEF AttributesByClass
<1>2. /\ IsList(classes) /\ ToSet(classes) = ClassesIn(loaded)
      /\ IsList(functions) /\ ToSet(functions) = FunctionsIn(loaded)
  BY ClassesOfModules
<1> HIDE DEF classes, functions, all
<1>3. /\ \A c \in ClassesIn(loaded) : IsList(c.fields)
      /\ \A f \in FunctionsIn(loaded) : IsList(f.assignments)
  <2>1. ToSet(Named(loaded)) \subseteq ToSet(loaded)
    BY NamedModules DEF FactsOK
  <2> QED  BY <2>1 DEF WellNamed, ClassesIn, FunctionsIn
<1>4. ASSUME NEW c \in ToSet(classes)
      PROVE  \A x \in DOMAIN of(c) : of(c)[x] \in Types(index)
  <2>1. IsList(methods(c)) /\ ToSet(methods(c)) \subseteq FunctionsIn(loaded)
    BY <1>2, OnlyIsList
  <2> HIDE DEF methods
  <2>2. IsList(c.fields) /\ \A f \in ToSet(methods(c)) : IsList(f.assignments)
    BY <1>2, <1>3, <2>1
  <2> QED  BY <2>1, <2>2, AttributeTypesKnown
<1> HIDE DEF of
<1>5. PICK n \in Nat : DOMAIN classes = 1 .. n
  BY <1>2 DEF IsList
<1>6. ASSUME NEW q \in DOMAIN all PROVE \A x \in DOMAIN all[q] : all[q][x] \in Types(index)
  <2> DEFINE having == {i \in typed : classes[i].qname = q}
             last == Max(having)
  <2>1. having \in SUBSET (1 .. n) /\ having # {}
    BY <1>1, <1>5
  <2>2. last \in having
    <3> HIDE DEF having
    <3> QED  BY <2>1, PartHasLargest
  <2>3. all[q] = types[last]
    BY <1>1
  <2>4. last \in DOMAIN classes /\ classes[last] \in ToSet(classes)
    <3> HIDE DEF last
    <3> QED  BY <2>2 DEF ToSet
  <2> HIDE DEF last
  <2>5. all[q] = of(classes[last])
    BY <2>3, <2>4
  <2> QED  BY <1>4, <2>4, <2>5
<1> QED  BY <1>6 DEF AttributesKnown, all

\* ... and so is the type of an attribute, inherited or not.
LEMMA AttributesOfWalk ==
    ASSUME NEW context, HierarchyOK(context), AttributesKnown(context.attributes, context.index),
           NEW class, NEW attribute
    PROVE  resolve_attribute_type(class, attribute, context) \in Types(context.index)
<1> DEFINE walk == Walk(class, context)
           has == {c \in ToSet(walk) : attribute \in DOMAIN Lookup(context.attributes, c)}
           having == Only(walk, has)
<1>1. IsList(walk)
  <2>1. walk \in Seq(ClassesFrom(class, context))
    BY WalkVisits
  <2> HIDE DEF walk
  <2> QED  BY <2>1, SequencesAreLists
<1>2. resolve_attribute_type(class, attribute, context) =
         IF having = <<>> THEN NoName ELSE context.attributes[Head(having)][attribute]
  BY DEF resolve_attribute_type, FirstAttribute
<1>3. IsList(having) /\ ToSet(having) = has
  <2> HIDE DEF walk
  <2> QED  BY <1>1, OnlyIsList
<1> HIDE DEF having
<1>4. CASE having = <<>>
  BY <1>2, <1>4 DEF Types
<1>5. CASE having # <<>>
  <2>1. Head(having) \in has
    BY <1>3, <1>5, HeadAndTail DEF IsList
  <2>2. attribute \in DOMAIN Lookup(context.attributes, Head(having))
    BY <2>1
  <2>3. Head(having) \in DOMAIN context.attributes /\ attribute \in DOMAIN context.attributes[Head(having)]
    BY <2>2 DEF Lookup, NoName
  <2> QED  BY <1>2, <1>5, <2>3 DEF AttributesKnown
<1> QED  BY <1>4, <1>5

\* The facts of a repository, and what a scope calls in it.
Facts(loaded) == FactsOK(loaded) /\ WellNamed(loaded)

TypesKnown(types, index) == \A v \in DOMAIN types : types[v] \in Types(index)

ContextKnown(context) ==
    /\ HierarchyOK(context) /\ ~IsClass(NoName, context.index)
    /\ AttributesKnown(context.attributes, context.index)

\* An assignment leaves the types of variables known, ...
LEMMA AssignedTypesKnown ==
    ASSUME NEW context, ContextKnown(context), NEW function, NEW a, NEW types,
           TypesKnown(types, context.index)
    PROVE  /\ TypeAssigned(types, a, function, context) \in Types(context.index)
           /\ TypesKnown(Assigned(types, a, function, context), context.index)
<1> DEFINE type == TypeAssigned(types, a, function, context)
           new == IF a.target \in DOMAIN types /\ types[a.target] # type THEN NoName ELSE type
<1>1. type \in Types(context.index)
  <2>1. ValueTypeFromCall(a.value, context.namespaces[function.module], context.index) \in Types(context.index)
    BY CallTypesKnown DEF ContextKnown
  <2>2. resolve_attribute_type(function.owner, a.value[2], context) \in Types(context.index)
    BY AttributesOfWalk DEF ContextKnown
  <2>3. Lookup(types, Head(a.value)) \in Types(context.index) /\ NoName \in Types(context.index)
    BY DEF TypesKnown, Lookup, Types
  <2>4. \/ type = ValueTypeFromCall(a.value, context.namespaces[function.module], context.index)
        \/ type = Lookup(types, Head(a.value))
        \/ type = resolve_attribute_type(function.owner, a.value[2], context)
        \/ type = NoName
    BY DEF TypeAssigned
  <2> HIDE DEF type
  <2> QED  BY <2>1, <2>2, <2>3, <2>4
<1> HIDE DEF type
<1>2. new \in Types(context.index)
  BY <1>1 DEF Types
<1>3. Assigned(types, a, function, context) \in {types, WithType(types, a.target, new)}
  BY DEF Assigned, OneType, type
<1> HIDE DEF new
<1>4. TypesKnown(WithType(types, a.target, new), context.index)
  BY <1>2 DEF WithType, TypesKnown
<1> QED  BY <1>1, <1>3, <1>4 DEF type

\* ... and so do all of a function.
LEMMA LocalTypesKnown ==
    ASSUME NEW context, ContextKnown(context), NEW function, IsList(function.assignments)
    PROVE  TypesKnown(LocalTypes(function, context), context.index)
<1> DEFINE After == TypesAfter(function, context)
           N == Len(function.assignments)
           S == {k \in 0 .. N : TypesKnown(After[k], context.index)}
<1>0. N \in Nat
  BY DEF IsList
<1>1. 0 \in S
  <2>1. After[0] = ParameterTypes(function, context.namespaces[function.module], context.index)
    BY <1>0, TypesLevels
  <2> HIDE DEF After, N
  <2>2. TypesKnown(After[0], context.index)
    BY <2>1, ParameterTypesKnown DEF TypesKnown, ContextKnown
  <2> QED  BY <1>0, <2>2
<1>2. ASSUME NEW k \in 0 .. (N - 1), k \in S PROVE k + 1 \in S
  <2>1. After[k + 1] = Assigned(After[k], function.assignments[k + 1], function, context)
    BY <1>0, TypesLevels
  <2>2. k + 1 \in 0 .. N
    BY <1>0
  <2> HIDE DEF After, N
  <2> QED  BY <1>2, <2>1, <2>2, AssignedTypesKnown
<1>3. TypesKnown(After[N], context.index)
  <2>1. N \in 0 .. N
    BY <1>0
  <2>2. 0 .. N \subseteq S
    <3> HIDE DEF S, N
    <3> QED  BY <1>0, <1>1, <1>2, UpTo
  <2> QED  BY <2>1, <2>2
<1>4. LocalTypes(function, context) = WithKnownType(After[N])
  BY DEF LocalTypes
<1> HIDE DEF After, N
<1> QED  BY <1>3, <1>4 DEF WithKnownType, Restrict, TypesKnown

\* The types of a function's variables are those of some function of its name.
LEMMA LocalsOf ==
    ASSUME NEW loaded, FactsOK(loaded), NEW context
    PROVE  LET locals == LocalsByFunction(Named(loaded), context)
           IN  \A q \in DOMAIN locals :
                  \E f \in FunctionsIn(loaded) : f.qname = q /\ locals[q] = LocalTypes(f, context)
<1> DEFINE stored == Named(loaded)
           functions == FlattenSeq([i \in DOMAIN stored |-> stored[i].functions])
           types == [i \in DOMAIN functions |-> LocalTypes(functions[i], context)]
           typed == {i \in DOMAIN functions : DOMAIN types[i] # {}}
           locals == LocalsByFunction(stored, context)
<1>1. locals = [q \in {functions[i].qname : i \in typed} |->
                  types[Max({i \in typed : functions[i].qname = q})]]
  BY DEF LocalsByFunction
<1>2. IsList(functions) /\ ToSet(functions) = FunctionsIn(loaded)
  BY ClassesOfModules
<1> HIDE DEF functions, locals
<1>3. PICK n \in Nat : DOMAIN functions = 1 .. n
  BY <1>2 DEF IsList
<1>4. ASSUME NEW q \in DOMAIN locals
      PROVE  \E f \in FunctionsIn(loaded) : f.qname = q /\ locals[q] = LocalTypes(f, context)
  <2> DEFINE having == {i \in typed : functions[i].qname = q}
             last == Max(having)
  <2>1. having \in SUBSET (1 .. n) /\ having # {}
    BY <1>1, <1>3
  <2>2. last \in having
    <3> HIDE DEF having
    <3> QED  BY <2>1, PartHasLargest
  <2>3. locals[q] = types[last]
    BY <1>1
  <2>4. last \in DOMAIN functions /\ functions[last].qname = q /\ functions[last] \in ToSet(functions)
    <3> HIDE DEF last
    <3> QED  BY <2>2 DEF ToSet
  <2> HIDE DEF last
  <2> QED  BY <1>2, <2>3, <2>4
<1> QED  BY <1>4 DEF locals

\* What a context is made of.
LEMMA ContextParts ==
    ASSUME NEW loaded
    PROVE  LET context == Context(loaded)
               index == RepositoryIndex(loaded)
               known == [index |-> index, namespaces |-> context.namespaces, attributes |-> context.attributes]
           IN  /\ context.index = index
               /\ context.namespaces = Namespaces(Named(loaded), index)
               /\ context.attributes = AttributesByClass(Named(loaded), context.namespaces, index)
               /\ context.locals = LocalsByFunction(Named(loaded), known)
  BY DEF Context, WithNamespaces, WithAttributes, WithLocals

\* Classes have names.
LEMMA NoNameIsNoClass ==
    ASSUME NEW loaded, Facts(loaded)
    PROVE  \A q : IsClass(q, RepositoryIndex(loaded)) => IsList(q) /\ q # NoName
<1> SUFFICES ASSUME NEW q, IsClass(q, RepositoryIndex(loaded)) PROVE IsList(q) /\ q # NoName
  OBVIOUS
<1>1. PICK c \in ClassesIn(loaded) : c.qname = q
  BY IndexKnows DEF Facts
<1>2. ToSet(Named(loaded)) \subseteq ToSet(loaded)
  BY NamedModules DEF Facts, FactsOK
<1>3. NamedIn(c)
  BY <1>2 DEF Facts, WellNamed, ClassesIn
<1> QED  BY <1>1, <1>3, NamesEnd

\* The types of attributes and variables of a repository are known classes.
LEMMA TypesOfContext ==
    ASSUME NEW loaded, Facts(loaded)
    PROVE  LET context == Context(loaded)
           IN  /\ ContextKnown(context)
               /\ \A q : TypesKnown(Lookup(context.locals, q), context.index)
<1> DEFINE context == Context(loaded)
           index == RepositoryIndex(loaded)
           known == [index |-> index, namespaces |-> context.namespaces, attributes |-> context.attributes]
<1>1. /\ context.index = index
      /\ context.attributes = AttributesByClass(Named(loaded), context.namespaces, index)
      /\ context.locals = LocalsByFunction(Named(loaded), known)
  BY ContextParts
<1>2. ~IsClass(NoName, index)
  BY NoNameIsNoClass
<1>3. /\ known.index = index /\ known.namespaces = context.namespaces /\ known.attributes = context.attributes
  OBVIOUS
<1> HIDE DEF context, known, index
<1>4. AttributesKnown(context.attributes, index)
  BY <1>1, <1>2, ClassAttributesKnown DEF Facts
<1>5. ContextKnown(context)
  <2>1. HierarchyOK(context)
    BY <1>1, FactsMakeHierarchy DEF Facts, index
  <2> QED  BY <1>1, <1>2, <1>4, <2>1 DEF ContextKnown
<1>6. ContextKnown(known)
  <2>1. HierarchyOK(known)
    BY <1>3, FactsMakeHierarchy DEF Facts, index
  <2> QED  BY <1>2, <1>3, <1>4, <2>1 DEF ContextKnown
<1>7. ASSUME NEW q PROVE TypesKnown(Lookup(context.locals, q), index)
  <2>1. CASE q \notin DOMAIN context.locals
    BY <2>1 DEF Lookup, NoName, TypesKnown
  <2>2. CASE q \in DOMAIN context.locals
    <3>1. PICK f \in FunctionsIn(loaded) : context.locals[q] = LocalTypes(f, known)
      BY <1>1, <2>2, LocalsOf DEF Facts
    <3>2. IsList(f.assignments)
      <4>1. ToSet(Named(loaded)) \subseteq ToSet(loaded)
        BY NamedModules DEF Facts, FactsOK
      <4> QED  BY <4>1 DEF Facts, WellNamed, FunctionsIn
    <3>3. TypesKnown(LocalTypes(f, known), known.index)
      BY <1>6, <3>2, LocalTypesKnown
    <3> QED  BY <1>3, <2>2, <3>1, <3>3 DEF Lookup
  <2> QED  BY <2>1, <2>2
<1> QED  BY <1>1, <1>5, <1>7 DEF context

\* What a call resolves to has the name called, unless that is a plain name that stands for
\* something else.
LEMMA CalledNames ==
    ASSUME NEW loaded, Facts(loaded), NEW owner, IsList(owner), NEW locals,
           TypesKnown(locals, Context(loaded).index), NEW names, NEW callee,
           resolve_call(owner, locals, names, callee, Context(loaded)) # NoName
    PROVE  LET called == resolve_call(owner, locals, names, callee, Context(loaded))
               own == Head(callee) \in Receivers /\ owner # NoName
           IN  \/ ~own /\ Len(callee) = 1 /\ called = Lookup(names, Head(callee))
               \/ \E c : IsList(c) /\ called = Append(c, Last(callee)) /\ IsFunction(called, Context(loaded).index)
<1> DEFINE context == Context(loaded)
           called == resolve_call(owner, locals, names, callee, context)
           own == Head(callee) \in Receivers /\ owner # NoName
           known == Lookup(names, Head(callee))
           class == ReceiverClass(own, owner, locals, known, callee, context)
<1>1. ContextKnown(context) /\ context.index = RepositoryIndex(loaded)
  BY TypesOfContext, ContextParts
<1>2. CASE ~own /\ Len(callee) = 1
  BY <1>2 DEF resolve_call
<1>3. CASE ~(~own /\ Len(callee) = 1)
  <2>1. called = MethodOn(class, Last(callee), context)
    BY <1>3 DEF resolve_call
  <2>2. class \in Types(context.index) \union {owner}
    <3>1. resolve_attribute_type(owner, callee[2], context) \in Types(context.index)
      BY <1>1, AttributesOfWalk DEF ContextKnown
    <3>2. Lookup(locals, Head(callee)) \in Types(context.index) /\ NoName \in Types(context.index)
      BY DEF TypesKnown, Lookup, Types
    <3>3. IsClass(known, context.index) => known \in Types(context.index)
      BY DEF IsClass, Types
    <3>4. \/ class = owner
          \/ class = resolve_attribute_type(owner, callee[2], context)
          \/ class = known /\ IsClass(known, context.index)
          \/ class = Lookup(locals, Head(callee))
          \/ class = NoName
      BY DEF ReceiverClass
    <3> HIDE DEF class, known, context, own
    <3> QED  BY <3>1, <3>2, <3>3, <3>4
  <2> HIDE DEF class, called
  <2>3. class # NoName /\ called = FirstMethod(Walk(class, context), Last(callee), context.index)
    BY <2>1 DEF MethodOn, resolve_method_on_class, called
  <2>4. \A c \in ClassesFrom(class, context) : IsList(c)
    <3>1. \A c \in DOMAIN context.index.classes : IsList(c)
      BY <1>1, NoNameIsNoClass DEF IsClass
    <3> QED  BY <2>2, <2>3, <3>1 DEF ClassesFrom, Types
  <2> HIDE DEF context
  <2>5. Walk(class, context) \in Seq(ClassesFrom(class, context))
    BY <1>1, WalkVisits DEF ContextKnown
  <2>6. PICK i \in DOMAIN Walk(class, context) :
           /\ IsFunction(Append(Walk(class, context)[i], Last(callee)), context.index)
           /\ called = Append(Walk(class, context)[i], Last(callee))
    BY <2>3, <2>5, FirstMethodFound DEF called, context
  <2>7. IsList(Walk(class, context)[i])
    BY <2>4, <2>5
  <2> QED  BY <2>6, <2>7 DEF called, context
<1> QED  BY <1>2, <1>3

-----------------------------------------------------------------------------
(* Relationships and entities.                                             *)

\* A scope of a module: its calls and the class that it is a method of.
ScopeOf(m, scope, sites, owner) ==
    \/ scope = ModuleRef(m.name) /\ sites = m.calls /\ owner = NoName
    \/ \E f \in ToSet(m.functions) :
          scope = Ref("FUNCTION", f.qname) /\ sites = f.calls /\ owner = f.owner

LocalsOfScope(scope, context) == IF scope.kind = "MODULE" THEN <<>> ELSE Lookup(context.locals, scope.id)

\* What is called in it.
CalledIn(m, scope, sites, owner, context) ==
    ScopeCalls(sites, owner, LocalsOfScope(scope, context), context.namespaces[m.name], context)

\* The resolved functions and classes of a module.
LEMMA ResolvedParts ==
    ASSUME NEW m, NEW context
    PROVE  LET r == ResolvedModule(m, context)
               owner(f) == IF f.owner = NoName THEN ModuleRef(m.name) ELSE ClassRef(f.owner)
               function(f) == [name |-> f.qname, owner |-> owner(f),
                               calls |-> CalledIn(m, Ref("FUNCTION", f.qname), f.calls, f.owner, context)]
               class(c) == [name |-> c.qname, bases |-> ToSet(BasesOf(c, context))]
           IN  /\ r.name = m.name /\ r.path = m.path /\ r.test = m.test
               /\ r.calls = CalledIn(m, ModuleRef(m.name), m.calls, NoName, context)
               /\ r.functions = {function(f) : f \in ToSet(m.functions)}
               /\ r.classes = {class(c) : c \in ToSet(m.classes)}
<1>1. LocalsOfScope(ModuleRef(m.name), context) = <<>>
  BY DEF LocalsOfScope, ModuleRef, Ref
<1>2. \A q : LocalsOfScope(Ref("FUNCTION", q), context) = Lookup(context.locals, q)
  BY DEF LocalsOfScope, Ref
<1> QED  BY <1>1, <1>2 DEF ResolvedModule, CalledIn

\* The resolved modules are those with a name.
LEMMA ModulesResolved ==
    ASSUME NEW loaded
    PROVE  ResolvedModules(loaded) = {ResolvedModule(m, Context(loaded)) : m \in ToSet(Named(loaded))}
  BY DEF ResolvedModules, ResolvedWith

\* The calls edges are what the scopes of the modules call, but a scope itself.
LEMMA CallEdgesAre ==
    ASSUME NEW loaded, NEW r
    PROVE  r \in build_relationships(ResolvedModules(loaded)) /\ r.kind = "calls" <=>
              \E m \in ToSet(Named(loaded)) : \E scope, sites, owner :
                 /\ ScopeOf(m, scope, sites, owner)
                 /\ \E t \in CalledIn(m, scope, sites, owner, Context(loaded)) :
                       t.id # scope.id /\ r = Edge("calls", scope, t)
<1> DEFINE context == Context(loaded)
           resolved == ResolvedModules(loaded)
           Is(m, scope, sites, owner) ==
              /\ ScopeOf(m, scope, sites, owner)
              /\ \E t \in CalledIn(m, scope, sites, owner, context) :
                    t.id # scope.id /\ r = Edge("calls", scope, t)
           function(m, f) == [name |-> f.qname,
                              owner |-> IF f.owner = NoName THEN ModuleRef(m.name) ELSE ClassRef(f.owner),
                              calls |-> CalledIn(m, Ref("FUNCTION", f.qname), f.calls, f.owner, context)]
<1>1. resolved = {ResolvedModule(m, context) : m \in ToSet(Named(loaded))}
  BY ModulesResolved
<1>2. \A m : /\ ResolvedModule(m, context).name = m.name
             /\ ResolvedModule(m, context).calls = CalledIn(m, ModuleRef(m.name), m.calls, NoName, context)
             /\ ResolvedModule(m, context).functions = {function(m, f) : f \in ToSet(m.functions)}
  BY ResolvedParts
<1>f. \A m, f : /\ function(m, f).calls = CalledIn(m, Ref("FUNCTION", f.qname), f.calls, f.owner, context)
                /\ FunctionRef(function(m, f)) = Ref("FUNCTION", f.qname)
  BY DEF FunctionRef
<1> HIDE DEF resolved, context, function
<1>3. ASSUME r \in build_relationships(resolved), r.kind = "calls"
      PROVE  \E m \in ToSet(Named(loaded)) : \E scope, sites, owner : Is(m, scope, sites, owner)
  <2>1. PICK rm \in resolved : r \in EdgesOfModule(resolved, rm)
    BY <1>3, EdgesByModule
  <2>2. PICK m \in ToSet(Named(loaded)) : rm = ResolvedModule(m, context)
    BY <1>1
  <2>3. r \in CallEdges(rm)
    <3>1. r \notin ContainsEdges(rm) /\ r \notin ImportEdges(rm) /\ r \notin InheritsEdges(rm)
      BY <1>3 DEF ContainsEdges, ImportEdges, InheritsEdges, Edge
    <3>2. r \notin TestEdges(resolved, rm)
      BY <1>3, TestEdgeForms DEF Edge
    <3> QED  BY <2>1, <3>1, <3>2 DEF EdgesOfModule
  <2>4. CASE r \in CallsOf(ModuleRef(rm.name), rm.calls)
    <3>1. Is(m, ModuleRef(m.name), m.calls, NoName)
      BY <1>2, <2>2, <2>4 DEF CallsOf, ScopeOf
    <3> QED  BY <3>1
  <2>5. CASE \E f \in rm.functions : r \in CallsOf(FunctionRef(f), f.calls)
    <3>1. PICK f \in ToSet(m.functions) : r \in CallsOf(FunctionRef(function(m, f)), function(m, f).calls)
      BY <1>2, <2>2, <2>5
    <3>2. Is(m, Ref("FUNCTION", f.qname), f.calls, f.owner)
      BY <1>f, <3>1 DEF CallsOf, ScopeOf
    <3> QED  BY <3>2
  <2> QED  BY <2>3, <2>4, <2>5 DEF CallEdges
<1>4. ASSUME NEW m \in ToSet(Named(loaded)), NEW scope, NEW sites, NEW owner, Is(m, scope, sites, owner)
      PROVE  r \in build_relationships(resolved) /\ r.kind = "calls"
  <2> DEFINE rm == ResolvedModule(m, context)
  <2>1. rm \in resolved
    BY <1>1
  <2>2. PICK t \in CalledIn(m, scope, sites, owner, context) : t.id # scope.id /\ r = Edge("calls", scope, t)
    BY <1>4
  <2>3. CASE scope = ModuleRef(m.name) /\ sites = m.calls /\ owner = NoName
    <3>1. r \in CallsOf(ModuleRef(rm.name), rm.calls)
      BY <1>2, <2>2, <2>3 DEF CallsOf
    <3> HIDE DEF rm
    <3>2. r \in CallEdges(rm)
      BY <3>1 DEF CallEdges
    <3> QED  BY <2>1, <2>2, <3>2 DEF build_relationships, Edge
  <2>4. ASSUME NEW f \in ToSet(m.functions),
               scope = Ref("FUNCTION", f.qname), sites = f.calls, owner = f.owner
        PROVE  r \in build_relationships(resolved) /\ r.kind = "calls"
    <3>1. r \in CallsOf(FunctionRef(function(m, f)), function(m, f).calls)
      BY <1>f, <2>2, <2>4 DEF CallsOf
    <3>2. function(m, f) \in rm.functions
      BY <1>2
    <3> HIDE DEF rm
    <3>3. r \in CallEdges(rm)
      BY <3>1, <3>2 DEF CallEdges
    <3> QED  BY <2>1, <2>2, <3>3 DEF build_relationships, Edge
  <2> QED  BY <1>4, <2>3, <2>4 DEF ScopeOf
<1> QED  BY <1>3, <1>4 DEF resolved, context

\* A class contains its methods.
LEMMA MethodEdgesAre ==
    ASSUME NEW loaded, NEW r
    PROVE  r \in build_relationships(ResolvedModules(loaded)) /\ r.kind = "contains" /\ r.source.kind = "CLASS" <=>
              \E f \in FunctionsIn(loaded) :
                 f.owner # NoName /\ r = Edge("contains", ClassRef(f.owner), Ref("FUNCTION", f.qname))
<1> DEFINE context == Context(loaded)
           resolved == ResolvedModules(loaded)
           function(m, f) == [name |-> f.qname,
                              owner |-> IF f.owner = NoName THEN ModuleRef(m.name) ELSE ClassRef(f.owner),
                              calls |-> CalledIn(m, Ref("FUNCTION", f.qname), f.calls, f.owner, context)]
<1>1. resolved = {ResolvedModule(m, context) : m \in ToSet(Named(loaded))}
  BY ModulesResolved
<1>2. \A m : ResolvedModule(m, context).functions = {function(m, f) : f \in ToSet(m.functions)}
  BY ResolvedParts
<1>f. \A m, f : /\ function(m, f).owner = IF f.owner = NoName THEN ModuleRef(m.name) ELSE ClassRef(f.owner)
                /\ FunctionRef(function(m, f)) = Ref("FUNCTION", f.qname)
  BY DEF FunctionRef
<1> HIDE DEF resolved, context, function
<1>3. ASSUME r \in build_relationships(resolved), r.kind = "contains", r.source.kind = "CLASS"
      PROVE  \E f \in FunctionsIn(loaded) :
                f.owner # NoName /\ r = Edge("contains", ClassRef(f.owner), Ref("FUNCTION", f.qname))
  <2>1. PICK rm \in resolved : r \in EdgesOfModule(resolved, rm)
    BY <1>3, EdgesByModule
  <2>2. PICK m \in ToSet(Named(loaded)) : rm = ResolvedModule(m, context)
    BY <1>1
  <2>3. r \in ContainsEdges(rm)
    <3>1. r \notin CallEdges(rm) /\ r \notin ImportEdges(rm) /\ r \notin InheritsEdges(rm)
      BY <1>3 DEF CallEdges, CallsOf, ImportEdges, InheritsEdges, Edge
    <3>2. r \notin TestEdges(resolved, rm)
      BY <1>3, TestEdgeForms DEF Edge
    <3> QED  BY <2>1, <3>1, <3>2 DEF EdgesOfModule
  <2>4. PICK f \in rm.functions : r = Edge("contains", f.owner, FunctionRef(f))
    BY <1>3, <2>3 DEF ContainsEdges, Edge, FileRef, ModuleRef, Ref
  <2>5. PICK g \in ToSet(m.functions) : f = function(m, g)
    BY <1>2, <2>2
  <2>6. g \in FunctionsIn(loaded)
    BY DEF FunctionsIn
  <2>7. g.owner # NoName
    <3>1. r.source = f.owner /\ ModuleRef(m.name).kind = "MODULE"
      BY <2>4 DEF Edge, ModuleRef, Ref
    <3> QED  BY <1>3, <1>f, <2>5, <3>1
  <2> QED  BY <1>f, <2>4, <2>5, <2>6, <2>7
<1>4. ASSUME NEW f \in FunctionsIn(loaded), f.owner # NoName,
             r = Edge("contains", ClassRef(f.owner), Ref("FUNCTION", f.qname))
      PROVE  r \in build_relationships(resolved) /\ r.kind = "contains" /\ r.source.kind = "CLASS"
  <2>1. PICK m \in ToSet(Named(loaded)) : f \in ToSet(m.functions)
    BY DEF FunctionsIn
  <2> DEFINE rm == ResolvedModule(m, context)
  <2>2. rm \in resolved /\ function(m, f) \in rm.functions
    BY <1>1, <1>2, <2>1
  <2> HIDE DEF rm
  <2>3. r = Edge("contains", function(m, f).owner, FunctionRef(function(m, f)))
    BY <1>4, <1>f
  <2>4. r \in ContainsEdges(rm)
    BY <2>2, <2>3 DEF ContainsEdges
  <2> QED  BY <1>4, <2>2, <2>4 DEF build_relationships, Edge, ClassRef, Ref
<1> QED  BY <1>3, <1>4 DEF resolved

\* A class inherits from its known bases.
LEMMA InheritsEdgesAre ==
    ASSUME NEW loaded, NEW r
    PROVE  r \in build_relationships(ResolvedModules(loaded)) /\ r.kind = "inherits" <=>
              \E c \in ClassesIn(loaded) : \E b \in ToSet(BasesOf(c, Context(loaded))) :
                 r = Edge("inherits", ClassRef(c.qname), ClassRef(b))
<1> DEFINE context == Context(loaded)
           resolved == ResolvedModules(loaded)
           class(c) == [name |-> c.qname, bases |-> ToSet(BasesOf(c, context))]
<1>1. resolved = {ResolvedModule(m, context) : m \in ToSet(Named(loaded))}
  BY ModulesResolved
<1>2. \A m : ResolvedModule(m, context).classes = {class(c) : c \in ToSet(m.classes)}
  BY ResolvedParts
<1>c. \A c : class(c).name = c.qname /\ class(c).bases = ToSet(BasesOf(c, context))
  OBVIOUS
<1> HIDE DEF resolved, context, class
<1>3. ASSUME r \in build_relationships(resolved), r.kind = "inherits"
      PROVE  \E c \in ClassesIn(loaded) : \E b \in ToSet(BasesOf(c, context)) :
                r = Edge("inherits", ClassRef(c.qname), ClassRef(b))
  <2>1. PICK rm \in resolved : r \in EdgesOfModule(resolved, rm)
    BY <1>3, EdgesByModule
  <2>2. PICK m \in ToSet(Named(loaded)) : rm = ResolvedModule(m, context)
    BY <1>1
  <2>3. r \in InheritsEdges(rm)
    <3>1. r \notin CallEdges(rm) /\ r \notin ImportEdges(rm) /\ r \notin ContainsEdges(rm)
      BY <1>3 DEF CallEdges, CallsOf, ImportEdges, ContainsEdges, Edge
    <3>2. r \notin TestEdges(resolved, rm)
      BY <1>3, TestEdgeForms DEF Edge
    <3> QED  BY <2>1, <3>1, <3>2 DEF EdgesOfModule
  <2>4. PICK rc \in rm.classes : \E b \in rc.bases : r = Edge("inherits", ClassRef(rc.name), ClassRef(b))
    BY <2>3 DEF InheritsEdges
  <2>5. PICK c \in ToSet(m.classes) : rc = class(c)
    BY <1>2, <2>2
  <2>6. c \in ClassesIn(loaded)
    BY DEF ClassesIn
  <2> QED  BY <1>c, <2>4, <2>5, <2>6
<1>4. ASSUME NEW c \in ClassesIn(loaded), NEW b \in ToSet(BasesOf(c, context)),
             r = Edge("inherits", ClassRef(c.qname), ClassRef(b))
      PROVE  r \in build_relationships(resolved) /\ r.kind = "inherits"
  <2>1. PICK m \in ToSet(Named(loaded)) : c \in ToSet(m.classes)
    BY DEF ClassesIn
  <2> DEFINE rm == ResolvedModule(m, context)
  <2>2. rm \in resolved /\ class(c) \in rm.classes
    BY <1>1, <1>2, <2>1
  <2> HIDE DEF rm
  <2>3. r \in InheritsEdges(rm)
    BY <1>4, <1>c, <2>2 DEF InheritsEdges
  <2> QED  BY <1>4, <2>2, <2>3 DEF build_relationships, Edge
<1> QED  BY <1>3, <1>4 DEF resolved, context

\* A reference is its kind and its name.
LEMMA RefsAreEqual ==
    ASSUME NEW kind, NEW name, NEW other, NEW another
    PROVE  Ref(kind, name) = Ref(other, another) <=> kind = other /\ name = another
<1>1. \A k, n : Ref(k, n).kind = k /\ Ref(k, n).id = n
  BY DEF Ref
<1> QED  BY <1>1

\* The entities of resolved modules.
LEMMA EntityForms ==
    ASSUME NEW resolved, NEW e
    PROVE  e \in EntitiesOf(resolved) <=>
              \E r \in resolved :
                 \/ e = Ref("FILE", r.path)
                 \/ e = Ref("MODULE", r.name)
                 \/ \E c \in r.classes : e = Ref("CLASS", c.name)
                 \/ \E f \in r.functions : e = Ref("FUNCTION", f.name)
<1>1. e \in EntitiesOf(resolved) <=>
         \E r \in resolved :
            \/ e \in {FileRef(r), ModuleRef(r.name)}
            \/ e \in {ClassRef(c.name) : c \in r.classes}
            \/ e \in {FunctionRef(f) : f \in r.functions}
  BY DEF EntitiesOf
<1>2. ASSUME NEW r
      PROVE  /\ e \in {FileRef(r), ModuleRef(r.name)} <=> e = Ref("FILE", r.path) \/ e = Ref("MODULE", r.name)
             /\ e \in {ClassRef(c.name) : c \in r.classes} <=> \E c \in r.classes : e = Ref("CLASS", c.name)
             /\ e \in {FunctionRef(f) : f \in r.functions} <=> \E f \in r.functions : e = Ref("FUNCTION", f.name)
  <2>1. e \in {FileRef(r), ModuleRef(r.name)} <=> e = Ref("FILE", r.path) \/ e = Ref("MODULE", r.name)
    BY DEF FileRef, ModuleRef
  <2>2. e \in {ClassRef(c.name) : c \in r.classes} <=> \E c \in r.classes : e = Ref("CLASS", c.name)
    BY DEF ClassRef
  <2>3. e \in {FunctionRef(f) : f \in r.functions} <=> \E f \in r.functions : e = Ref("FUNCTION", f.name)
    BY DEF FunctionRef
  <2> QED  BY <2>1, <2>2, <2>3
<1> DEFINE Is(r) == \/ e \in {FileRef(r), ModuleRef(r.name)}
                    \/ e \in {ClassRef(c.name) : c \in r.classes}
                    \/ e \in {FunctionRef(f) : f \in r.functions}
           Has(r) == \/ e = Ref("FILE", r.path)
                     \/ e = Ref("MODULE", r.name)
                     \/ \E c \in r.classes : e = Ref("CLASS", c.name)
                     \/ \E f \in r.functions : e = Ref("FUNCTION", f.name)
<1>3. \A r : Is(r) <=> Has(r)
  BY <1>2
<1>4. e \in EntitiesOf(resolved) <=> \E r \in resolved : Is(r)
  BY <1>1
<1> HIDE DEF Is, Has
<1>5. e \in EntitiesOf(resolved) <=> \E r \in resolved : Has(r)
  BY <1>3, <1>4
<1> QED  BY <1>5 DEF Has

\* The entities of a snapshot: modules, functions and classes of the facts.
LEMMA EntitiesAre ==
    ASSUME NEW files, NEW loaded, FactsOK(loaded)
    PROVE  LET entities == SnapshotOf(files, loaded).entities
           IN  /\ \A n : ModuleRef(n) \in entities <=> \E m \in ToSet(Named(loaded)) : m.name = n
               /\ \A q : Ref("FUNCTION", q) \in entities <=> IsFunction(q, RepositoryIndex(loaded))
               /\ \A q : ClassRef(q) \in entities <=> IsClass(q, RepositoryIndex(loaded))
<1> DEFINE resolved == ResolvedModules(loaded)
           context == Context(loaded)
           index == RepositoryIndex(loaded)
<1>1. resolved = {ResolvedModule(m, context) : m \in ToSet(Named(loaded))}
  BY ModulesResolved
<1>2. \A m : LET r == ResolvedModule(m, context) IN
             /\ r.name = m.name
             /\ {c.name : c \in r.classes} = {c.qname : c \in ToSet(m.classes)}
             /\ {f.name : f \in r.functions} = {f.qname : f \in ToSet(m.functions)}
  BY ResolvedFields
<1>3. /\ \A q : IsFunction(q, index) <=> \E f \in FunctionsIn(loaded) : f.qname = q
      /\ \A q : IsClass(q, index) <=> \E c \in ClassesIn(loaded) : c.qname = q
  BY IndexKnows
<1>4. SnapshotOf(files, loaded).entities
         = EntitiesOf(resolved) \union {Ref("FILE", files[i].path) : i \in DOMAIN files}
  BY DEF SnapshotOf, SnapshotWith
<1> HIDE DEF resolved, context, index
<1>5. \A e : e.kind # "FILE" => (e \in SnapshotOf(files, loaded).entities <=> e \in EntitiesOf(resolved))
  BY <1>4 DEF Ref
<1>6. ASSUME NEW n PROVE ModuleRef(n) \in EntitiesOf(resolved) <=> \E m \in ToSet(Named(loaded)) : m.name = n
  <2>1. ModuleRef(n) \in EntitiesOf(resolved) <=> \E r \in resolved : r.name = n
    BY EntityForms, RefsAreEqual DEF ModuleRef, ClassRef
  <2> QED  BY <1>1, <1>2, <2>1
<1>7. ASSUME NEW q PROVE Ref("FUNCTION", q) \in EntitiesOf(resolved) <=> IsFunction(q, index)
  <2>1. Ref("FUNCTION", q) \in EntitiesOf(resolved) <=> \E r \in resolved : q \in {f.name : f \in r.functions}
    <3>1. Ref("FUNCTION", q) \in EntitiesOf(resolved) <=> \E r \in resolved : \E f \in r.functions : q = f.name
      <4> DEFINE e == Ref("FUNCTION", q)
      <4>1. e \in EntitiesOf(resolved) <=>
               \E r \in resolved :
                  \/ e = Ref("FILE", r.path)
                  \/ e = Ref("MODULE", r.name)
                  \/ \E c \in r.classes : e = Ref("CLASS", c.name)
                  \/ \E f \in r.functions : e = Ref("FUNCTION", f.name)
        BY EntityForms
      <4>2. \A n : /\ e # Ref("FILE", n) /\ e # Ref("MODULE", n) /\ e # Ref("CLASS", n)
                   /\ e = Ref("FUNCTION", n) <=> q = n
        BY RefsAreEqual
      <4> HIDE DEF e
      <4>3. e \in EntitiesOf(resolved) <=> \E r \in resolved : \E f \in r.functions : q = f.name
        BY <4>1, <4>2
      <4> QED  BY <4>3 DEF e
    <3> QED  BY <3>1
  <2>2. (\E r \in resolved : q \in {f.name : f \in r.functions})
           <=> \E m \in ToSet(Named(loaded)) : q \in {f.qname : f \in ToSet(m.functions)}
    BY <1>1, <1>2
  <2> QED  BY <1>3, <2>1, <2>2 DEF FunctionsIn
<1>8. ASSUME NEW q PROVE ClassRef(q) \in EntitiesOf(resolved) <=> IsClass(q, index)
  <2>1. ClassRef(q) \in EntitiesOf(resolved) <=> \E r \in resolved : q \in {c.name : c \in r.classes}
    BY EntityForms, RefsAreEqual DEF ModuleRef, ClassRef
  <2>2. (\E r \in resolved : q \in {c.name : c \in r.classes})
           <=> \E m \in ToSet(Named(loaded)) : q \in {c.qname : c \in ToSet(m.classes)}
    BY <1>1, <1>2
  <2> QED  BY <1>3, <2>1, <2>2 DEF ClassesIn
<1>9. \A q : ModuleRef(q).kind # "FILE" /\ Ref("FUNCTION", q).kind # "FILE" /\ ClassRef(q).kind # "FILE"
  BY DEF ModuleRef, ClassRef, Ref
<1> QED  BY <1>5, <1>6, <1>7, <1>8, <1>9 DEF index

-----------------------------------------------------------------------------
(* Every calls edge is written.                                            *)

\* The snapshot is that of a repository.
Derived ==
    /\ repository \in Repositories
    /\ modules = Named(FactsOf(repository))
    /\ snapshot = SnapshotOf(repository, modules)

\* Its facts are those of its files, ...
LEMMA DerivedFacts ==
    ASSUME Derived
    PROVE  /\ FilesOK(repository) /\ Facts(modules)
           /\ ToSet(Named(modules)) = {FactFile(file) : file \in {x \in ToSet(repository) : NameOf(x) # NoName}}
           /\ \A file \in ToSet(repository) : FileOK(file)
           /\ snapshot.edges = build_relationships(ResolvedModules(modules))
<1>1. FilesOK(repository)
  BY RepositoriesAssumption DEF Derived, FilesOK
<1>2. /\ FactsOK(modules) /\ WellNamed(modules)
      /\ ToSet(Named(modules)) = {FactFile(file) : file \in {x \in ToSet(repository) : NameOf(x) # NoName}}
  BY <1>1, FactsOfFiles, FactsWellNamed DEF Derived
<1>3. snapshot.edges = build_relationships(ResolvedModules(modules))
  BY DEF Derived, SnapshotOf, SnapshotWith
<1> QED  BY <1>1, <1>2, <1>3 DEF FilesOK, Facts

\* ... and its entities are those of its facts.
LEMMA DerivedEntities ==
    ASSUME Derived
    PROVE  /\ \A n : ModuleRef(n) \in snapshot.entities <=> \E m \in ToSet(Named(modules)) : m.name = n
           /\ \A q : Ref("FUNCTION", q) \in snapshot.entities <=> IsFunction(q, RepositoryIndex(modules))
           /\ \A q : ClassRef(q) \in snapshot.entities <=> IsClass(q, RepositoryIndex(modules))
<1>1. FactsOK(modules) /\ snapshot.entities = SnapshotOf(repository, modules).entities
  BY DerivedFacts DEF Derived, Facts
<1> QED  BY <1>1, EntitiesAre

\* The calls of a scope are written in it.
LEMMA ScopeIsWritten ==
    ASSUME NEW file, FileOK(file), NEW scope, NEW sites, NEW owner, ScopeOf(FactFile(file), scope, sites, owner),
           NEW s \in sites
    PROVE  /\ file.parses /\ s \in WrittenIn(file, scope, "call")
           /\ IsList(owner) /\ IsList(s.fn) /\ s.fn # <<>>
<1> DEFINE m == FactFile(file)
<1>0. IsList(NoName)
  BY DEF IsList, NoName
<1>1. file.parses
  <2> SUFFICES ASSUME ~file.parses PROVE FALSE
    OBVIOUS
  <2>1. m.functions = <<>> /\ m.calls = {}
    BY FactsOfBroken
  <2>2. ToSet(<<>>) = {}
    BY DEF ToSet
  <2> HIDE DEF m
  <2> QED  BY <2>1, <2>2 DEF ScopeOf, m
<1>2. ASSUME scope = ModuleRef(m.name), sites = m.calls, owner = NoName
      PROVE  s \in WrittenIn(file, scope, "call") /\ IsList(owner)
  <2>1. m.name = NameOf(file) /\ m.calls = Sites(file.body)
    BY <1>1, FactsOfParsed
  <2> HIDE DEF m
  <2>2. IsBody(file, scope, file.body)
    BY <1>2, <2>1 DEF IsBody
  <2>3. s \in WrittenIn(file, scope, "call")
    BY <1>1, <1>2, <2>1, <2>2, BodiesAreWritten, SitesAreWritten
  <2> QED  BY <1>0, <1>2, <2>3
<1>3. ASSUME NEW f \in ToSet(m.functions), scope = Ref("FUNCTION", f.qname), sites = f.calls, owner = f.owner
      PROVE  s \in WrittenIn(file, scope, "call") /\ IsList(owner)
  <2>1. PICK w : IsWrittenAs(file, w, "def") /\ f = FunctionFact(file, w)
    BY FactsAreWritten
  <2>2. /\ f.qname = Append(w.scope.id, w.statement.name) /\ f.calls = Sites(w.statement.body)
        /\ f.owner = IF w.scope.kind = "CLASS" THEN w.scope.id ELSE NoName
    BY <2>1 DEF FunctionFact
  <2> HIDE DEF m
  <2>3. IsBody(file, scope, w.statement.body)
    BY <1>3, <2>1, <2>2 DEF IsBody, IsWrittenAs, Defined, IsDefinition
  <2>4. s \in WrittenIn(file, scope, "call")
    BY <1>1, <1>3, <2>2, <2>3, BodiesAreWritten, SitesAreWritten
  <2>5. IsList(owner)
    BY <1>0, <1>3, <2>1, <2>2 DEF IsWrittenAs
  <2> QED  BY <2>4, <2>5
<1>4. s \in WrittenIn(file, scope, "call") /\ IsList(owner)
  BY <1>2, <1>3 DEF ScopeOf
<1>5. IsList(s.fn) /\ s.fn # <<>>
  <2>1. PICK w \in Written(file) : w.statement = s /\ s.is = "call"
    BY <1>4 DEF WrittenIn
  <2> QED  BY <1>1, <2>1 DEF FileOK, StatementOK
<1> QED  BY <1>1, <1>4, <1>5

\* The types that a scope knows are known classes.
LEMMA LocalsAreKnown ==
    ASSUME NEW loaded, Facts(loaded), NEW scope
    PROVE  TypesKnown(LocalsOfScope(scope, Context(loaded)), Context(loaded).index)
<1>1. TypesKnown(<<>>, Context(loaded).index)
  BY DEF TypesKnown
<1> QED  BY <1>1, TypesOfContext DEF LocalsOfScope

\* A calls edge is a call written in a scope, resolved.
LEMMA EdgeIsCall ==
    ASSUME Derived, NEW r \in EdgesOf("calls")
    PROVE  \E file \in ToSet(repository) : \E scope, sites, owner : \E s \in sites :
              LET context == Context(modules)
                  called == resolve_call(owner, LocalsOfScope(scope, context),
                                         context.namespaces[NameOf(file)], s.fn, context)
              IN  /\ NameOf(file) # NoName /\ FileOK(file) /\ FactFile(file) \in ToSet(Named(modules))
                  /\ ScopeOf(FactFile(file), scope, sites, owner) /\ r.source = scope
                  /\ called # NoName /\ r.target = CalledEntity(called, context.index)
                  /\ r.target.id = called /\ called # scope.id
<1> DEFINE context == Context(modules)
<1>1. r \in build_relationships(ResolvedModules(modules)) /\ r.kind = "calls"
  BY DerivedFacts DEF EdgesOf
<1>2. PICK m \in ToSet(Named(modules)) : \E scope, sites, owner :
         /\ ScopeOf(m, scope, sites, owner)
         /\ \E t \in CalledIn(m, scope, sites, owner, context) : t.id # scope.id /\ r = Edge("calls", scope, t)
  BY <1>1, CallEdgesAre
<1>3. PICK scope, sites, owner :
         /\ ScopeOf(m, scope, sites, owner)
         /\ \E t \in CalledIn(m, scope, sites, owner, context) : t.id # scope.id /\ r = Edge("calls", scope, t)
  BY <1>2
<1>4. PICK t \in CalledIn(m, scope, sites, owner, context) : t.id # scope.id /\ r = Edge("calls", scope, t)
  BY <1>3
<1>5. PICK file \in ToSet(repository) : m = FactFile(file) /\ NameOf(file) # NoName
  BY DerivedFacts
<1>6. m.name = NameOf(file)
  BY <1>5 DEF FactFile, analyze_module, NameOf
<1> HIDE DEF context
<1>7. PICK s \in sites : LET called == resolve_call(owner, LocalsOfScope(scope, context),
                                         context.namespaces[NameOf(file)], s.fn, context)
                         IN called # NoName /\ t = CalledEntity(called, context.index)
  BY <1>4, <1>6 DEF CalledIn, ScopeCalls
<1>8. \A name : CalledEntity(name, context.index).id = name
  BY DEF CalledEntity, ClassRef, Ref
<1>9. r.source = scope /\ r.target = t
  BY <1>4 DEF Edge
<1> DEFINE called == resolve_call(owner, LocalsOfScope(scope, context),
                                  context.namespaces[NameOf(file)], s.fn, context)
<1>10. called # NoName /\ r.target = CalledEntity(called, context.index)
       /\ r.target.id = called /\ called # scope.id
  BY <1>4, <1>7, <1>8, <1>9
<1>11. FileOK(file)
  BY DerivedFacts
<1> QED  BY <1>3, <1>5, <1>9, <1>10, <1>11 DEF context

\* The names of a module of a repository.
LEMMA SpacesOf ==
    ASSUME Derived
    PROVE  LET spaces == Context(modules).namespaces
               index == RepositoryIndex(modules)
           IN  /\ DOMAIN spaces = {m.name : m \in ToSet(Named(modules))}
               /\ \A name \in DOMAIN spaces : IsSpaceOf(name, spaces[name], modules, index)
<1> DEFINE index == RepositoryIndex(modules)
           spaces == Context(modules).namespaces
<1>0. FactsOK(modules) /\ WellNamed(modules)
  BY DerivedFacts DEF Facts
<1>1. spaces = Namespaces(Named(modules), index)
  BY ContextParts
<1> QED  BY <1>0, <1>1, NamespacesOf

\* A name for what is in a module.
IsPartOfModule(name) ==
    \E module, part : /\ IsList(module) /\ ModuleRef(module) \in snapshot.entities
                      /\ name = Append(module, part)

\* A name of a module is imported, or the last of a qualified name, or a module.
LEMMA NamesAreWritten ==
    ASSUME Derived, NEW file \in ToSet(repository), FactFile(file) \in ToSet(Named(modules)), NEW x,
           Lookup(Context(modules).namespaces[NameOf(file)], x) # NoName
    PROVE  LET name == Lookup(Context(modules).namespaces[NameOf(file)], x)
           IN  \/ Last(name) = x
               \/ /\ \E other \in Sources : NameOf(other) = NameOf(file) /\ \E i \in ImportsOf(other) : i.alias = x
                  /\ IsPartOfModule(name)
               \/ ModuleRef(name) \in snapshot.entities
<1> DEFINE index == RepositoryIndex(modules)
           spaces == Context(modules).namespaces
           name == Lookup(spaces[NameOf(file)], x)
<1>0. FactsOK(modules) /\ WellNamed(modules)
  BY DerivedFacts DEF Facts
<1>2. FactFile(file).name = NameOf(file)
  BY DEF FactFile, analyze_module, NameOf
<1>a. /\ DOMAIN spaces = {m.name : m \in ToSet(Named(modules))}
      /\ \A n \in DOMAIN spaces : IsSpaceOf(n, spaces[n], modules, index)
  BY SpacesOf
<1>b. Lookup(spaces[NameOf(file)], x) # NoName
  OBVIOUS
<1> HIDE DEF index, spaces
<1>c. NameOf(file) \in DOMAIN spaces
  BY <1>2, <1>a
<1>3. PICK m \in ToSet(Named(modules)) : m.name = NameOf(file) /\ spaces[NameOf(file)] = LocalNames(m, index)
  BY <1>a, <1>c DEF IsSpaceOf
<1>4. PICK other \in ToSet(repository) : m = FactFile(other) /\ NameOf(other) # NoName
  BY DerivedFacts
<1>5. FactFile(other).name = NameOf(other) /\ FileOK(other)
  BY DerivedFacts DEF FactFile, analyze_module, NameOf
<1>6. m \in ToSet(modules)
  BY <1>0, NamedModules DEF FactsOK
<1>7. IsList(m.imports) /\ IsList(m.functions) /\ IsList(m.classes)
  BY <1>0, <1>6 DEF FactsOK, WellNamed
<1>8. x \in DOMAIN LocalNames(m, index) /\ name = LocalNames(m, index)[x]
  BY <1>3, <1>b DEF Lookup
<1> DEFINE own == {f \in ToSet(m.functions) : f.owner = NoName} \union ToSet(m.classes)
<1> HIDE DEF name
<1>9. \/ \E i \in ToSet(m.imports) : /\ BoundName(i) = x /\ ImportedModule(m, i, index) # NoName
                                     /\ name = Binding(i, ImportedModule(m, i, index), index)
      \/ \E s \in own : s.name = x /\ name = s.qname
  BY <1>7, <1>8, NamesOfModule
<1>10. ASSUME NEW s \in own, s.name = x, name = s.qname PROVE Last(name) = x
  <2>1. NamedIn(s)
    BY <1>0, <1>6 DEF WellNamed
  <2> QED  BY <1>10, <2>1, NamesEnd
<1>11. ASSUME NEW i \in ToSet(m.imports), BoundName(i) = x, ImportedModule(m, i, index) # NoName,
              name = Binding(i, ImportedModule(m, i, index), index)
       PROVE  \/ Last(name) = x
              \/ /\ \E o \in Sources : NameOf(o) = NameOf(file) /\ \E j \in ImportsOf(o) : j.alias = x
                 /\ IsPartOfModule(name)
              \/ ModuleRef(name) \in snapshot.entities
  <2> DEFINE source == ImportedModule(m, i, index)
  <2>1. source \in {k.name : k \in ToSet(Named(modules))}
    <3>1. index.modules = {k.name : k \in ToSet(Named(modules))}
      BY <1>0, IndexKnows DEF index
    <3> QED  BY <1>11, <3>1, ImportsAreKnown
  <2>2. IsList(source) /\ ModuleRef(source) \in snapshot.entities
    <3>1. PICK k \in ToSet(Named(modules)) : k.name = source
      BY <2>1
    <3>2. PICK o \in ToSet(repository) : k = FactFile(o)
      BY DerivedFacts
    <3>3. k.name = NameOf(o) /\ IsList(NameOf(o))
      BY <3>2, DerivedFacts, NamesAreLists DEF FactFile, analyze_module, NameOf
    <3> HIDE DEF source
    <3> QED  BY <3>1, <3>3, DerivedEntities
  <2>a. name = source \/ (i.name # "" /\ name = Append(source, i.name))
    BY <1>11 DEF Binding
  <2>b. ModuleRef(name) \in snapshot.entities \/ IsPartOfModule(name)
    <3> HIDE DEF source
    <3> QED  BY <2>2, <2>a DEF IsPartOfModule
  <2>3. CASE i.alias # ""
    <3>1. other.parses
      <4> SUFFICES ASSUME ~other.parses PROVE FALSE
        OBVIOUS
      <4>1. m.imports = <<>>
        BY <1>4, FactsOfBroken
      <4>2. ToSet(<<>>) = {}
        BY DEF ToSet
      <4> QED  BY <4>1, <4>2
    <3>2. i \in ImportsOf(other)
      BY <1>4, <1>5, <3>1, FactsOfParsed
    <3>3. other \in Sources /\ NameOf(other) = NameOf(file) /\ i.alias = x
      BY <1>3, <1>4, <1>5, <1>11, <2>3, <3>1 DEF Sources, BoundName
    <3> HIDE DEF source
    <3> QED  BY <2>b, <3>2, <3>3
  <2>4. CASE i.alias = ""
    <3> HIDE DEF source
    <3>2. ASSUME i.name # "", name = Append(source, i.name) PROVE Last(name) = x
      BY <1>11, <2>2, <2>4, <3>2, LastAdded DEF BoundName
    <3> QED  BY <2>2, <2>a, <3>2
  <2> QED  BY <2>3, <2>4
<1> QED  BY <1>9, <1>10, <1>11 DEF name, spaces

\* Every calls edge is a call written in the scope it leaves, of the name it goes to.
LEMMA EdgesWritten == ASSUME Derived PROVE EdgesAreWritten
<1> SUFFICES ASSUME NEW r \in EdgesOf("calls")
             PROVE  \E file \in Sources : \E c \in WrittenIn(file, r.source, "call") :
                       \/ Last(c.fn) = Last(r.target.id)
                       \/ \E other \in Sources : /\ NameOf(other) = NameOf(file)
                                                 /\ \E i \in ImportsOf(other) : i.alias = Last(c.fn)
                       \/ ModuleRef(r.target.id) \in snapshot.entities
  BY DEF EdgesAreWritten
<1> DEFINE context == Context(modules)
           Call(file, scope, owner, s) ==
              resolve_call(owner, LocalsOfScope(scope, context), context.namespaces[NameOf(file)], s.fn, context)
<1>1. PICK file \in ToSet(repository) : \E scope, sites, owner : \E s \in sites :
         /\ NameOf(file) # NoName /\ FileOK(file) /\ FactFile(file) \in ToSet(Named(modules))
         /\ ScopeOf(FactFile(file), scope, sites, owner) /\ r.source = scope
         /\ Call(file, scope, owner, s) # NoName
         /\ r.target.id = Call(file, scope, owner, s)
  BY EdgeIsCall
<1>2. PICK scope, sites, owner : \E s \in sites :
         /\ NameOf(file) # NoName /\ FileOK(file) /\ FactFile(file) \in ToSet(Named(modules))
         /\ ScopeOf(FactFile(file), scope, sites, owner) /\ r.source = scope
         /\ Call(file, scope, owner, s) # NoName
         /\ r.target.id = Call(file, scope, owner, s)
  BY <1>1
<1>3. PICK s \in sites :
         /\ NameOf(file) # NoName /\ FileOK(file) /\ FactFile(file) \in ToSet(Named(modules))
         /\ ScopeOf(FactFile(file), scope, sites, owner) /\ r.source = scope
         /\ Call(file, scope, owner, s) # NoName
         /\ r.target.id = Call(file, scope, owner, s)
  BY <1>2
<1>4. /\ file.parses /\ s \in WrittenIn(file, scope, "call")
      /\ IsList(owner) /\ IsList(s.fn) /\ s.fn # <<>>
  BY <1>3, ScopeIsWritten
<1>5. Facts(modules)
  BY DerivedFacts
<1>6. TypesKnown(LocalsOfScope(scope, context), context.index)
  BY <1>5, LocalsAreKnown
<1> DEFINE called == Call(file, scope, owner, s)
<1>7. \/ Len(s.fn) = 1 /\ called = Lookup(context.namespaces[NameOf(file)], Head(s.fn))
      \/ \E c : IsList(c) /\ called = Append(c, Last(s.fn))
  <2> DEFINE names == context.namespaces[NameOf(file)]
             locals == LocalsOfScope(scope, context)
  <2>1. resolve_call(owner, locals, names, s.fn, Context(modules)) # NoName
    BY <1>3
  <2>2. TypesKnown(locals, Context(modules).index)
    BY <1>6
  <2>3. called = resolve_call(owner, locals, names, s.fn, Context(modules))
    OBVIOUS
  <2>4. \/ Len(s.fn) = 1 /\ called = Lookup(names, Head(s.fn))
        \/ \E c : IsList(c) /\ called = Append(c, Last(s.fn))
    <3> DEFINE c0 == Context(modules)
               own == Head(s.fn) \in Receivers /\ owner # NoName
    <3> HIDE DEF names, locals, Call, context
    <3>1. \/ ~own /\ Len(s.fn) = 1 /\ resolve_call(owner, locals, names, s.fn, c0) = Lookup(names, Head(s.fn))
          \/ \E c : /\ IsList(c) /\ resolve_call(owner, locals, names, s.fn, c0) = Append(c, Last(s.fn))
                    /\ IsFunction(resolve_call(owner, locals, names, s.fn, c0), c0.index)
      BY <1>4, <1>5, <2>1, <2>2, CalledNames
    <3> QED  BY <2>3, <3>1
  <2> QED  BY <2>4
<1>8. CASE \E c : IsList(c) /\ called = Append(c, Last(s.fn))
  <2>1. Last(called) = Last(s.fn)
    BY <1>8, LastAdded
  <2> HIDE DEF Call
  <2> QED  BY <1>3, <1>4, <2>1 DEF Sources
<1>9. CASE Len(s.fn) = 1 /\ called = Lookup(context.namespaces[NameOf(file)], Head(s.fn))
  <2>1. Last(s.fn) = Head(s.fn)
    BY <1>4, <1>9 DEF Last, IsList
  <2> HIDE DEF Call
  <2>2. \/ Last(called) = Head(s.fn)
        \/ \E other \in Sources : NameOf(other) = NameOf(file) /\ \E i \in ImportsOf(other) : i.alias = Head(s.fn)
        \/ ModuleRef(called) \in snapshot.entities
    BY <1>3, <1>9, NamesAreWritten DEF context
  <2> QED  BY <1>3, <1>4, <2>1, <2>2 DEF Sources
<1> QED  BY <1>7, <1>8, <1>9

-----------------------------------------------------------------------------
(* Every call of a function of the same module is an edge.                 *)

\* What is defined once, is defined by one statement of one file.
LEMMA OneDefinition ==
    ASSUME NEW file \in Sources, NEW w \in Written(file), IsDefinition(w.statement),
           NEW other \in Sources, NEW v \in Written(other), IsDefinition(v.statement),
           Defined(v).id = Defined(w).id, DefinedOnce(Defined(w).id)
    PROVE  other = file /\ v = w
<1>1. Definition(file, w) \in AllDefinitions /\ Definition(other, v) \in AllDefinitions
  BY DEF AllDefinitions
<1>2. Definition(file, w) = Definition(other, v)
  BY <1>1 DEF DefinedOnce, Definition
<1>3. /\ Definition(file, w).file = file /\ Definition(other, v).file = other
      /\ Definition(file, w).by = {w} /\ Definition(other, v).by = {v}
  BY DEF Definition
<1> QED  BY <1>2, <1>3

\* A module that is defined once is that of one file.
LEMMA OneModule ==
    ASSUME NEW file \in ToSet(repository), NEW other \in ToSet(repository),
           NameOf(other) = NameOf(file), DefinedOnce(NameOf(file))
    PROVE  other = file
<1>1. ModuleDefinition(file) \in AllDefinitions /\ ModuleDefinition(other) \in AllDefinitions
  BY DEF AllDefinitions
<1>2. ModuleDefinition(file) = ModuleDefinition(other)
  BY <1>1 DEF DefinedOnce, ModuleDefinition
<1>3. ModuleDefinition(file).file = file /\ ModuleDefinition(other).file = other
  BY DEF ModuleDefinition
<1> QED  BY <1>2, <1>3

\* A scope that is known has the facts of its body.
LEMMA KnownBodies ==
    ASSUME Derived, NEW file \in Sources, NEW scope, NEW body, IsBody(file, scope, body), KnownScope(scope)
    PROVE  /\ NameOf(file) # NoName /\ FactFile(file) \in ToSet(Named(modules))
           /\ \/ scope = ModuleRef(NameOf(file)) /\ body = file.body
              \/ \E w \in Written(file) :
                    /\ IsWrittenAs(file, w, "def") /\ scope = Defined(w) /\ body = w.statement.body
                    /\ scope = Ref("FUNCTION", FunctionFact(file, w).qname)
                    /\ FunctionFact(file, w) \in ToSet(FactFile(file).functions)
<1>0. file \in ToSet(repository) /\ file.parses /\ FileOK(file)
  BY DerivedFacts DEF Sources
<1>1. ASSUME scope = ModuleRef(NameOf(file)), body = file.body
      PROVE  NameOf(file) # NoName /\ FactFile(file) \in ToSet(Named(modules))
  <2>1. PICK m \in ToSet(Named(modules)) : m.name = NameOf(file)
    BY <1>1, DerivedEntities DEF KnownScope
  <2>2. PICK other \in ToSet(repository) : m = FactFile(other) /\ NameOf(other) # NoName
    BY DerivedFacts
  <2>3. m.name = NameOf(other)
    BY <2>2 DEF FactFile, analyze_module, NameOf
  <2> QED  BY <1>0, <2>1, <2>2, <2>3, DerivedFacts
<1>2. ASSUME NEW v \in Written(file), IsDefinition(v.statement), scope = Defined(v), body = v.statement.body
      PROVE  /\ NameOf(file) # NoName /\ FactFile(file) \in ToSet(Named(modules))
             /\ IsWrittenAs(file, v, "def") /\ scope = Ref("FUNCTION", FunctionFact(file, v).qname)
             /\ FunctionFact(file, v) \in ToSet(FactFile(file).functions)
  <2>1. scope.kind \in {"MODULE", "FUNCTION"} /\ scope \in snapshot.entities /\ DefinedOnce(scope.id)
    BY DEF KnownScope
  <2>2. v.statement.is = "def" /\ scope = Ref("FUNCTION", Append(v.scope.id, v.statement.name))
    BY <1>2, <2>1 DEF Defined, ClassRef, Ref, IsDefinition
  <2>3. scope.id = Append(v.scope.id, v.statement.name)
    BY <2>2 DEF Ref
  <2>4. IsFunction(scope.id, RepositoryIndex(modules))
    BY <2>1, <2>2, <2>3, DerivedEntities
  <2>5. FactsOK(modules)
    BY DerivedFacts DEF Facts
  <2>6. PICK f \in FunctionsIn(modules) : f.qname = scope.id
    BY <2>4, <2>5, IndexKnows
  <2>7. PICK m \in ToSet(Named(modules)) : f \in ToSet(m.functions)
    BY DEF FunctionsIn
  <2>8. PICK other \in ToSet(repository) : m = FactFile(other) /\ NameOf(other) # NoName
    BY DerivedFacts
  <2>9. FileOK(other)
    BY DerivedFacts
  <2>10. PICK w : IsWrittenAs(other, w, "def") /\ f = FunctionFact(other, w)
    BY <2>7, <2>8, <2>9, FactsAreWritten
  <2>11. /\ other \in Sources /\ w \in Written(other) /\ w.statement.is = "def"
    BY <2>8, <2>10 DEF IsWrittenAs, Sources
  <2>12. f.qname = Append(w.scope.id, w.statement.name)
    BY <2>10 DEF FunctionFact
  <2>13. Defined(w).id = f.qname
    BY <2>11, <2>12 DEF Defined, Ref
  <2>14. IsDefinition(w.statement) /\ Defined(w).id = Defined(v).id /\ DefinedOnce(Defined(v).id)
    BY <1>2, <2>1, <2>6, <2>11, <2>13 DEF IsDefinition
  <2>15. other = file /\ w = v
    BY <1>2, <2>11, <2>14, OneDefinition
  <2>16. FunctionFact(file, v).qname = scope.id
    BY <2>6, <2>10, <2>15
  <2> QED  BY <2>2, <2>3, <2>7, <2>8, <2>10, <2>15, <2>16
<1>3. ASSUME scope = Ref("LAMBDA", NoName) PROVE FALSE
  BY <1>3 DEF KnownScope, Ref
<1> QED  BY <1>1, <1>2, <1>3 DEF IsBody

\* The calls written in a known scope are those of its facts.
LEMMA KnownScopes ==
    ASSUME Derived, NEW file \in Sources, NEW w \in Written(file), w.statement.is = "call", KnownScope(w.scope)
    PROVE  /\ NameOf(file) # NoName /\ FactFile(file) \in ToSet(Named(modules))
           /\ w.scope.kind = "MODULE" => w.scope = ModuleRef(NameOf(file))
           /\ \E sites, owner :
                 ScopeOf(FactFile(file), w.scope, sites, owner) /\ w.statement \in sites
<1>0. file \in ToSet(repository) /\ file.parses /\ FileOK(file)
  BY DerivedFacts DEF Sources
<1>1. PICK body : IsBody(file, w.scope, body) /\ w.statement \in Sites(body)
  BY <1>0, WrittenAreHeld
<1>2. /\ NameOf(file) # NoName /\ FactFile(file) \in ToSet(Named(modules))
      /\ \/ w.scope = ModuleRef(NameOf(file)) /\ body = file.body
         \/ \E v \in Written(file) :
               /\ IsWrittenAs(file, v, "def") /\ w.scope = Defined(v) /\ body = v.statement.body
               /\ w.scope = Ref("FUNCTION", FunctionFact(file, v).qname)
               /\ FunctionFact(file, v) \in ToSet(FactFile(file).functions)
  BY <1>1, KnownBodies
<1> DEFINE Goal == /\ w.scope.kind = "MODULE" => w.scope = ModuleRef(NameOf(file))
                   /\ \E sites, owner : ScopeOf(FactFile(file), w.scope, sites, owner) /\ w.statement \in sites
<1>3. CASE w.scope = ModuleRef(NameOf(file)) /\ body = file.body
  <2>1. FactFile(file).name = NameOf(file) /\ FactFile(file).calls = Sites(body)
    BY <1>0, <1>3, FactsOfParsed
  <2>2. ScopeOf(FactFile(file), w.scope, Sites(body), NoName)
    BY <1>3, <2>1 DEF ScopeOf
  <2>3. Goal
    BY <1>1, <1>3, <2>2
  <2> QED  BY <1>2, <2>3
<1>4. ASSUME NEW v \in Written(file), body = v.statement.body,
             w.scope = Ref("FUNCTION", FunctionFact(file, v).qname),
             FunctionFact(file, v) \in ToSet(FactFile(file).functions)
      PROVE  Goal
  <2>1. FunctionFact(file, v).calls = Sites(body)
    BY <1>4 DEF FunctionFact
  <2>2. ScopeOf(FactFile(file), w.scope, Sites(body), FunctionFact(file, v).owner)
    BY <1>4, <2>1 DEF ScopeOf
  <2>3. w.scope.kind = "FUNCTION"
    BY <1>4 DEF Ref
  <2> QED  BY <1>1, <2>2, <2>3
<1> QED  BY <1>2, <1>3, <1>4

\* A name of a module that is that of one of its functions, and of nothing else, stands for it.
LEMMA FunctionNamed ==
    ASSUME Derived, NEW file \in Sources, FactFile(file) \in ToSet(Named(modules)),
           DefinedOnce(NameOf(file)), NEW x, NamesFunctionOf(file, x)
    PROVE  /\ Lookup(Context(modules).namespaces[NameOf(file)], x) = Append(NameOf(file), x)
           /\ IsFunction(Append(NameOf(file), x), Context(modules).index)
<1> DEFINE index == RepositoryIndex(modules)
           spaces == Context(modules).namespaces
           fact == FactFile(file)
<1>0. /\ file \in ToSet(repository) /\ file.parses /\ FileOK(file)
      /\ FactsOK(modules) /\ WellNamed(modules)
  BY DerivedFacts DEF Sources, Facts
<1>1. Context(modules).index = index
  BY ContextParts
<1>2. fact.name = NameOf(file)
  BY DEF FactFile, analyze_module, NameOf
<1>3. /\ DOMAIN spaces = {m.name : m \in ToSet(Named(modules))}
      /\ \A n \in DOMAIN spaces : IsSpaceOf(n, spaces[n], modules, index)
  BY SpacesOf
<1>4. /\ IsList(fact.imports) /\ ToSet(fact.imports) = ImportsOf(file)
  BY <1>0, FactsOfParsed
<1>5. /\ IsList(fact.functions) /\ IsList(fact.classes)
      /\ \A f \in ToSet(fact.functions) : \E w : IsWrittenAs(file, w, "def") /\ f = FunctionFact(file, w)
      /\ \A c \in ToSet(fact.classes) : \E w : IsWrittenAs(file, w, "class") /\ c = ClassFact(file, w)
  BY <1>0, FactsAreWritten
<1> SUFFICES Lookup(spaces[NameOf(file)], x) = Append(NameOf(file), x)
             /\ IsFunction(Append(NameOf(file), x), index)
  BY <1>1
<1> HIDE DEF index, spaces, fact
<1>6. spaces[NameOf(file)] = LocalNames(fact, index)
  <2>1. PICK m \in ToSet(Named(modules)) : m.name = NameOf(file) /\ spaces[NameOf(file)] = LocalNames(m, index)
    BY <1>2, <1>3 DEF fact, IsSpaceOf
  <2>2. PICK other \in ToSet(repository) : m = FactFile(other)
    BY DerivedFacts
  <2>3. FactFile(other).name = NameOf(other)
    BY DEF FactFile, analyze_module, NameOf
  <2>4. other = file
    BY <1>0, <2>1, <2>2, <2>3, OneModule
  <2> QED  BY <2>1, <2>2, <2>4 DEF fact
<1> DEFINE bound(n) == {i \in ToSet(fact.imports) : BoundName(i) = n /\ ImportedModule(fact, i, index) # NoName}
           own(n) == {s \in {f \in ToSet(fact.functions) : f.owner = NoName} \union ToSet(fact.classes) : s.name = n}
<1>7. /\ x \in DOMAIN LocalNames(fact, index) <=> bound(x) # {} \/ own(x) # {}
      /\ x \in DOMAIN LocalNames(fact, index) =>
            \/ \E i \in bound(x) : LocalNames(fact, index)[x] = Binding(i, ImportedModule(fact, i, index), index)
            \/ bound(x) = {} /\ \E s \in own(x) : LocalNames(fact, index)[x] = s.qname
  BY <1>4, <1>5, NamesOfModule
<1>8. bound(x) = {}
  BY <1>4 DEF NamesFunctionOf
<1>9. \A s \in own(x) : s.qname = Append(NameOf(file), x) /\ s \in ToSet(fact.functions)
  <2> SUFFICES ASSUME NEW s \in own(x)
               PROVE  s.qname = Append(NameOf(file), x) /\ s \in ToSet(fact.functions)
    OBVIOUS
  <2>1. CASE s \in ToSet(fact.functions) /\ s.owner = NoName
    <3>1. PICK w : IsWrittenAs(file, w, "def") /\ s = FunctionFact(file, w)
      BY <1>5, <2>1
    <3>2. /\ s.name = w.statement.name /\ s.qname = Append(w.scope.id, w.statement.name)
          /\ s.owner = IF w.scope.kind = "CLASS" THEN w.scope.id ELSE NoName
      BY <3>1 DEF FunctionFact
    <3>3. /\ w \in Written(file) /\ IsDefinition(w.statement) /\ w.statement.name = x
          /\ w.scope.kind # "CLASS"
      BY <2>1, <3>1, <3>2 DEF IsWrittenAs, IsDefinition
    <3>4. w.scope = ModuleRef(NameOf(file))
      BY <3>3 DEF NamesFunctionOf
    <3>5. w.scope.id = NameOf(file)
      BY <3>4 DEF ModuleRef, Ref
    <3> QED  BY <2>1, <3>2, <3>3, <3>5
  <2>2. CASE s \in ToSet(fact.classes)
    <3>1. PICK w : IsWrittenAs(file, w, "class") /\ s = ClassFact(file, w)
      BY <1>5, <2>2
    <3>2. s.name = w.statement.name
      BY <3>1 DEF ClassFact
    <3>3. w \in Written(file) /\ IsDefinition(w.statement) /\ w.statement.name = x /\ w.statement.is = "class"
      BY <3>1, <3>2 DEF IsWrittenAs, IsDefinition
    <3> QED  BY <3>3 DEF NamesFunctionOf
  <2> QED  BY <2>1, <2>2
<1>10. own(x) # {}
  <2>1. PICK s \in ToSet(file.body) : s.is = "def" /\ s.name = x
    BY DEF NamesFunctionOf
  <2> DEFINE w == [scope |-> ModuleRef(NameOf(file)), statement |-> s]
  <2>2. FunctionFact(file, w) \in ToSet(fact.functions)
    BY <1>0, <2>1, TopFunctions DEF fact
  <2>3. w.scope.kind = "MODULE" /\ w.statement = s
    BY DEF ModuleRef, Ref
  <2> HIDE DEF w
  <2>4. FunctionFact(file, w).name = x /\ FunctionFact(file, w).owner = NoName
    BY <2>1, <2>3 DEF FunctionFact
  <2> QED  BY <2>2, <2>4
<1>11. x \in DOMAIN LocalNames(fact, index) /\ LocalNames(fact, index)[x] = Append(NameOf(file), x)
  <2> HIDE DEF bound, own
  <2> QED  BY <1>7, <1>8, <1>9, <1>10
<1>12. IsFunction(Append(NameOf(file), x), index)
  <2>1. PICK f \in ToSet(fact.functions) : f.qname = Append(NameOf(file), x)
    BY <1>9, <1>10
  <2>2. f \in FunctionsIn(modules)
    BY DEF FunctionsIn, fact
  <2> QED  BY <1>0, <2>1, <2>2, IndexKnows DEF index
<1> QED  BY <1>6, <1>11, <1>12 DEF Lookup

\* What a scope calls is an edge.
LEMMA CallIsEdge ==
    ASSUME Derived, NEW m \in ToSet(Named(modules)), NEW scope, NEW sites, NEW owner,
           ScopeOf(m, scope, sites, owner), NEW s \in sites, NEW called,
           called = resolve_call(owner, LocalsOfScope(scope, Context(modules)),
                                 Context(modules).namespaces[m.name], s.fn, Context(modules)),
           called # NoName, called # scope.id
    PROVE  CalledEntity(called, Context(modules).index) \in CalledBy(scope)
<1> DEFINE context == Context(modules)
           t == CalledEntity(called, context.index)
           r == Edge("calls", scope, t)
<1>1. t.id = called
  BY DEF CalledEntity, ClassRef, Ref
<1>2. t \in CalledIn(m, scope, sites, owner, context)
  BY DEF CalledIn, ScopeCalls
<1>3. \E k \in ToSet(Named(modules)) : \E scope2, sites2, owner2 :
         /\ ScopeOf(k, scope2, sites2, owner2)
         /\ \E t2 \in CalledIn(k, scope2, sites2, owner2, context) :
                t2.id # scope2.id /\ r = Edge("calls", scope2, t2)
  <2> HIDE DEF context, t
  <2> QED  BY <1>1, <1>2
<1>4. r \in build_relationships(ResolvedModules(modules)) /\ r.kind = "calls"
  <2> HIDE DEF r, t
  <2> QED  BY <1>3, CallEdgesAre
<1>5. r \in EdgesOf("calls")
  BY <1>4, DerivedFacts DEF EdgesOf
<1>6. r.source = scope /\ r.target = t
  BY DEF Edge
<1> HIDE DEF r, t
<1> QED  BY <1>5, <1>6 DEF CalledBy, t, context

\* A call of a function of the same module is an edge.
LEMMA CallsMade == ASSUME Derived PROVE CallsMakeEdges
<1> SUFFICES ASSUME NEW file \in Sources, NEW w \in Written(file), NEW name, NEW callee,
                    name = Head(w.statement.fn), callee = Ref("FUNCTION", Append(NameOf(file), name)),
                    w.statement.is = "call", Len(w.statement.fn) = 1,
                    KnownScope(w.scope), w.scope # callee,
                    DefinedOnce(NameOf(file)), NamesFunctionOf(file, name), name \notin Receivers
             PROVE  callee \in CalledBy(w.scope)
  BY DEF CallsMakeEdges
<1> DEFINE context == Context(modules)
           q == Append(NameOf(file), name)
<1>0. file \in ToSet(repository) /\ FileOK(file)
  BY DerivedFacts DEF Sources
<1>1. /\ NameOf(file) # NoName /\ FactFile(file) \in ToSet(Named(modules))
      /\ w.scope.kind = "MODULE" => w.scope = ModuleRef(NameOf(file))
  BY KnownScopes
<1>2. PICK sites, owner : ScopeOf(FactFile(file), w.scope, sites, owner) /\ w.statement \in sites
  BY KnownScopes
<1>3. Lookup(context.namespaces[NameOf(file)], name) = q /\ IsFunction(q, context.index)
  BY <1>1, FunctionNamed
<1>4. FactFile(file).name = NameOf(file)
  BY DEF FactFile, analyze_module, NameOf
<1>5. q # NoName /\ q # NameOf(file)
  <2>1. IsList(NameOf(file))
    BY <1>0, NamesAreLists
  <2>2. Len(q) = Len(NameOf(file)) + 1 /\ Len(NameOf(file)) \in Nat
    BY <2>1 DEF IsList
  <2> HIDE DEF q
  <2>3. q # NameOf(file)
    BY <2>2
  <2> QED  BY <2>1, <2>3, LastAdded DEF q
<1> HIDE DEF context, q
<1>6. resolve_call(owner, LocalsOfScope(w.scope, context), context.namespaces[NameOf(file)],
                   w.statement.fn, context) = q
  BY <1>3 DEF resolve_call
<1>7. w.scope.id # q
  <2>1. CASE w.scope.kind = "MODULE"
    <3>1. w.scope.id = NameOf(file)
      BY <1>1, <2>1 DEF ModuleRef, Ref
    <3> QED  BY <1>5, <3>1
  <2>2. CASE w.scope.kind = "FUNCTION"
    <3>1. w.scope = Ref("FUNCTION", w.scope.id)
      BY <1>2, <2>2 DEF ScopeOf, ModuleRef, Ref
    <3> QED  BY <3>1 DEF q
  <2> QED  BY <2>1, <2>2 DEF KnownScope
<1>8. CalledEntity(q, context.index) \in CalledBy(w.scope)
  BY <1>1, <1>2, <1>4, <1>5, <1>6, <1>7, CallIsEdge DEF context
<1>9. CalledEntity(q, context.index) = callee
  BY <1>3 DEF CalledEntity, q
<1> QED  BY <1>8, <1>9

\* The names of what is derived are those of entities: what impact traverses is a snapshot
\* that index built.
LEMMA RepositoriesGiveSnapshots ==
    ASSUME RepositoryInit PROVE Init /\ Derived
<1>1. Derived
  BY DEF RepositoryInit, Derived
<1>2. snapshot \in Snapshots
  BY <1>1, IndexAssumption DEF Derived, IndexedSnapshots
<1> QED  BY <1>1, <1>2 DEF RepositoryInit, Init

\* Impact over repositories is impact over their snapshots, and these do not change.
THEOREM RepositoriesTraversed == RepositorySpec => Spec /\ []Derived
<1>1. RepositoryInit => Init /\ Derived
  BY RepositoriesGiveSnapshots
<1>2. [Next /\ UNCHANGED <<repository, modules>>]_<<vars, repository, modules>> => [Next]_vars
  BY DEF vars
<1>3. Derived /\ [Next /\ UNCHANGED <<repository, modules>>]_<<vars, repository, modules>> => Derived'
  <2> SUFFICES ASSUME Derived, [Next /\ UNCHANGED <<repository, modules>>]_<<vars, repository, modules>>
               PROVE  Derived'
    OBVIOUS
  <2>1. repository' = repository /\ modules' = modules
    OBVIOUS
  <2>2. snapshot' = snapshot
    BY DEF Next, Explore, Collect, Finished, vars
  <2> QED  BY <2>1, <2>2 DEF Derived
<1> QED  BY <1>1, <1>2, <1>3, PTL DEF RepositorySpec, Spec

\* The calls edges of a repository are the calls its sources write, in the scope that writes
\* them, and no call of a function of the same module is lost (python_analyzer.py:180-189,
\* relationships.py:142-166, 291-358).
THEOREM CallsWritten == RepositorySpec => []CallsAsWritten
<1>1. Derived => CallsAsWritten
  BY EdgesWritten, CallsMade DEF CallsAsWritten
<1> QED  BY <1>1, RepositoriesTraversed, PTL

-----------------------------------------------------------------------------
(* Endpoints.                                                              *)

\* The name of a handler is that of a function or method of the module, if one is named so.
LEMMA LocalFunctionNamed ==
    ASSUME NEW m, IsList(m.functions), \A f \in ToSet(m.functions) : NamedIn(f), NEW name
    PROVE  LET having == {f \in ToSet(m.functions) : f.name = name}
           IN  /\ having = {} => LocalFunction(name, m) = NoName
               /\ having # {} => \E f \in having : LocalFunction(name, m) = f.qname /\ f.qname # NoName
<1> DEFINE having == {f \in ToSet(m.functions) : f.name = name}
           named == Only(m.functions, having)
           owned == {f \in ToSet(named) : f.owner = NoName}
           functions == Only(named, owned)
<1>1. IsList(named) /\ ToSet(named) = having
  BY OnlyIsList
<1>2. IsList(functions) /\ ToSet(functions) \subseteq having
  <2> HIDE DEF named
  <2>1. IsList(functions) /\ ToSet(functions) = ToSet(named) \intersect owned
    BY <1>1, OnlyIsList
  <2> HIDE DEF functions, owned
  <2> QED  BY <1>1, <2>1
<1>3. LocalFunction(name, m) = IF functions # <<>> THEN Last(functions).qname
                              ELSE IF named # <<>> THEN Head(named).qname ELSE NoName
  BY DEF LocalFunction
<1>4. \A s : IsList(s) /\ s # <<>> => Last(s) \in ToSet(s) /\ Head(s) \in ToSet(s)
  <2> SUFFICES ASSUME NEW s, IsList(s), s # <<>> PROVE Last(s) \in ToSet(s) /\ Head(s) \in ToSet(s)
    OBVIOUS
  <2> DEFINE T == ToSet(s)
  <2>1. s \in Seq(T)
    BY DEF IsList
  <2> HIDE DEF T
  <2>2. Len(s) \in 1 .. Len(s) /\ 1 \in 1 .. Len(s) /\ DOMAIN s = 1 .. Len(s)
    BY <2>1
  <2> QED  BY <2>1, <2>2 DEF Last, ToSet
<1>5. named = <<>> <=> having = {}
  <2>1. ToSet(<<>>) = {}
    BY DEF ToSet
  <2> HIDE DEF named, having
  <2> QED  BY <1>1, <1>4, <2>1
<1>6. \A f \in having : f.qname # NoName
  BY NamesEnd
<1> HIDE DEF named, functions, having
<1>7. CASE functions # <<>>
  <2>1. Last(functions) \in having
    BY <1>2, <1>4, <1>7
  <2> QED  BY <1>3, <1>6, <1>7, <2>1 DEF having
<1>8. CASE functions = <<>> /\ named # <<>>
  <2>1. Head(named) \in having
    BY <1>1, <1>4, <1>8
  <2> QED  BY <1>3, <1>6, <1>8, <2>1 DEF having
<1>9. CASE functions = <<>> /\ named = <<>>
  <2>1. having = {} /\ LocalFunction(name, m) = NoName
    BY <1>3, <1>5, <1>9
  <2> QED  BY <2>1 DEF having
<1> QED  BY <1>7, <1>8, <1>9

\* The functions that a module has endpoints for: those so decorated, and those of the names
\* it adds routes for.
IsRouted(f) == \E d \in ToSet(f.decorators) : IsCallOf(d, HttpMethods \union {"api_route"})

\* The endpoints of decorators, ...
LEMMA DecoratedEndpoints ==
    ASSUME NEW f, NEW m, NEW q
    PROVE  (\E e \in EndpointsFor(f, m) : e.function = q) <=> IsRouted(f) /\ q = f.qname
<1> DEFINE D == {x \in ToSet(f.decorators) : IsCallOf(x, HttpMethods)}
           R == {x \in ToSet(f.decorators) : IsCallOf(x, {"api_route"})}
           direct(d) == Endpoint(Last(d.fn), f.qname, m, "method_decorator")
           route(method) == Endpoint(method, f.qname, m, "api_route_decorator")
<1>1. EndpointsFor(f, m) = {direct(d) : d \in D} \union UNION {{route(method) : method \in MethodsOf(d)} : d \in R}
  BY DEF EndpointsFor
<1>2. \A d : direct(d).function = f.qname /\ route(d).function = f.qname
  BY DEF Endpoint
<1>3. \A d : MethodsOf(d) # {}
  BY DEF MethodsOf
<1>4. IsRouted(f) <=> D \union R # {}
  <2>1. \A d : IsCallOf(d, HttpMethods \union {"api_route"})
              <=> IsCallOf(d, HttpMethods) \/ IsCallOf(d, {"api_route"})
    BY DEF IsCallOf
  <2> QED  BY <2>1 DEF IsRouted
<1> HIDE DEF direct, route, D, R
<1>5. (\E e \in EndpointsFor(f, m) : e.function = q) <=> D \union R # {} /\ q = f.qname
  <2>1. ASSUME NEW e \in EndpointsFor(f, m), e.function = q PROVE D \union R # {} /\ q = f.qname
    BY <1>1, <1>2, <2>1
  <2>2. ASSUME NEW d \in D, q = f.qname PROVE \E e \in EndpointsFor(f, m) : e.function = q
    BY <1>1, <1>2, <2>2
  <2>3. ASSUME NEW d \in R, q = f.qname PROVE \E e \in EndpointsFor(f, m) : e.function = q
    <3>1. PICK method : method \in MethodsOf(d)
      BY <1>3
    <3> QED  BY <1>1, <1>2, <2>3, <3>1
  <2> QED  BY <2>1, <2>2, <2>3
<1> QED  BY <1>4, <1>5

\* ... and those of the calls that add routes.
LEMMA AddedEndpoints ==
    ASSUME NEW m, NEW q, q # NoName
    PROVE  (\E e \in AddApiRouteEndpoints(m) : e.function = q) <=>
              \E s \in AllCallSites(m) :
                 IsCallOf(s, {"add_api_route"}) /\ Len(s.args) > 1 /\ q = LocalFunction(s.args[2], m)
<1> DEFINE S == {s \in AllCallSites(m) : IsCallOf(s, {"add_api_route"}) /\ s.args # <<>>}
           handler(s) == IF Len(s.args) > 1 THEN LocalFunction(s.args[2], m) ELSE NoName
           added(s, method) == Endpoint(method, handler(s), m, "add_api_route_call")
<1>1. AddApiRouteEndpoints(m) = UNION {{added(s, method) : method \in MethodsOf(s)} : s \in S}
  BY DEF AddApiRouteEndpoints
<1>2. \A s, method : added(s, method).function = handler(s)
  BY DEF Endpoint
<1>3. \A d : MethodsOf(d) # {}
  BY DEF MethodsOf
<1> HIDE DEF added, handler
<1>4. (\E e \in AddApiRouteEndpoints(m) : e.function = q) <=> \E s \in S : q = handler(s)
  <2>1. ASSUME NEW e \in AddApiRouteEndpoints(m), e.function = q PROVE \E s \in S : q = handler(s)
    <3> HIDE DEF S
    <3>1. PICK s \in S : \E method \in MethodsOf(s) : e = added(s, method)
      BY <1>1
    <3> QED  BY <1>2, <2>1, <3>1
  <2>2. ASSUME NEW s \in S, q = handler(s) PROVE \E e \in AddApiRouteEndpoints(m) : e.function = q
    <3> HIDE DEF S
    <3>1. PICK method : method \in MethodsOf(s)
      BY <1>3
    <3>2. added(s, method) \in AddApiRouteEndpoints(m)
      BY <1>1, <3>1
    <3> QED  BY <1>2, <2>2, <3>2
  <2> QED  BY <2>1, <2>2
<1>5. ASSUME NEW s PROVE q = handler(s) <=> Len(s.args) > 1 /\ q = LocalFunction(s.args[2], m)
  BY DEF handler
<1>6. ASSUME NEW s, Len(s.args) > 1 PROVE s.args # <<>>
  <2>1. Len(<<>>) = 0
    OBVIOUS
  <2> QED  BY <1>6, <2>1
<1>7. ASSUME NEW s
      PROVE  s \in S /\ q = handler(s) <=>
                /\ s \in AllCallSites(m) /\ IsCallOf(s, {"add_api_route"})
                /\ Len(s.args) > 1 /\ q = LocalFunction(s.args[2], m)
  BY <1>5, <1>6
<1> HIDE DEF S
<1> QED  BY <1>4, <1>7

\* The handlers of a snapshot.
LEMMA HandlersAre ==
    ASSUME Derived, NEW h
    PROVE  h \in snapshot.handlers <=>
              \E m \in ToSet(modules) : \E q :
                 /\ q # NoName /\ h = Ref("FUNCTION", q)
                 /\ \/ \E f \in ToSet(m.functions) : IsRouted(f) /\ q = f.qname
                    \/ \E s \in AllCallSites(m) :
                          IsCallOf(s, {"add_api_route"}) /\ Len(s.args) > 1 /\ q = LocalFunction(s.args[2], m)
<1> DEFINE endpoints == detect_api_endpoints(modules)
           Has(m, q) == \/ \E f \in ToSet(m.functions) : \E e \in EndpointsFor(f, m) : e.function = q
                        \/ \E e \in AddApiRouteEndpoints(m) : e.function = q
<1>1. snapshot.handlers = {Ref("FUNCTION", f) : f \in {e.function : e \in endpoints} \ {NoName}}
  BY DEF Derived, SnapshotOf, SnapshotWith
<1>2. ASSUME NEW q PROVE (\E e \in endpoints : e.function = q) <=> \E m \in ToSet(modules) : Has(m, q)
  BY DEF detect_api_endpoints
<1> HIDE DEF endpoints, Has
<1>3. h \in snapshot.handlers <=> \E q : q # NoName /\ h = Ref("FUNCTION", q) /\ \E e \in endpoints : e.function = q
  BY <1>1
<1> DEFINE Decorated(m, q) == \E f \in ToSet(m.functions) : IsRouted(f) /\ q = f.qname
           Added(m, q) == \E s \in AllCallSites(m) :
                             IsCallOf(s, {"add_api_route"}) /\ Len(s.args) > 1 /\ q = LocalFunction(s.args[2], m)
<1>4. ASSUME NEW m, NEW q, q # NoName PROVE Has(m, q) <=> Decorated(m, q) \/ Added(m, q)
  <2>1. (\E e \in AddApiRouteEndpoints(m) : e.function = q) <=> Added(m, q)
    BY <1>4, AddedEndpoints
  <2>2. \A f : (\E e \in EndpointsFor(f, m) : e.function = q) <=> IsRouted(f) /\ q = f.qname
    BY DecoratedEndpoints
  <2> DEFINE Ends(f) == \E e \in EndpointsFor(f, m) : e.function = q
  <2>3. Has(m, q) <=> (\E f \in ToSet(m.functions) : Ends(f)) \/ Added(m, q)
    BY <2>1 DEF Has
  <2>4. \A f : Ends(f) <=> IsRouted(f) /\ q = f.qname
    BY <2>2
  <2> HIDE DEF Ends, Added
  <2> QED  BY <2>3, <2>4
<1> DEFINE Is(m) == \E q : q # NoName /\ h = Ref("FUNCTION", q) /\ (Decorated(m, q) \/ Added(m, q))
<1>5. h \in snapshot.handlers <=> \E m \in ToSet(modules) : Is(m)
  <2> HIDE DEF Decorated, Added
  <2> QED  BY <1>2, <1>3, <1>4
<1> QED  BY <1>5

\* The modules of a repository are those of its files.
LEMMA DerivedModules ==
    ASSUME Derived
    PROVE  ToSet(modules) = {FactFile(file) : file \in {x \in ToSet(repository) : NameOf(x) # NoName}}
<1>1. FilesOK(repository)
  BY DerivedFacts
<1> QED  BY <1>1, FactsOfFiles DEF Derived

\* The calls of a module are those of its scopes.
LEMMA CallSitesOfScopes ==
    ASSUME NEW m, NEW s
    PROVE  s \in AllCallSites(m) <=> \E scope, sites, owner : ScopeOf(m, scope, sites, owner) /\ s \in sites
<1>1. ASSUME s \in m.calls PROVE \E scope, sites, owner : ScopeOf(m, scope, sites, owner) /\ s \in sites
  <2>1. ScopeOf(m, ModuleRef(m.name), m.calls, NoName)
    BY DEF ScopeOf
  <2> QED  BY <1>1, <2>1
<1>2. ASSUME NEW f \in ToSet(m.functions), s \in f.calls
      PROVE  \E scope, sites, owner : ScopeOf(m, scope, sites, owner) /\ s \in sites
  <2>1. ScopeOf(m, Ref("FUNCTION", f.qname), f.calls, f.owner)
    BY DEF ScopeOf
  <2> QED  BY <1>2, <2>1
<1>3. ASSUME NEW scope, NEW sites, NEW owner, ScopeOf(m, scope, sites, owner), s \in sites
      PROVE  s \in AllCallSites(m)
  BY <1>3 DEF ScopeOf, AllCallSites
<1> QED  BY <1>1, <1>2, <1>3 DEF AllCallSites

\* A function of the facts is defined by a statement with its decorators.
LEMMA FunctionWritten ==
    ASSUME NEW file, FileOK(file), NEW f \in ToSet(FactFile(file).functions)
    PROVE  \E w \in Written(file) :
              /\ file.parses /\ w.statement.is = "def" /\ f = FunctionFact(file, w)
              /\ Ref("FUNCTION", f.qname) = Defined(w) /\ f.name = w.statement.name
              /\ IsRouted(f) <=> IsDecorated(w.statement)
<1>1. PICK w : IsWrittenAs(file, w, "def") /\ f = FunctionFact(file, w)
  BY FactsAreWritten
<1>2. /\ f.qname = Append(w.scope.id, w.statement.name) /\ f.name = w.statement.name
      /\ f.decorators = w.statement.decorators
  BY <1>1 DEF FunctionFact
<1>3. w \in Written(file) /\ file.parses /\ w.statement.is = "def"
  BY <1>1 DEF IsWrittenAs
<1>4. Ref("FUNCTION", f.qname) = Defined(w)
  BY <1>2, <1>3 DEF Defined
<1>5. IsRouted(f) <=> IsDecorated(w.statement)
  BY <1>2 DEF IsRouted, IsDecorated
<1> QED  BY <1>1, <1>2, <1>3, <1>4, <1>5

\* A handler is a function defined with a route for decorator, or whose name a route is added
\* for in its module.
LEMMA HandlersWritten ==
    ASSUME Derived, NEW h \in snapshot.handlers
    PROVE  \E file \in Sources : \E w \in Written(file) :
              /\ w.statement.is = "def" /\ h = Defined(w)
              /\ \/ IsDecorated(w.statement)
                 \/ \E other \in Written(file) : AddsRouteTo(other.statement, w.statement.name)
<1> DEFINE Goal == \E file \in Sources : \E w \in Written(file) :
              /\ w.statement.is = "def" /\ h = Defined(w)
              /\ \/ IsDecorated(w.statement)
                 \/ \E other \in Written(file) : AddsRouteTo(other.statement, w.statement.name)
<1> SUFFICES Goal
  OBVIOUS
<1>1. PICK m \in ToSet(modules) : \E q :
         /\ q # NoName /\ h = Ref("FUNCTION", q)
         /\ \/ \E f \in ToSet(m.functions) : IsRouted(f) /\ q = f.qname
            \/ \E s \in AllCallSites(m) :
                  IsCallOf(s, {"add_api_route"}) /\ Len(s.args) > 1 /\ q = LocalFunction(s.args[2], m)
  BY HandlersAre
<1>2. PICK q :
         /\ q # NoName /\ h = Ref("FUNCTION", q)
         /\ \/ \E f \in ToSet(m.functions) : IsRouted(f) /\ q = f.qname
            \/ \E s \in AllCallSites(m) :
                  IsCallOf(s, {"add_api_route"}) /\ Len(s.args) > 1 /\ q = LocalFunction(s.args[2], m)
  BY <1>1
<1>3. PICK file \in ToSet(repository) : m = FactFile(file)
  BY DerivedModules
<1>4. FileOK(file)
  BY DerivedFacts
<1>5. ASSUME NEW f \in ToSet(m.functions), IsRouted(f), q = f.qname PROVE Goal
  <2>1. PICK w \in Written(file) :
              /\ file.parses /\ w.statement.is = "def"
              /\ Ref("FUNCTION", f.qname) = Defined(w)
              /\ IsRouted(f) <=> IsDecorated(w.statement)
    BY <1>3, <1>4, FunctionWritten
  <2>2. file \in Sources
    BY <2>1 DEF Sources
  <2> QED  BY <1>2, <1>5, <2>1, <2>2
<1>6. ASSUME NEW s \in AllCallSites(m), IsCallOf(s, {"add_api_route"}), Len(s.args) > 1,
             q = LocalFunction(s.args[2], m)
      PROVE  Goal
  <2> DEFINE name == s.args[2]
             having == {f \in ToSet(m.functions) : f.name = name}
  <2>1. IsList(m.functions) /\ \A f \in ToSet(m.functions) : NamedIn(f)
    <3>1. FactsOK(modules) /\ WellNamed(modules)
      BY DerivedFacts DEF Facts
    <3> QED  BY <3>1 DEF FactsOK, WellNamed
  <2>2. PICK f \in having : q = f.qname
    <3>1. /\ having = {} => LocalFunction(name, m) = NoName
          /\ having # {} => \E f \in having : LocalFunction(name, m) = f.qname /\ f.qname # NoName
      <4> HIDE DEF name
      <4> QED  BY <2>1, LocalFunctionNamed
    <3> HIDE DEF having
    <3> QED  BY <1>2, <1>6, <3>1
  <2>3. PICK w \in Written(file) :
              /\ file.parses /\ w.statement.is = "def"
              /\ Ref("FUNCTION", f.qname) = Defined(w) /\ f.name = w.statement.name
    BY <1>3, <1>4, FunctionWritten
  <2>4. PICK scope, sites, owner : ScopeOf(m, scope, sites, owner) /\ s \in sites
    BY <1>6, CallSitesOfScopes
  <2>5. s \in WrittenIn(file, scope, "call")
    BY <1>3, <1>4, <2>4, ScopeIsWritten
  <2>6. PICK other \in Written(file) : other.statement = s
    BY <2>5 DEF WrittenIn
  <2>7. AddsRouteTo(other.statement, w.statement.name)
    BY <1>6, <2>3, <2>6 DEF AddsRouteTo
  <2>8. file \in Sources
    BY <2>3 DEF Sources
  <2> QED  BY <1>2, <2>2, <2>3, <2>7, <2>8
<1> HIDE DEF Goal
<1> QED  BY <1>2, <1>5, <1>6

\* A function of the snapshot that is defined once has the facts of its definition.
LEMMA DefinedHasFacts ==
    ASSUME Derived, NEW file \in Sources, NEW w \in Written(file), w.statement.is = "def",
           Defined(w) \in snapshot.entities, DefinedOnce(Defined(w).id)
    PROVE  /\ FactFile(file) \in ToSet(Named(modules)) /\ NameOf(file) # NoName
           /\ FunctionFact(file, w) \in ToSet(FactFile(file).functions)
           /\ Defined(w) = Ref("FUNCTION", FunctionFact(file, w).qname)
<1>1. Defined(w) = Ref("FUNCTION", Append(w.scope.id, w.statement.name)) /\ Defined(w).kind = "FUNCTION"
  BY DEF Defined, Ref
<1>2. KnownScope(Defined(w))
  BY <1>1 DEF KnownScope
<1>3. IsBody(file, Defined(w), w.statement.body) /\ IsDefinition(w.statement)
  BY DEF IsBody, IsDefinition
<1>4. Defined(w) # ModuleRef(NameOf(file))
  BY <1>1 DEF ModuleRef, Ref
<1>5. /\ FactFile(file) \in ToSet(Named(modules)) /\ NameOf(file) # NoName
      /\ \E v \in Written(file) :
            /\ IsWrittenAs(file, v, "def") /\ Defined(w) = Defined(v)
            /\ Defined(w) = Ref("FUNCTION", FunctionFact(file, v).qname)
            /\ FunctionFact(file, v) \in ToSet(FactFile(file).functions)
  BY <1>2, <1>3, <1>4, KnownBodies
<1>6. PICK v \in Written(file) :
            /\ IsWrittenAs(file, v, "def") /\ Defined(w) = Defined(v)
            /\ Defined(w) = Ref("FUNCTION", FunctionFact(file, v).qname)
            /\ FunctionFact(file, v) \in ToSet(FactFile(file).functions)
  BY <1>5
<1>7. v = w
  BY <1>3, <1>6, OneDefinition DEF IsWrittenAs, IsDefinition
<1> QED  BY <1>5, <1>6, <1>7

\* Whatever is written so is a handler.
LEMMA WrittenAreHandlers ==
    ASSUME Derived, NEW file \in Sources, NEW w \in Written(file),
           w.statement.is = "def", Defined(w) \in snapshot.entities, DefinedOnce(Defined(w).id),
           \/ IsDecorated(w.statement)
           \/ /\ \A other \in Written(file) :
                    other.statement.is = "def" /\ other.statement.name = w.statement.name => other = w
              /\ \E other \in Written(file) :
                    KnownScope(other.scope) /\ AddsRouteTo(other.statement, w.statement.name)
    PROVE  Defined(w) \in snapshot.handlers
<1> DEFINE m == FactFile(file)
           f == FunctionFact(file, w)
<1>1. m \in ToSet(Named(modules)) /\ f \in ToSet(m.functions) /\ Defined(w) = Ref("FUNCTION", f.qname)
  BY DefinedHasFacts
<1>2. FileOK(file) /\ file \in ToSet(repository)
  BY DerivedFacts DEF Sources
<1>3. m \in ToSet(modules)
  BY <1>1, <1>2, DefinedHasFacts, DerivedModules
<1>4. IsList(m.functions) /\ \A g \in ToSet(m.functions) : NamedIn(g)
  <2>1. FactsOK(modules) /\ WellNamed(modules)
    BY DerivedFacts DEF Facts
  <2> HIDE DEF m
  <2> QED  BY <1>3, <2>1 DEF FactsOK, WellNamed
<1>5. f.qname # NoName /\ f.decorators = w.statement.decorators /\ f.name = w.statement.name
  BY <1>1, <1>4, NamesEnd DEF FunctionFact
<1> DEFINE Routed == \/ \E g \in ToSet(m.functions) : IsRouted(g) /\ f.qname = g.qname
                     \/ \E s \in AllCallSites(m) :
                           IsCallOf(s, {"add_api_route"}) /\ Len(s.args) > 1 /\ f.qname = LocalFunction(s.args[2], m)
<1>6. CASE IsDecorated(w.statement)
  <2>1. IsRouted(f)
    BY <1>5, <1>6 DEF IsRouted, IsDecorated
  <2>2. Routed
    <3> HIDE DEF m, f
    <3> QED  BY <1>1, <2>1
  <2> HIDE DEF m, f
  <2> QED  BY <1>1, <1>3, <1>5, <2>2, HandlersAre
<1>7. ASSUME \A other \in Written(file) :
                 other.statement.is = "def" /\ other.statement.name = w.statement.name => other = w,
             NEW other \in Written(file), KnownScope(other.scope),
             AddsRouteTo(other.statement, w.statement.name)
      PROVE  Defined(w) \in snapshot.handlers
  <2> DEFINE s == other.statement
  <2>1. s.is = "call" /\ IsCallOf(s, {"add_api_route"}) /\ Len(s.args) > 1 /\ s.args[2] = f.name
    BY <1>5, <1>7 DEF AddsRouteTo, IsCallOf
  <2>2. PICK sites, owner : ScopeOf(m, other.scope, sites, owner) /\ s \in sites
    BY <1>7, <2>1, KnownScopes
  <2>3. s \in AllCallSites(m)
    BY <2>2, CallSitesOfScopes
  <2> DEFINE having == {g \in ToSet(m.functions) : g.name = f.name}
  <2>4. \A g \in having : g = f
    <3> SUFFICES ASSUME NEW g \in ToSet(m.functions), g.name = f.name PROVE g = f
      OBVIOUS
    <3>1. PICK v \in Written(file) :
             v.statement.is = "def" /\ g = FunctionFact(file, v) /\ g.name = v.statement.name
      BY <1>2, FunctionWritten
    <3>2. v = w
      BY <1>5, <1>7, <3>1
    <3> QED  BY <3>1, <3>2
  <2>5. \E g \in having : LocalFunction(f.name, m) = g.qname
    <3>1. f \in having
      BY <1>1
    <3> HIDE DEF m, f
    <3> QED  BY <1>4, <3>1, LocalFunctionNamed
  <2>6. LocalFunction(s.args[2], m) = f.qname
    <3> HIDE DEF having, m, f, s
    <3> QED  BY <2>1, <2>4, <2>5
  <2>7. Routed
    <3> HIDE DEF m, f, s
    <3> QED  BY <2>1, <2>3, <2>6
  <2> HIDE DEF m, f
  <2> QED  BY <1>1, <1>3, <1>5, <2>7, HandlersAre
<1> QED  BY <1>6, <1>7

\* The endpoints that impact reports are those of what is affected, for the decorators and
\* the routes that the sources write (api_endpoints.py:98-133, 168-217, impact.py:78-82).
THEOREM HandlersReported == RepositorySpec => []HandlersAreReported
<1>1. IInv /\ Derived => HandlersAreReported
  <2> SUFFICES ASSUME IInv, Derived, stage = "done"
               PROVE  facts.apis \subseteq visited /\ ServedAsWritten /\ ServesWhatIsWritten
    BY DEF HandlersAreReported
  <2>1. facts.apis = visited \intersect snapshot.handlers
    BY DEF IInv, ReportedFromTraversal
  <2>2. visited \subseteq snapshot.entities
    BY DEF IInv, ImpactTypeOK, visited
  <2>3. ServedAsWritten
    BY <2>1, HandlersWritten DEF ServedAsWritten
  <2>4. ServesWhatIsWritten
    <3> SUFFICES ASSUME NEW file \in Sources, NEW w \in Written(file),
                        w.statement.is = "def", Defined(w) \in visited, DefinedOnce(Defined(w).id),
                        \/ IsDecorated(w.statement)
                        \/ /\ \A other \in Written(file) :
                                 other.statement.is = "def" /\ other.statement.name = w.statement.name
                                 => other = w
                           /\ \E other \in Written(file) :
                                 KnownScope(other.scope) /\ AddsRouteTo(other.statement, w.statement.name)
                 PROVE  Defined(w) \in facts.apis
      BY DEF ServesWhatIsWritten
    <3>1. Defined(w) \in snapshot.handlers
      BY <2>2, WrittenAreHandlers
    <3> QED  BY <2>1, <3>1
  <2> QED  BY <2>1, <2>3, <2>4
<1> QED  BY <1>1, RepositoriesTraversed, Invariance, PTL

-----------------------------------------------------------------------------
(* Calls of what is defined once.                                          *)

\* The definitions of an index are facts of their name.
LEMMA IndexEntries ==
    ASSUME NEW loaded, FactsOK(loaded)
    PROVE  LET index == RepositoryIndex(loaded)
           IN  /\ \A q : IsClass(q, index) =>
                            index.classes[q] \in ClassesIn(loaded) /\ index.classes[q].qname = q
               /\ \A q : IsFunction(q, index) =>
                            index.functions[q] \in FunctionsIn(loaded) /\ index.functions[q].qname = q
<1> DEFINE stored == Named(loaded)
           classes == FlattenSeq([i \in DOMAIN stored |-> stored[i].classes])
           functions == FlattenSeq([i \in DOMAIN stored |-> stored[i].functions])
           index == RepositoryIndex(loaded)
<1>1. /\ IsList(classes) /\ ToSet(classes) = ClassesIn(loaded)
      /\ IsList(functions) /\ ToSet(functions) = FunctionsIn(loaded)
  BY ClassesOfModules
<1>2. index.classes = LastOf(classes) /\ index.functions = LastOf(functions)
  BY DEF RepositoryIndex
<1> HIDE DEF classes, functions, index
<1>3. /\ \A q \in DOMAIN index.classes : index.classes[q] \in ClassesIn(loaded) /\ index.classes[q].qname = q
      /\ \A q \in DOMAIN index.functions :
            index.functions[q] \in FunctionsIn(loaded) /\ index.functions[q].qname = q
  <2>1. \A q \in DOMAIN LastOf(classes) : LastOf(classes)[q] \in ToSet(classes) /\ LastOf(classes)[q].qname = q
    BY <1>1, LastOfHasName
  <2>2. \A q \in DOMAIN LastOf(functions) :
           LastOf(functions)[q] \in ToSet(functions) /\ LastOf(functions)[q].qname = q
    BY <1>1, LastOfHasName
  <2> QED  BY <1>1, <1>2, <2>1, <2>2
<1> QED  BY <1>3 DEF index, IsClass, IsFunction

\* Whose definition a fact of a repository is.
LEMMA FunctionFrom ==
    ASSUME Derived, NEW f \in FunctionsIn(modules)
    PROVE  \E file \in Sources : \E w \in Written(file) :
              /\ IsWrittenAs(file, w, "def") /\ f = FunctionFact(file, w) /\ Defined(w).id = f.qname
              /\ IsDefinition(w.statement) /\ FactFile(file) \in ToSet(Named(modules))
              /\ f \in ToSet(FactFile(file).functions)
<1>1. PICK m \in ToSet(Named(modules)) : f \in ToSet(m.functions)
  BY DEF FunctionsIn
<1>2. PICK file \in ToSet(repository) : m = FactFile(file)
  BY DerivedFacts
<1>3. FileOK(file)
  BY DerivedFacts
<1>4. PICK w : IsWrittenAs(file, w, "def") /\ f = FunctionFact(file, w)
  BY <1>1, <1>2, <1>3, FactsAreWritten
<1>5. f.qname = Append(w.scope.id, w.statement.name)
  BY <1>4 DEF FunctionFact
<1>6. file \in Sources /\ w \in Written(file) /\ w.statement.is = "def"
  BY <1>4 DEF IsWrittenAs, Sources
<1>7. Defined(w).id = f.qname
  BY <1>5, <1>6 DEF Defined, Ref
<1> QED  BY <1>1, <1>2, <1>4, <1>6, <1>7 DEF IsDefinition

\* A class, as well.
LEMMA ClassFrom ==
    ASSUME Derived, NEW c \in ClassesIn(modules)
    PROVE  \E file \in Sources : \E w \in Written(file) :
              /\ IsWrittenAs(file, w, "class") /\ c = ClassFact(file, w) /\ Defined(w).id = c.qname
              /\ IsDefinition(w.statement) /\ FactFile(file) \in ToSet(Named(modules))
<1>1. PICK m \in ToSet(Named(modules)) : c \in ToSet(m.classes)
  BY DEF ClassesIn
<1>2. PICK file \in ToSet(repository) : m = FactFile(file)
  BY DerivedFacts
<1>3. FileOK(file)
  BY DerivedFacts
<1>4. PICK w : IsWrittenAs(file, w, "class") /\ c = ClassFact(file, w)
  BY <1>1, <1>2, <1>3, FactsAreWritten
<1>5. c.qname = Append(w.scope.id, w.statement.name)
  BY <1>4 DEF ClassFact
<1>6. file \in Sources /\ w \in Written(file) /\ w.statement.is = "class"
  BY <1>4 DEF IsWrittenAs, Sources
<1>7. Defined(w).id = c.qname
  BY <1>5, <1>6 DEF Defined, ClassRef, Ref
<1> QED  BY <1>1, <1>2, <1>4, <1>6, <1>7 DEF IsDefinition

\* What is defined once has one fact.
LEMMA OneFunctionFact ==
    ASSUME Derived, NEW f \in FunctionsIn(modules), NEW g \in FunctionsIn(modules),
           f.qname = g.qname, DefinedOnce(f.qname)
    PROVE  f = g
<1>1. PICK file \in Sources : \E w \in Written(file) :
         f = FunctionFact(file, w) /\ Defined(w).id = f.qname /\ IsDefinition(w.statement)
  BY FunctionFrom
<1>2. PICK w \in Written(file) :
         f = FunctionFact(file, w) /\ Defined(w).id = f.qname /\ IsDefinition(w.statement)
  BY <1>1
<1>3. PICK other \in Sources : \E v \in Written(other) :
         g = FunctionFact(other, v) /\ Defined(v).id = g.qname /\ IsDefinition(v.statement)
  BY FunctionFrom
<1>4. PICK v \in Written(other) :
         g = FunctionFact(other, v) /\ Defined(v).id = g.qname /\ IsDefinition(v.statement)
  BY <1>3
<1>5. other = file /\ v = w
  BY <1>2, <1>4, OneDefinition
<1> QED  BY <1>2, <1>4, <1>5

\* A class, as well.
LEMMA OneClassFact ==
    ASSUME Derived, NEW c \in ClassesIn(modules), NEW d \in ClassesIn(modules),
           c.qname = d.qname, DefinedOnce(c.qname)
    PROVE  c = d
<1>1. PICK file \in Sources : \E w \in Written(file) :
         c = ClassFact(file, w) /\ Defined(w).id = c.qname /\ IsDefinition(w.statement)
  BY ClassFrom
<1>2. PICK w \in Written(file) :
         c = ClassFact(file, w) /\ Defined(w).id = c.qname /\ IsDefinition(w.statement)
  BY <1>1
<1>3. PICK other \in Sources : \E v \in Written(other) :
         d = ClassFact(other, v) /\ Defined(v).id = d.qname /\ IsDefinition(v.statement)
  BY ClassFrom
<1>4. PICK v \in Written(other) :
         d = ClassFact(other, v) /\ Defined(v).id = d.qname /\ IsDefinition(v.statement)
  BY <1>3
<1>5. other = file /\ v = w
  BY <1>2, <1>4, OneDefinition
<1> QED  BY <1>2, <1>4, <1>5

\* A name that is defined once, by a class or function, is that of no module.
LEMMA NoModuleOf ==
    ASSUME Derived, NEW q, DefinedOnce(q),
           IsClass(q, RepositoryIndex(modules)) \/ IsFunction(q, RepositoryIndex(modules))
    PROVE  ModuleRef(q) \notin snapshot.entities
<1> SUFFICES ASSUME ModuleRef(q) \in snapshot.entities PROVE FALSE
  OBVIOUS
<1>0. FactsOK(modules)
  BY DerivedFacts DEF Facts
<1>1. PICK file \in Sources : \E w \in Written(file) : Defined(w).id = q /\ IsDefinition(w.statement)
  <2>1. CASE IsClass(q, RepositoryIndex(modules))
    <3>1. PICK c \in ClassesIn(modules) : c.qname = q
      BY <1>0, <2>1, IndexKnows
    <3> QED  BY <3>1, ClassFrom
  <2>2. CASE IsFunction(q, RepositoryIndex(modules))
    <3>1. PICK f \in FunctionsIn(modules) : f.qname = q
      BY <1>0, <2>2, IndexKnows
    <3> QED  BY <3>1, FunctionFrom
  <2> QED  BY <2>1, <2>2
<1>2. PICK w \in Written(file) : Defined(w).id = q /\ IsDefinition(w.statement)
  BY <1>1
<1>3. PICK m \in ToSet(Named(modules)) : m.name = q
  BY DerivedEntities
<1>4. PICK other \in ToSet(repository) : m = FactFile(other)
  BY DerivedFacts
<1>5. NameOf(other) = q
  BY <1>3, <1>4 DEF FactFile, analyze_module, NameOf
<1>6. ModuleDefinition(other) \in AllDefinitions /\ Definition(file, w) \in AllDefinitions
  BY <1>2 DEF AllDefinitions
<1>7. ModuleDefinition(other).name = q /\ Definition(file, w).name = q
      /\ ModuleDefinition(other).by = {} /\ Definition(file, w).by = {w}
  BY <1>2, <1>5 DEF ModuleDefinition, Definition
<1>8. ModuleDefinition(other) = Definition(file, w)
  BY <1>6, <1>7 DEF DefinedOnce
<1> QED  BY <1>7, <1>8

\* A known scope is that of one module, with one body.
LEMMA OneScope ==
    ASSUME Derived, NEW scope, KnownScope(scope),
           NEW file \in ToSet(repository), FactFile(file) \in ToSet(Named(modules)),
           NEW sites, NEW owner, ScopeOf(FactFile(file), scope, sites, owner),
           NEW other \in ToSet(repository), FactFile(other) \in ToSet(Named(modules)),
           NEW sites2, NEW owner2, ScopeOf(FactFile(other), scope, sites2, owner2)
    PROVE  sites2 = sites /\ owner2 = owner /\ NameOf(other) = NameOf(file)
<1>1. DefinedOnce(scope.id)
  BY DEF KnownScope
<1>2. FactFile(file).name = NameOf(file) /\ FactFile(other).name = NameOf(other)
  BY DEF FactFile, analyze_module, NameOf
<1>3. ToSet(FactFile(file).functions) \subseteq FunctionsIn(modules)
      /\ ToSet(FactFile(other).functions) \subseteq FunctionsIn(modules)
  BY DEF FunctionsIn
<1>4. CASE scope.kind = "MODULE"
  <2>1. /\ scope = ModuleRef(NameOf(file)) /\ sites = FactFile(file).calls /\ owner = NoName
        /\ scope = ModuleRef(NameOf(other)) /\ sites2 = FactFile(other).calls /\ owner2 = NoName
    BY <1>2, <1>4 DEF ScopeOf, Ref
  <2>2. scope.id = NameOf(file) /\ scope.id = NameOf(other)
    BY <2>1 DEF ModuleRef, Ref
  <2>3. other = file
    BY <1>1, <2>2, OneModule
  <2> QED  BY <2>1, <2>3
<1>5. CASE scope.kind # "MODULE"
  <2>1. PICK f \in ToSet(FactFile(file).functions) :
           scope = Ref("FUNCTION", f.qname) /\ sites = f.calls /\ owner = f.owner
    BY <1>5 DEF ScopeOf, ModuleRef, Ref
  <2>2. PICK g \in ToSet(FactFile(other).functions) :
           scope = Ref("FUNCTION", g.qname) /\ sites2 = g.calls /\ owner2 = g.owner
    BY <1>5 DEF ScopeOf, ModuleRef, Ref
  <2>3. scope.id = f.qname /\ scope.id = g.qname
    BY <2>1, <2>2 DEF Ref
  <2>4. f = g
    BY <1>1, <1>3, <2>3, OneFunctionFact
  <2>5. f.module = NameOf(file) /\ g.module = NameOf(other)
    <3>1. WellNamed(modules) /\ FactFile(file) \in ToSet(modules) /\ FactFile(other) \in ToSet(modules)
      <4>1. FactsOK(modules) /\ WellNamed(modules)
        BY DerivedFacts DEF Facts
      <4> QED  BY <4>1, NamedModules DEF FactsOK
    <3> QED  BY <1>2, <3>1 DEF WellNamed
  <2> QED  BY <2>1, <2>2, <2>4, <2>5
<1> QED  BY <1>4, <1>5

\* What a call in a scope of a file resolves to.
CallIn(file, scope, owner, s) ==
    resolve_call(owner, LocalsOfScope(scope, Context(modules)), Context(modules).namespaces[NameOf(file)],
                 s.fn, Context(modules))

\* Whatever a scope calls is what one of its calls resolves to.
LEMMA CallsOfScope ==
    ASSUME Derived, NEW scope, KnownScope(scope),
           NEW file \in ToSet(repository), FactFile(file) \in ToSet(Named(modules)),
           NEW sites, NEW owner, ScopeOf(FactFile(file), scope, sites, owner), NEW t \in CalledBy(scope)
    PROVE  \E s \in sites :
              LET called == CallIn(file, scope, owner, s)
              IN  /\ called # NoName /\ t = CalledEntity(called, Context(modules).index)
                  /\ t.id = called /\ called # scope.id
<1>1. PICK r \in EdgesOf("calls") : r.source = scope /\ t = r.target
  BY DEF CalledBy
<1>2. PICK other \in ToSet(repository) : \E scope2, sites2, owner2 : \E s \in sites2 :
              LET called == CallIn(other, scope2, owner2, s)
              IN  /\ NameOf(other) # NoName /\ FileOK(other) /\ FactFile(other) \in ToSet(Named(modules))
                  /\ ScopeOf(FactFile(other), scope2, sites2, owner2) /\ r.source = scope2
                  /\ called # NoName /\ r.target = CalledEntity(called, Context(modules).index)
                  /\ r.target.id = called /\ called # scope2.id
  BY EdgeIsCall DEF CallIn
<1>3. PICK sites2, owner2 : \E s \in sites2 :
              LET called == CallIn(other, scope, owner2, s)
              IN  /\ FactFile(other) \in ToSet(Named(modules))
                  /\ ScopeOf(FactFile(other), scope, sites2, owner2)
                  /\ called # NoName /\ r.target = CalledEntity(called, Context(modules).index)
                  /\ r.target.id = called /\ called # scope.id
  BY <1>1, <1>2
<1>4. PICK s \in sites2 :
              LET called == CallIn(other, scope, owner2, s)
              IN  /\ FactFile(other) \in ToSet(Named(modules))
                  /\ ScopeOf(FactFile(other), scope, sites2, owner2)
                  /\ called # NoName /\ r.target = CalledEntity(called, Context(modules).index)
                  /\ r.target.id = called /\ called # scope.id
  BY <1>3
<1>5. sites2 = sites /\ owner2 = owner /\ NameOf(other) = NameOf(file)
  BY <1>4, OneScope
<1>6. CallIn(other, scope, owner2, s) = CallIn(file, scope, owner, s)
  BY <1>5 DEF CallIn
<1> QED  BY <1>1, <1>4, <1>5, <1>6

\* A call has the name of what it goes to, if that is no module nor something in one.
LEMMA CallHasName ==
    ASSUME Derived, NEW file \in Sources, FactFile(file) \in ToSet(Named(modules)),
           NEW scope, NEW owner, IsList(owner), NEW s, IsList(s.fn), s.fn # <<>>,
           NEW class, IsList(class), NEW name, Append(class, name) = CallIn(file, scope, owner, s),
           ModuleRef(Append(class, name)) \notin snapshot.entities, ModuleRef(class) \notin snapshot.entities
    PROVE  Last(s.fn) = name
<1> DEFINE context == Context(modules)
           names == context.namespaces[NameOf(file)]
           locals == LocalsOfScope(scope, context)
           own == Head(s.fn) \in Receivers /\ owner # NoName
           called == Append(class, name)
<1>1. Facts(modules) /\ TypesKnown(locals, context.index)
  BY DerivedFacts, LocalsAreKnown
<1>2. called # NoName /\ Last(called) = name
  BY LastAdded
<1>3. called = resolve_call(owner, locals, names, s.fn, context)
  BY DEF CallIn
<1> HIDE DEF called
<1>4. \/ ~own /\ Len(s.fn) = 1 /\ called = Lookup(names, Head(s.fn))
      \/ \E c : IsList(c) /\ called = Append(c, Last(s.fn))
  <2>1. \/ ~own /\ Len(s.fn) = 1 /\ resolve_call(owner, locals, names, s.fn, Context(modules)) = Lookup(names, Head(s.fn))
        \/ \E c : /\ IsList(c) /\ resolve_call(owner, locals, names, s.fn, Context(modules)) = Append(c, Last(s.fn))
                  /\ IsFunction(resolve_call(owner, locals, names, s.fn, Context(modules)), Context(modules).index)
    <3>1. resolve_call(owner, locals, names, s.fn, Context(modules)) # NoName
      BY <1>2, <1>3
    <3>2. TypesKnown(locals, Context(modules).index)
      BY <1>1
    <3> HIDE DEF names, locals, context
    <3> QED  BY <1>1, <3>1, <3>2, CalledNames
  <2> HIDE DEF names, locals
  <2> QED  BY <1>3, <2>1
<1>5. CASE \E c : IsList(c) /\ called = Append(c, Last(s.fn))
  BY <1>2, <1>5, LastAdded
<1>6. CASE Len(s.fn) = 1 /\ called = Lookup(names, Head(s.fn))
  <2>1. Last(s.fn) = Head(s.fn)
    BY <1>6 DEF Last, IsList
  <2>2. file \in ToSet(repository)
    BY DEF Sources
  <2>3. Last(called) = Head(s.fn) \/ IsPartOfModule(called) \/ ModuleRef(called) \in snapshot.entities
    BY <1>2, <1>6, <2>2, NamesAreWritten
  <2>4. ASSUME IsPartOfModule(called) PROVE FALSE
    <3>1. PICK m, part : IsList(m) /\ ModuleRef(m) \in snapshot.entities /\ called = Append(m, part)
      BY <2>4 DEF IsPartOfModule
    <3>2. m = class
      BY <3>1, LongerAreEqual DEF called
    <3> QED  BY <3>1, <3>2
  <2> QED  BY <1>2, <2>1, <2>3, <2>4 DEF called
<1> QED  BY <1>4, <1>5, <1>6

\* A scope of a file calls a method of a class, by the name that only one of its calls has.
CallsByName(file, w, sites, owner, t, class) ==
    /\ file \in Sources /\ FactFile(file) \in ToSet(Named(modules))
    /\ w \in Written(file) /\ IsOnlyCall(file, w) /\ KnownScope(w.scope)
    /\ ScopeOf(FactFile(file), w.scope, sites, owner)
    /\ t \in CalledBy(w.scope) /\ IsList(class) /\ t.id = Append(class, Last(w.statement.fn))
    /\ ModuleRef(t.id) \notin snapshot.entities /\ ModuleRef(class) \notin snapshot.entities

\* Then that call goes to it.
LEMMA OnlyCall ==
    ASSUME Derived, NEW file, NEW w, NEW sites, NEW owner, NEW t, NEW class,
           CallsByName(file, w, sites, owner, t, class)
    PROVE  /\ t.id = CallIn(file, w.scope, owner, w.statement) /\ t.id # w.scope.id
           /\ t = CalledEntity(t.id, Context(modules).index)
<1> USE DEF CallsByName
<1>0. file \in ToSet(repository) /\ FileOK(file)
  BY DerivedFacts DEF Sources
<1>1. PICK s \in sites :
              LET called == CallIn(file, w.scope, owner, s)
              IN  /\ called # NoName /\ t = CalledEntity(called, Context(modules).index)
                  /\ t.id = called /\ called # w.scope.id
  BY <1>0, CallsOfScope
<1>2. s \in WrittenIn(file, w.scope, "call") /\ IsList(owner) /\ IsList(s.fn) /\ s.fn # <<>>
  BY <1>0, ScopeIsWritten
<1>3. Last(s.fn) = Last(w.statement.fn)
  BY <1>1, <1>2, CallHasName
<1>4. s = w.statement
  BY <1>2, <1>3 DEF IsOnlyCall
<1> QED  BY <1>1, <1>4

-----------------------------------------------------------------------------
(* Calls of the own object.                                                *)

\* The classes of a snapshot are those of its facts.
LEMMA ClassEntities ==
    ASSUME Derived, NEW e \in snapshot.entities, e.kind = "CLASS"
    PROVE  e = ClassRef(e.id) /\ IsClass(e.id, Context(modules).index)
<1> DEFINE resolved == ResolvedModules(modules)
<1>1. snapshot.entities = EntitiesOf(resolved) \union {Ref("FILE", repository[i].path) : i \in DOMAIN repository}
  BY DEF Derived, SnapshotOf, SnapshotWith
<1>2. \A kind, name : Ref(kind, name).kind = kind /\ Ref(kind, name).id = name
  BY DEF Ref
<1> HIDE DEF resolved
<1>3. e \in EntitiesOf(resolved)
  BY <1>1, <1>2
<1>4. PICK r \in resolved :
         \/ e = Ref("FILE", r.path)
         \/ e = Ref("MODULE", r.name)
         \/ \E c \in r.classes : e = Ref("CLASS", c.name)
         \/ \E f \in r.functions : e = Ref("FUNCTION", f.name)
  BY <1>3, EntityForms
<1>5. e = ClassRef(e.id)
  BY <1>2, <1>4 DEF ClassRef
<1>6. IsClass(e.id, RepositoryIndex(modules))
  BY <1>5, DerivedEntities
<1> QED  BY <1>5, <1>6, ContextIndex

\* The bases of a class, as edges and as the recursion finds them.
LEMMA BasesAreEdges ==
    ASSUME Derived, NEW q, NEW b \in ToSet(BasesByName(q, Context(modules)))
    PROVE  \E r \in EdgesOf("inherits") : r.source = ClassRef(q) /\ r.target = ClassRef(b)
<1> DEFINE context == Context(modules)
           index == RepositoryIndex(modules)
           c == index.classes[q]
<1>1. context.index = index /\ FactsOK(modules)
  BY ContextIndex, DerivedFacts DEF Facts
<1> HIDE DEF index
<1>2. IsClass(q, index)
  <2>1. ToSet(<<>>) = {}
    BY DEF ToSet
  <2>2. BasesByName(q, context) # <<>>
    BY <2>1
  <2> QED  BY <1>1, <2>2 DEF BasesByName
<1>3. c \in ClassesIn(modules) /\ c.qname = q
  BY <1>1, <1>2, IndexEntries DEF index
<1>4. BasesByName(q, context) = BasesOf(c, context)
  BY <1>1, <1>2 DEF BasesByName
<1> DEFINE r == Edge("inherits", ClassRef(q), ClassRef(b))
<1>5. \E k \in ClassesIn(modules) : \E d \in ToSet(BasesOf(k, Context(modules))) :
         r = Edge("inherits", ClassRef(k.qname), ClassRef(d))
  <2> HIDE DEF c
  <2> QED  BY <1>3, <1>4
<1>6. r \in build_relationships(ResolvedModules(modules)) /\ r.kind = "inherits"
  <2> HIDE DEF r, context
  <2> QED  BY <1>5, InheritsEdgesAre
<1>7. r \in EdgesOf("inherits")
  BY <1>6, DerivedFacts DEF EdgesOf
<1>8. r.source = ClassRef(q) /\ r.target = ClassRef(b)
  BY DEF Edge
<1> QED  BY <1>7, <1>8

\* And an edge is a base.
LEMMA EdgesAreBases ==
    ASSUME Derived, NEW r \in EdgesOf("inherits")
    PROVE  \E c \in ClassesIn(modules) : \E b \in ToSet(BasesOf(c, Context(modules))) :
              /\ r.source = ClassRef(c.qname) /\ r.target = ClassRef(b)
              /\ ClassRef(b) \in snapshot.entities
<1>1. r \in build_relationships(ResolvedModules(modules)) /\ r.kind = "inherits"
  BY DerivedFacts DEF EdgesOf
<1>2. PICK c \in ClassesIn(modules) : \E b \in ToSet(BasesOf(c, Context(modules))) :
         r = Edge("inherits", ClassRef(c.qname), ClassRef(b))
  BY <1>1, InheritsEdgesAre
<1>3. PICK b \in ToSet(BasesOf(c, Context(modules))) : r = Edge("inherits", ClassRef(c.qname), ClassRef(b))
  BY <1>2
<1>4. FactsOK(modules)
  BY DerivedFacts DEF Facts
<1>5. IsList(c.bases)
  <2>1. PICK m \in ToSet(Named(modules)) : c \in ToSet(m.classes)
    BY DEF ClassesIn
  <2> QED  BY <1>4, <2>1, NamedModules DEF FactsOK
<1>6. b \in DOMAIN Context(modules).index.classes
  BY <1>3, <1>5, BasesAreKnown
<1>7. ClassRef(b) \in snapshot.entities
  BY <1>6, DerivedEntities, ContextIndex DEF IsClass
<1> QED  BY <1>3, <1>7 DEF Edge

\* The ancestors of classes hold these and the bases of each of their own, and no others do
\* with less.
LEMMA AncestorsAre ==
    ASSUME Derived, NEW classes, \A c \in classes : c = ClassRef(c.id)
    PROVE  /\ classes \subseteq Ancestors(classes) /\ HoldsBases(Ancestors(classes))
           /\ \A c \in Ancestors(classes) : c = ClassRef(c.id) /\ (c \in classes \/ c \in snapshot.entities)
           /\ \A part : part \subseteq Ancestors(classes) /\ classes \subseteq part /\ HoldsBases(part)
                          => Ancestors(classes) = part
<1> DEFINE all == classes \union {e \in snapshot.entities : e.kind = "CLASS"}
           Holds(part) == classes \subseteq part /\ HoldsBases(part)
<1>1. Ancestors(classes) = {c \in all : \A part \in SUBSET all : Holds(part) => c \in part}
  BY DEF Ancestors
<1>2. \A c \in all : c = ClassRef(c.id)
  BY ClassEntities
<1>3. ASSUME NEW r \in EdgesOf("inherits"), r.source \in Ancestors(classes) PROVE r.target \in Ancestors(classes)
  <2>1. r.target \in all
    <3>1. PICK b : r.target = ClassRef(b) /\ ClassRef(b) \in snapshot.entities
      BY EdgesAreBases
    <3>2. ClassRef(b).kind = "CLASS"
      BY DEF ClassRef, Ref
    <3> QED  BY <3>1, <3>2
  <2>2. ASSUME NEW part \in SUBSET all, Holds(part) PROVE r.target \in part
    <3>1. r.source \in part
      BY <1>1, <1>3, <2>2
    <3> QED  BY <2>2, <3>1 DEF HoldsBases
  <2> HIDE DEF all, Holds
  <2> QED  BY <1>1, <2>1, <2>2
<1>4. classes \subseteq Ancestors(classes)
  BY <1>1
<1>5. ASSUME NEW part, part \subseteq Ancestors(classes), classes \subseteq part, HoldsBases(part)
      PROVE  Ancestors(classes) = part
  <2>1. part \in SUBSET all /\ Holds(part)
    BY <1>1, <1>5
  <2> HIDE DEF all, Holds
  <2>2. Ancestors(classes) \subseteq part
    BY <1>1, <2>1
  <2> QED  BY <1>5, <2>2
<1>6. \A c \in Ancestors(classes) : c = ClassRef(c.id) /\ (c \in classes \/ c \in snapshot.entities)
  BY <1>1, <1>2
<1>7. HoldsBases(Ancestors(classes))
  BY <1>3 DEF HoldsBases
<1> QED  BY <1>4, <1>5, <1>6, <1>7

NamesOf(classes) == {c.id : c \in classes}

\* The recursion over bases finds ancestors only, ...
LEMMA AncestorsInherit ==
    ASSUME Derived, NEW classes, \A c \in classes : c = ClassRef(c.id), NEW q, ClassRef(q) \in classes
    PROVE  Inherits(NamesOf(Ancestors(classes)), q, Context(modules))
<1> DEFINE A == NamesOf(Ancestors(classes))
<1>1. classes \subseteq Ancestors(classes) /\ HoldsBases(Ancestors(classes))
      /\ \A c \in Ancestors(classes) : c = ClassRef(c.id)
  BY AncestorsAre
<1>2. \A n : ClassRef(n).id = n
  BY DEF ClassRef, Ref
<1>3. q \in A
  BY <1>1, <1>2 DEF NamesOf
<1>4. ASSUME NEW n \in A, NEW b \in ToSet(BasesByName(n, Context(modules))) PROVE b \in A
  <2>1. ClassRef(n) \in Ancestors(classes)
    BY <1>1 DEF NamesOf
  <2>2. PICK r \in EdgesOf("inherits") : r.source = ClassRef(n) /\ r.target = ClassRef(b)
    BY BasesAreEdges
  <2>3. ClassRef(b) \in Ancestors(classes)
    BY <1>1, <2>1, <2>2 DEF HoldsBases
  <2> QED  BY <1>2, <2>3 DEF NamesOf
<1> HIDE DEF A
<1> QED  BY <1>3, <1>4 DEF Inherits, A

\* ... and all of them, if their names are those of one class each.
LEMMA AncestorsAreFound ==
    ASSUME Derived, NEW q, \A c \in Ancestors({ClassRef(q)}) : DefinedOnce(c.id),
           NEW S, Inherits(S, q, Context(modules))
    PROVE  NamesOf(Ancestors({ClassRef(q)})) \subseteq S
<1> DEFINE classes == {ClassRef(q)}
           part == {c \in Ancestors(classes) : c.id \in S}
<1>0. \A n : ClassRef(n).id = n
  BY DEF ClassRef, Ref
<1>1. /\ classes \subseteq Ancestors(classes) /\ HoldsBases(Ancestors(classes))
      /\ \A p : p \subseteq Ancestors(classes) /\ classes \subseteq p /\ HoldsBases(p) => Ancestors(classes) = p
  BY <1>0, AncestorsAre
<1>2. classes \subseteq part
  BY <1>0, <1>1 DEF Inherits
<1>3. ASSUME NEW r \in EdgesOf("inherits"), r.source \in part PROVE r.target \in part
  <2>1. PICK c \in ClassesIn(modules) : \E b \in ToSet(BasesOf(c, Context(modules))) :
              r.source = ClassRef(c.qname) /\ r.target = ClassRef(b)
    BY EdgesAreBases
  <2>2. PICK b \in ToSet(BasesOf(c, Context(modules))) : r.source = ClassRef(c.qname) /\ r.target = ClassRef(b)
    BY <2>1
  <2>3. c.qname \in S /\ DefinedOnce(c.qname)
    BY <1>0, <1>3, <2>2
  <2>4. BasesByName(c.qname, Context(modules)) = BasesOf(c, Context(modules))
    <3> DEFINE index == RepositoryIndex(modules)
    <3>1. FactsOK(modules) /\ Context(modules).index = index
      BY ContextIndex, DerivedFacts DEF Facts
    <3> HIDE DEF index
    <3>2. IsClass(c.qname, index)
      BY <3>1, IndexKnows DEF index
    <3>3. index.classes[c.qname] \in ClassesIn(modules) /\ index.classes[c.qname].qname = c.qname
      BY <3>1, <3>2, IndexEntries DEF index
    <3>4. index.classes[c.qname] = c
      BY <2>3, <3>3, OneClassFact
    <3> QED  BY <3>1, <3>2, <3>4 DEF BasesByName
  <2>5. b \in S
    BY <2>2, <2>3, <2>4 DEF Inherits
  <2>6. r.target \in Ancestors(classes)
    BY <1>1, <1>3 DEF HoldsBases
  <2> QED  BY <1>0, <2>2, <2>5, <2>6
<1>4. Ancestors(classes) = part
  <2>1. part \subseteq Ancestors(classes) /\ HoldsBases(part)
    BY <1>3 DEF HoldsBases
  <2> HIDE DEF part, classes
  <2> QED  BY <1>1, <1>2, <2>1
<1> QED  BY <1>4 DEF NamesOf

\* A method and the class it is of.
LEMMA MethodsOfClasses ==
    ASSUME Derived, NEW e, NEW class \in ClassesHaving(e)
    PROVE  \E f \in FunctionsIn(modules) :
              /\ f.owner # NoName /\ class = ClassRef(f.owner) /\ e = Ref("FUNCTION", f.qname)
              /\ f.qname = Append(f.owner, f.name) /\ IsList(f.owner) /\ class.id = f.owner
              /\ IsClass(f.owner, RepositoryIndex(modules))
<1>1. PICK r \in EdgesOf("contains") : r.target = e /\ r.source.kind = "CLASS" /\ class = r.source
  BY DEF ClassesHaving
<1>2. r \in build_relationships(ResolvedModules(modules)) /\ r.kind = "contains"
  BY DerivedFacts DEF EdgesOf
<1>3. PICK f \in FunctionsIn(modules) :
         f.owner # NoName /\ r = Edge("contains", ClassRef(f.owner), Ref("FUNCTION", f.qname))
  BY <1>1, <1>2, MethodEdgesAre
<1>4. class = ClassRef(f.owner) /\ e = Ref("FUNCTION", f.qname)
  BY <1>1, <1>3 DEF Edge
<1>5. class.id = f.owner
  BY <1>4 DEF ClassRef, Ref
<1>6. f.qname = Append(f.owner, f.name)
  <2>1. PICK file \in Sources : \E w \in Written(file) : f = FunctionFact(file, w)
    BY FunctionFrom
  <2>2. PICK w \in Written(file) : f = FunctionFact(file, w)
    BY <2>1
  <2>3. /\ f.qname = Append(w.scope.id, w.statement.name) /\ f.name = w.statement.name
        /\ f.owner = IF w.scope.kind = "CLASS" THEN w.scope.id ELSE NoName
    BY <2>2 DEF FunctionFact
  <2> QED  BY <1>3, <2>3
<1>7. IsClass(f.owner, RepositoryIndex(modules)) /\ IsList(f.owner)
  <2>1. FactsOK(modules) /\ Facts(modules)
    BY DerivedFacts DEF Facts
  <2>2. PICK m \in ToSet(Named(modules)) : f \in ToSet(m.functions)
    BY DEF FunctionsIn
  <2>3. PICK c \in ToSet(m.classes) : c.qname = f.owner
    BY <1>3, <2>1, <2>2, NamedModules DEF FactsOK
  <2>4. c \in ClassesIn(modules)
    BY <2>2 DEF ClassesIn
  <2>5. IsClass(f.owner, RepositoryIndex(modules))
    BY <2>1, <2>3, <2>4, IndexKnows
  <2> QED  BY <2>1, <2>5, NoNameIsNoClass
<1> QED  BY <1>3, <1>4, <1>5, <1>6, <1>7

\* What a method of a class calls on its own object.
LEMMA OwnMethods ==
    ASSUME Derived, NEW file \in Sources, NEW w \in Written(file), NEW class \in ClassesHaving(w.scope),
           IsOnlyCall(file, w), Head(w.statement.fn) = "self", KnownScope(w.scope)
    PROVE  /\ FactFile(file) \in ToSet(Named(modules)) /\ w.scope.kind = "FUNCTION"
           /\ \E sites, name : /\ ScopeOf(FactFile(file), w.scope, sites, class.id) /\ w.statement \in sites
                               /\ w.scope = Ref("FUNCTION", Append(class.id, name))
           /\ IsList(class.id) /\ class = ClassRef(class.id)
           /\ CallIn(file, w.scope, class.id, w.statement)
                 = resolve_method_on_class(class.id, Last(w.statement.fn), Context(modules))
<1>0. w.statement.is = "call" /\ Len(w.statement.fn) = 2
  BY DEF IsOnlyCall
<1>1. PICK f \in FunctionsIn(modules) :
              /\ f.owner # NoName /\ class = ClassRef(f.owner) /\ w.scope = Ref("FUNCTION", f.qname)
              /\ f.qname = Append(f.owner, f.name) /\ IsList(f.owner) /\ class.id = f.owner
  BY MethodsOfClasses
<1>2. w.scope.kind = "FUNCTION" /\ w.scope.id = f.qname
  BY <1>1 DEF Ref
<1>3. FactFile(file) \in ToSet(Named(modules))
  BY <1>0, KnownScopes
<1>4. PICK sites, owner : ScopeOf(FactFile(file), w.scope, sites, owner) /\ w.statement \in sites
  BY <1>0, KnownScopes
<1>5. PICK g \in ToSet(FactFile(file).functions) :
         w.scope = Ref("FUNCTION", g.qname) /\ sites = g.calls /\ owner = g.owner
  BY <1>2, <1>4 DEF ScopeOf, ModuleRef, Ref
<1>6. g = f
  <2>1. g \in FunctionsIn(modules)
    BY <1>3 DEF FunctionsIn
  <2>2. g.qname = f.qname
    BY <1>2, <1>5 DEF Ref
  <2>3. DefinedOnce(g.qname)
    BY <1>2, <2>2 DEF KnownScope
  <2> QED  BY <2>1, <2>2, <2>3, OneFunctionFact
<1>7. owner = class.id
  BY <1>1, <1>5, <1>6
<1>8. CallIn(file, w.scope, class.id, w.statement)
         = resolve_method_on_class(class.id, Last(w.statement.fn), Context(modules))
  <2> DEFINE locals == LocalsOfScope(w.scope, Context(modules))
             names == Context(modules).namespaces[NameOf(file)]
             context == Context(modules)
             own == Head(w.statement.fn) \in Receivers /\ class.id # NoName
  <2>1. own
    BY <1>1 DEF Receivers
  <2>2. CallIn(file, w.scope, class.id, w.statement)
           = resolve_call(class.id, locals, names, w.statement.fn, context)
    BY DEF CallIn
  <2> HIDE DEF locals, names, context, own
  <2>3. ReceiverClass(TRUE, class.id, locals, Lookup(names, Head(w.statement.fn)), w.statement.fn, context) = class.id
    BY <1>0 DEF ReceiverClass
  <2>4. resolve_call(class.id, locals, names, w.statement.fn, context)
           = MethodOn(class.id, Last(w.statement.fn), context)
    BY <1>0, <2>1, <2>3 DEF resolve_call, own
  <2> QED  BY <1>1, <2>2, <2>4 DEF MethodOn, context
<1> QED  BY <1>1, <1>2, <1>3, <1>4, <1>7, <1>8

\* The method found is that of the class, or else of one of its ancestors.
LEMMA OwnMethodFound ==
    ASSUME Derived, NEW q, IsList(q), \A c \in Ancestors({ClassRef(q)}) : DefinedOnce(c.id), NEW name
    PROVE  LET method(c) == Ref("FUNCTION", Append(c.id, name))
               having == {c \in Ancestors({ClassRef(q)}) : method(c) \in snapshot.entities}
               found == resolve_method_on_class(q, name, Context(modules))
           IN  /\ found = NoName <=> having = {}
               /\ found # NoName => \E c \in having : found = Append(c.id, name)
               /\ ClassRef(q) \in having => found = Append(q, name)
<1> DEFINE method(c) == Ref("FUNCTION", Append(c.id, name))
           ancestors == Ancestors({ClassRef(q)})
           having == {c \in ancestors : method(c) \in snapshot.entities}
           found == resolve_method_on_class(q, name, Context(modules))
           has(c) == IsFunction(Append(c, name), RepositoryIndex(modules))
           A == NamesOf(ancestors)
<1>0. ClassRef(q).id = q
  BY DEF ClassRef, Ref
<1>1. Inherits(A, q, Context(modules)) /\ \A S : Inherits(S, q, Context(modules)) => A \subseteq S
  <2>1. Inherits(A, q, Context(modules))
    BY <1>0, AncestorsInherit
  <2>2. \A S : Inherits(S, q, Context(modules)) => A \subseteq S
    BY AncestorsAreFound
  <2> QED  BY <2>1, <2>2
<1>2. FactsOK(modules)
  BY DerivedFacts DEF Facts
<1>3. /\ found = NoName <=> \A c \in A : ~has(c)
      /\ found # NoName => \E c \in A : has(c) /\ found = Append(c, name)
      /\ has(q) => found = Append(q, name)
  <2> HIDE DEF A
  <2> QED  BY <1>1, <1>2, MethodsAreInherited
<1>4. \A c : method(c) \in snapshot.entities <=> has(c.id)
  BY DerivedEntities
<1> HIDE DEF method, has, found, ancestors
<1>5. A = {c.id : c \in ancestors}
  BY DEF NamesOf
<1> HIDE DEF A
<1>6. found = NoName <=> having = {}
  BY <1>3, <1>4, <1>5
<1>7. found # NoName => \E c \in having : found = Append(c.id, name)
  BY <1>3, <1>4, <1>5
<1>8. ClassRef(q) \in having => found = Append(q, name)
  BY <1>0, <1>3, <1>4
<1> QED  BY <1>6, <1>7, <1>8 DEF method, found, ancestors

\* So a call on its own object goes to that method, and to no other.
LEMMA SelfCallsInherited ==
    ASSUME Derived, NEW file \in Sources, NEW w \in Written(file), NEW class \in ClassesHaving(w.scope),
           IsOnlyCall(file, w), Head(w.statement.fn) = "self", KnownScope(w.scope),
           \A c \in Ancestors({class}) : DefinedOnce(c.id)
    PROVE  LET method(c) == Ref("FUNCTION", Append(c.id, Last(w.statement.fn)))
               having == {c \in Ancestors({class}) : method(c) \in snapshot.entities}
               found == {method(c) : c \in having} \intersect CalledBy(w.scope)
           IN  (\A c \in having : ModuleRef(method(c).id) \notin snapshot.entities)
               => \/ having = {} /\ found = {}
                  \/ class \in having /\ found = {method(class)} \ {w.scope}
                  \/ class \notin having /\ Cardinality(found) = 1
<1> DEFINE name == Last(w.statement.fn)
           method(c) == Ref("FUNCTION", Append(c.id, name))
           having == {c \in Ancestors({class}) : method(c) \in snapshot.entities}
           found == {method(c) : c \in having} \intersect CalledBy(w.scope)
           first == resolve_method_on_class(class.id, name, Context(modules))
           Goal == \/ having = {} /\ found = {}
                   \/ class \in having /\ found = {method(class)} \ {w.scope}
                   \/ class \notin having /\ Cardinality(found) = 1
<1> SUFFICES ASSUME \A c \in having : ModuleRef(method(c).id) \notin snapshot.entities PROVE Goal
  OBVIOUS
<1>0. file \in ToSet(repository)
  BY DEF Sources
<1>1. /\ FactFile(file) \in ToSet(Named(modules)) /\ w.scope.kind = "FUNCTION"
      /\ IsList(class.id) /\ class = ClassRef(class.id)
      /\ CallIn(file, w.scope, class.id, w.statement) = first
  BY OwnMethods
<1>2. PICK sites, own : /\ ScopeOf(FactFile(file), w.scope, sites, class.id) /\ w.statement \in sites
                        /\ w.scope = Ref("FUNCTION", Append(class.id, own))
  BY OwnMethods
<1>3. /\ first = NoName <=> having = {}
      /\ first # NoName => \E c \in having : first = Append(c.id, name)
      /\ class \in having => first = Append(class.id, name)
  <2> DEFINE q == class.id
  <2>1. class = ClassRef(q) /\ IsList(q) /\ \A c \in Ancestors({ClassRef(q)}) : DefinedOnce(c.id)
    BY <1>1
  <2> HIDE DEF q, name
  <2>2. LET resolved == resolve_method_on_class(q, name, Context(modules))
            all == {c \in Ancestors({ClassRef(q)}) : method(c) \in snapshot.entities}
        IN  /\ resolved = NoName <=> all = {}
            /\ resolved # NoName => \E c \in all : resolved = Append(c.id, name)
            /\ ClassRef(q) \in all => resolved = Append(q, name)
    BY <2>1, OwnMethodFound
  <2>3. first = resolve_method_on_class(q, name, Context(modules))
    BY DEF q
  <2>4. {c \in Ancestors({ClassRef(q)}) : method(c) \in snapshot.entities} = having
    BY <2>1
  <2> HIDE DEF first, having, method
  <2> QED  BY <2>1, <2>2, <2>3, <2>4 DEF q
<1>4. \A c : method(c).id = Append(c.id, name)
  BY DEF Ref
<1>5. ASSUME NEW c \in having
      PROVE  /\ ModuleRef(c.id) \notin snapshot.entities /\ IsList(c.id) /\ c = ClassRef(c.id)
             /\ IsFunction(Append(c.id, name), Context(modules).index)
  <2>1. c \in Ancestors({class}) /\ DefinedOnce(c.id) /\ method(c) \in snapshot.entities
    OBVIOUS
  <2>2. c = ClassRef(c.id) /\ (c = class \/ c \in snapshot.entities)
    BY <1>1, <2>1, AncestorsAre
  <2>3. IsClass(c.id, Context(modules).index)
    <3>1. CASE c = class
      <4>1. PICK f \in FunctionsIn(modules) : class.id = f.owner /\ IsClass(f.owner, RepositoryIndex(modules))
        BY MethodsOfClasses
      <4> QED  BY <3>1, <4>1, ContextIndex
    <3>2. CASE c \in snapshot.entities
      <4>1. ClassRef(c.id).kind = "CLASS"
        BY DEF ClassRef, Ref
      <4> QED  BY <2>2, <3>2, <4>1, ClassEntities
    <3> QED  BY <2>2, <3>1, <3>2
  <2>4. ModuleRef(c.id) \notin snapshot.entities
    BY <2>1, <2>3, NoModuleOf, ContextIndex
  <2>5. IsList(c.id)
    BY <2>3, DerivedFacts, NoNameIsNoClass, ContextIndex
  <2>6. IsFunction(Append(c.id, name), Context(modules).index)
    BY <2>1, DerivedEntities, ContextIndex
  <2> QED  BY <2>2, <2>4, <2>5, <2>6
<1>6. ASSUME NEW t \in found PROVE t = Ref("FUNCTION", first) /\ t # w.scope /\ first # NoName
  <2>1. PICK c \in having : t = method(c)
    OBVIOUS
  <2>2. t \in CalledBy(w.scope) /\ t.id = Append(c.id, name) /\ ModuleRef(t.id) \notin snapshot.entities
    BY <1>4, <2>1
  <2>3. ModuleRef(c.id) \notin snapshot.entities /\ IsList(c.id)
    BY <1>5
  <2>4. t.id = CallIn(file, w.scope, class.id, w.statement) /\ t.id # w.scope.id
    <3> DEFINE q == c.id
               owner == class.id
    <3>1. /\ FactFile(file) \in ToSet(Named(modules)) /\ ScopeOf(FactFile(file), w.scope, sites, owner)
          /\ t.id = Append(q, Last(w.statement.fn)) /\ ModuleRef(q) \notin snapshot.entities /\ IsList(q)
          /\ t \in CalledBy(w.scope) /\ ModuleRef(t.id) \notin snapshot.entities
      BY <1>1, <1>2, <2>2, <2>3
    <3>2. CallsByName(file, w, sites, owner, t, q)
      BY <3>1 DEF CallsByName
    <3> HIDE DEF found, having, method, first, name, q, owner, Goal
    <3>3. t.id = CallIn(file, w.scope, owner, w.statement) /\ t.id # w.scope.id
      BY <3>2, OnlyCall
    <3> QED  BY <3>3 DEF owner
  <2>5. Append(c.id, name) # NoName
    BY <2>3, LastAdded
  <2> QED  BY <1>1, <2>1, <2>2, <2>4, <2>5
<1>7. ASSUME first # NoName, first # w.scope.id
      PROVE  Ref("FUNCTION", first) \in found
  <2>1. PICK c \in having : first = Append(c.id, name)
    BY <1>3, <1>7
  <2>2. IsFunction(first, Context(modules).index)
    BY <1>5, <2>1
  <2>3. CalledEntity(first, Context(modules).index) = Ref("FUNCTION", first)
    BY <2>2 DEF CalledEntity
  <2>4. FactFile(file).name = NameOf(file)
    BY DEF FactFile, analyze_module, NameOf
  <2>5. first = resolve_call(class.id, LocalsOfScope(w.scope, Context(modules)),
                             Context(modules).namespaces[FactFile(file).name], w.statement.fn, Context(modules))
    BY <1>1, <2>4 DEF CallIn
  <2>6. CalledEntity(first, Context(modules).index) \in CalledBy(w.scope)
    <3> HIDE DEF first
    <3> QED  BY <1>1, <1>2, <1>7, <2>5, CallIsEdge
  <2>7. method(c) = Ref("FUNCTION", first)
    BY <2>1
  <2> HIDE DEF first, having, method
  <2> QED  BY <2>1, <2>3, <2>6, <2>7
<1>8. w.scope.id = Append(class.id, own) /\ w.scope = Ref("FUNCTION", w.scope.id)
  BY <1>2 DEF Ref
<1>9. CASE having = {}
  BY <1>9
<1>10. CASE class \in having
  <2>1. first = Append(class.id, name) /\ first # NoName /\ method(class) = Ref("FUNCTION", first)
    BY <1>3, <1>10
  <2>2. found \subseteq {method(class)} \ {w.scope}
    <3> HIDE DEF found, first, method, having
    <3> QED  BY <1>6, <2>1
  <2>3. method(class) # w.scope => method(class) \in found
    <3>1. method(class) # w.scope => first # w.scope.id
      BY <1>8, <2>1
    <3> HIDE DEF found, first, method, having
    <3> QED  BY <1>7, <2>1, <3>1
  <2> HIDE DEF found, method, having
  <2>4. found = {method(class)} \ {w.scope}
    BY <2>2, <2>3
  <2> QED  BY <1>10, <2>4
<1>11. CASE having # {} /\ class \notin having
  <2>1. first # NoName
    BY <1>3, <1>11
  <2>2. PICK c \in having : first = Append(c.id, name)
    BY <1>3, <2>1
  <2>3. first # w.scope.id
    <3> SUFFICES ASSUME first = w.scope.id PROVE FALSE
      OBVIOUS
    <3>1. Append(c.id, name) = Append(class.id, own) /\ IsList(c.id) /\ c = ClassRef(c.id)
      BY <1>5, <1>8, <2>2
    <3>2. c.id = class.id
      <4> HIDE DEF having, name
      <4> QED  BY <1>1, <3>1, LongerAreEqual
    <3>3. c = class
      BY <1>1, <3>1, <3>2
    <3> QED  BY <1>11, <3>3
  <2> HIDE DEF found, first, having
  <2>4. found = {Ref("FUNCTION", first)}
    BY <1>6, <1>7, <2>1, <2>3
  <2>5. Cardinality(found) = 1
    BY <2>4, FS_Singleton
  <2> QED  BY <1>11, <2>5
<1> QED  BY <1>9, <1>10, <1>11

\* self.m() goes to a method of the class or of an ancestor, and to one only
\* (type_inference.py:79-109).
THEOREM SelfCallsInheritedOnly == RepositorySpec => []SelfCallsAreInherited
<1>1. Derived => SelfCallsAreInherited
  BY SelfCallsInherited DEF SelfCallsAreInherited
<1> QED  BY <1>1, RepositoriesTraversed, PTL

-----------------------------------------------------------------------------
(* Calls through variables.                                                *)

\* One more assignment leaves a variable with the type it had, or without one.
LEMMA OneTypeOnly ==
    ASSUME NEW types, NEW variable \in DOMAIN types, NEW type,
           types[variable] \in {NoName, type}, NEW a, NEW function, NEW context
    PROVE  LET after == Assigned(types, a, function, context)
           IN  variable \in DOMAIN after /\ after[variable] \in {NoName, type}
<1> DEFINE assigned == TypeAssigned(types, a, function, context)
           new == IF a.target \in DOMAIN types /\ types[a.target] # assigned THEN NoName ELSE assigned
           after == WithType(types, a.target, new)
<1>1. Assigned(types, a, function, context) = IF a.attribute THEN types ELSE after
  BY DEF Assigned, OneType
<1> HIDE DEF assigned
<1>2. /\ DOMAIN after = DOMAIN types \union {a.target}
      /\ \A v \in DOMAIN after : after[v] = IF v = a.target THEN new ELSE types[v]
  BY DEF WithType
<1> HIDE DEF after
<1>3. variable \in DOMAIN after /\ after[variable] \in {NoName, type}
  BY <1>2
<1> QED  BY <1>1, <1>3

\* A variable that has a type has the one of each call assigned to it.
LEMMA TypesAreAssigned ==
    ASSUME NEW function, NEW context, IsList(function.assignments),
           NEW i \in DOMAIN function.assignments, ~function.assignments[i].attribute,
           function.assignments[i].kind = "call", NEW variable, variable = function.assignments[i].target,
           Lookup(LocalTypes(function, context), variable) # NoName
    PROVE  Lookup(LocalTypes(function, context), variable)
              = ValueTypeFromCall(function.assignments[i].value, context.namespaces[function.module], context.index)
<1> DEFINE After == TypesAfter(function, context)
           N == Len(function.assignments)
           a == function.assignments[i]
           type == ValueTypeFromCall(a.value, context.namespaces[function.module], context.index)
           Has(types) == variable \in DOMAIN types /\ types[variable] \in {NoName, type}
           S == {k \in 0 .. N : k >= i => Has(After[k])}
<1>0. N \in Nat /\ i \in 1 .. N
  BY DEF IsList
<1>1. 0 \in S
  BY <1>0
<1>2. ASSUME NEW k \in 0 .. (N - 1), k \in S PROVE k + 1 \in S
  <2>1. After[k + 1] = Assigned(After[k], function.assignments[k + 1], function, context)
    BY <1>0, TypesLevels
  <2>2. k + 1 \in 0 .. N
    BY <1>0
  <2> HIDE DEF After, N
  <2>3. CASE k + 1 = i
    <3>1. After[k + 1] = OneType(After[k], variable, TypeAssigned(After[k], a, function, context))
      BY <2>1, <2>3 DEF Assigned
    <3>2. TypeAssigned(After[k], a, function, context) = type
      BY DEF TypeAssigned
    <3> HIDE DEF type
    <3>3. Has(After[k + 1])
      BY <3>1, <3>2 DEF OneType, WithType
    <3> QED  BY <2>2, <3>3
  <2>4. CASE k >= i
    <3>1. Has(After[k])
      BY <1>2, <2>4
    <3> HIDE DEF type
    <3>2. Has(Assigned(After[k], function.assignments[k + 1], function, context))
      BY <3>1, OneTypeOnly
    <3> HIDE DEF Has
    <3> QED  BY <2>1, <2>2, <3>2
  <2> HIDE DEF Has
  <2> QED  BY <1>0, <2>2, <2>3, <2>4
<1>3. Has(After[N])
  <2>1. N \in 0 .. N /\ N >= i
    BY <1>0
  <2>2. 0 .. N \subseteq S
    <3> HIDE DEF S, N
    <3> QED  BY <1>0, <1>1, <1>2, UpTo
  <2> HIDE DEF Has
  <2> QED  BY <2>1, <2>2
<1>4. LocalTypes(function, context) = WithKnownType(After[N])
  BY DEF LocalTypes
<1> HIDE DEF After, N, type
<1>5. Lookup(WithKnownType(After[N]), variable) \in {NoName, After[N][variable]}
  BY DEF WithKnownType, Restrict, Lookup
<1>6. Lookup(LocalTypes(function, context), variable) = type
  BY <1>3, <1>4, <1>5
<1> QED  BY <1>6 DEF type

\* The assignments of a scope that are recorded are those visited.
LEMMA AssignmentsHold ==
    ASSUME NEW body, IsList(Visited(body)), NEW s \in ToSet(Visited(body)), s.is = "assign", IsRecorded(s)
    PROVE  \E i \in DOMAIN Assignments(body) :
              Assignments(body)[i] = [target |-> Last(s.to), attribute |-> Len(s.to) = 2,
                                      kind |-> s.value.is, value |-> s.value.fn]
<1> DEFINE recorded == Only(Visited(body), {x \in ToSet(Visited(body)) : x.is = "assign" /\ IsRecorded(x)})
           assignment(x) == [target |-> Last(x.to), attribute |-> Len(x.to) = 2,
                             kind |-> x.value.is, value |-> x.value.fn]
<1>1. IsList(recorded) /\ s \in ToSet(recorded)
  BY OnlyIsList
<1>2. Assignments(body) = [i \in DOMAIN recorded |-> assignment(recorded[i])]
  BY DEF Assignments
<1> HIDE DEF recorded, assignment
<1>3. PICK i \in DOMAIN recorded : recorded[i] = s
  BY <1>1 DEF ToSet
<1>4. i \in DOMAIN Assignments(body) /\ Assignments(body)[i] = assignment(s)
  BY <1>2, <1>3
<1> QED  BY <1>4 DEF assignment

\* The type that a scope knows for a variable is the one of each call assigned to it there.
LEMMA LocalTypeAssigned ==
    ASSUME Derived, NEW file \in Sources, NEW scope, KnownScope(scope),
           NEW a \in WrittenIn(file, scope, "assign"), NEW variable, a.to = <<variable>>, a.value.is = "call",
           Lookup(LocalsOfScope(scope, Context(modules)), variable) # NoName
    PROVE  Lookup(LocalsOfScope(scope, Context(modules)), variable)
              = ValueTypeFromCall(a.value.fn, Context(modules).namespaces[NameOf(file)], Context(modules).index)
<1> DEFINE context == Context(modules)
           known == [index |-> RepositoryIndex(modules), namespaces |-> context.namespaces,
                     attributes |-> context.attributes]
           locals == LocalsOfScope(scope, context)
<1>0. file \in ToSet(repository) /\ file.parses /\ FileOK(file) /\ FactsOK(modules)
  BY DerivedFacts DEF Sources, Facts
<1>1. context.index = RepositoryIndex(modules)
      /\ context.locals = LocalsByFunction(Named(modules), known)
  BY ContextParts
<1>2. /\ scope.kind # "MODULE" /\ scope.id \in DOMAIN context.locals
      /\ locals = context.locals[scope.id]
  <2>1. Lookup(<<>>, variable) = NoName
    BY DEF Lookup
  <2>2. locals # <<>>
    BY <2>1
  <2>3. locals = IF scope.kind = "MODULE" THEN <<>> ELSE Lookup(context.locals, scope.id)
    BY DEF LocalsOfScope
  <2> HIDE DEF context, locals
  <2> QED  BY <2>2, <2>3 DEF Lookup, NoName
<1>3. PICK f \in FunctionsIn(modules) : f.qname = scope.id /\ locals = LocalTypes(f, known)
  <2> HIDE DEF known, context
  <2>1. \A q \in DOMAIN LocalsByFunction(Named(modules), known) :
           \E f \in FunctionsIn(modules) :
              f.qname = q /\ LocalsByFunction(Named(modules), known)[q] = LocalTypes(f, known)
    BY <1>0, LocalsOf
  <2> QED  BY <1>1, <1>2, <2>1
<1>4. PICK v \in Written(file) : v.scope = scope /\ v.statement = a /\ a.is = "assign"
  BY DEF WrittenIn
<1>5. PICK body : IsBody(file, scope, body) /\ a \in ToSet(Visited(body))
  BY <1>0, <1>4, WrittenAreHeld
<1>6. PICK w \in Written(file) :
         /\ IsWrittenAs(file, w, "def") /\ body = w.statement.body
         /\ scope = Ref("FUNCTION", FunctionFact(file, w).qname)
         /\ FunctionFact(file, w) \in ToSet(FactFile(file).functions)
         /\ FactFile(file) \in ToSet(Named(modules))
  <2>1. scope # ModuleRef(NameOf(file))
    BY <1>2 DEF ModuleRef, Ref
  <2> QED  BY <1>5, <2>1, KnownBodies
<1>7. f = FunctionFact(file, w)
  <2>1. FunctionFact(file, w) \in FunctionsIn(modules)
    BY <1>6 DEF FunctionsIn
  <2>2. FunctionFact(file, w).qname = f.qname /\ DefinedOnce(f.qname)
    BY <1>3, <1>6 DEF Ref, KnownScope
  <2> QED  BY <2>1, <2>2, OneFunctionFact
<1>8. f.assignments = Assignments(body) /\ f.module = NameOf(file)
  BY <1>6, <1>7 DEF FunctionFact
<1>9. IsList(Visited(body))
  <2>1. IsDefinition(w.statement)
    BY <1>6 DEF IsWrittenAs, IsDefinition
  <2> QED  BY <1>0, <1>6, <2>1, VisitedIsList
<1>10. IsList(f.assignments)
  BY <1>8, <1>9, AssignmentsAreList
<1>11. PICK i \in DOMAIN f.assignments :
         f.assignments[i] = [target |-> variable, attribute |-> FALSE, kind |-> "call", value |-> a.value.fn]
  <2>1. Len(a.to) = 1 /\ Last(a.to) = variable /\ Len(a.to) # 2
    BY DEF Last
  <2>2. IsRecorded(a)
    BY <2>1 DEF IsRecorded
  <2>3. \E i \in DOMAIN Assignments(body) :
           Assignments(body)[i] = [target |-> Last(a.to), attribute |-> Len(a.to) = 2,
                                   kind |-> a.value.is, value |-> a.value.fn]
    BY <1>4, <1>5, <1>9, <2>2, AssignmentsHold
  <2>4. (Len(a.to) = 2) = FALSE
    BY <2>1
  <2> QED  BY <1>8, <2>1, <2>3, <2>4
<1>12. Lookup(LocalTypes(f, known), variable)
          = ValueTypeFromCall(f.assignments[i].value, known.namespaces[f.module], known.index)
  <2>1. /\ ~f.assignments[i].attribute /\ f.assignments[i].kind = "call"
        /\ variable = f.assignments[i].target
    BY <1>11
  <2>2. Lookup(LocalTypes(f, known), variable) # NoName
    BY <1>3
  <2> HIDE DEF known
  <2> QED  BY <1>10, <2>1, <2>2, TypesAreAssigned
<1>13. f.assignments[i].value = a.value.fn /\ known.namespaces = context.namespaces /\ known.index = context.index
  BY <1>1, <1>11
<1> HIDE DEF known, context, locals
<1>14. locals = LocalTypes(f, known) /\ f.module = NameOf(file)
  BY <1>3, <1>8
<1>15. Lookup(locals, variable) = ValueTypeFromCall(a.value.fn, context.namespaces[NameOf(file)], context.index)
  BY <1>12, <1>13, <1>14
<1> QED  BY <1>15 DEF locals, context

\* The class made by a call of a plain name is one of those that the name gives.
LEMMA TypesGiven ==
    ASSUME Derived, NEW fn, Len(fn) = 1, NEW module,
           ValueTypeFromCall(fn, Context(modules).namespaces[module], Context(modules).index) # NoName
    PROVE  LET type == ValueTypeFromCall(fn, Context(modules).namespaces[module], Context(modules).index)
               given == ClassesGiven(Lookup(Context(modules).namespaces[module], Head(fn)), module, Context(modules))
           IN  /\ ClassRef(type) \in given /\ IsClass(type, Context(modules).index)
               /\ \A c \in given : c = ClassRef(c.id)
<1> DEFINE context == Context(modules)
           names == context.namespaces[module]
           callee == Lookup(names, Head(fn))
           type == ValueTypeFromCall(fn, names, context.index)
           given == ClassesGiven(callee, module, context)
<1>1. ~IsClass(NoName, context.index)
  BY DerivedFacts, TypesOfContext DEF ContextKnown
<1> HIDE DEF context
<1>2. type = TypeMade(callee, names, context.index)
  BY DEF ValueTypeFromCall
<1>3. IsClass(type, context.index)
  <2>1. type \in Types(context.index)
    BY <1>1, CallTypesKnown
  <2>2. type # NoName
    BY DEF context
  <2> QED  BY <2>1, <2>2 DEF Types, IsClass
<1>4. \A q : ClassRef(ClassRef(q).id) = ClassRef(q)
  BY DEF ClassRef, Ref
<1>5. \A annotation, other : \A c \in Classes(annotation, other, context) : c = ClassRef(c.id)
  BY <1>4 DEF Classes
<1>6. CASE IsFunction(callee, context.index) /\ ~IsClass(callee, context.index)
  <2> DEFINE factory == context.index.functions[callee]
  <2>1. given = Classes(factory.returns, factory.module, context) \union Classes(factory.returns, module, context)
    BY <1>6 DEF ClassesGiven
  <2>2. type = resolve_type_name(factory.returns, names, context.index)
    BY <1>2, <1>6 DEF TypeMade
  <2>3. type # NoName
    BY DEF context
  <2> HIDE DEF type, given, callee, factory
  <2>4. ClassRef(type) \in Classes(factory.returns, module, context)
    BY <2>2, <2>3 DEF Classes
  <2>5. ClassRef(type) \in given /\ \A c \in given : c = ClassRef(c.id)
    BY <1>5, <2>1, <2>4
  <2> QED  BY <1>3, <2>5 DEF type, given, callee, context
<1>7. CASE ~(IsFunction(callee, context.index) /\ ~IsClass(callee, context.index))
  <2>1. given = {ClassRef(callee)}
    BY <1>7 DEF ClassesGiven
  <2>2. type = callee
    <3>1. type # NoName
      BY DEF context
    <3> HIDE DEF type, callee
    <3> QED  BY <1>2, <1>7, <3>1 DEF TypeMade
  <2> HIDE DEF type, given, callee
  <2>3. ClassRef(type) \in given /\ \A c \in given : c = ClassRef(c.id)
    BY <1>4, <2>1, <2>2
  <2> QED  BY <1>3, <2>3 DEF type, given, callee, context
<1> QED  BY <1>6, <1>7

\* The method found for objects of a class is that of an ancestor of any classes that hold it.
LEMMA MethodOfAncestor ==
    ASSUME Derived, NEW q, IsClass(q, Context(modules).index),
           NEW classes, \A c \in classes : c = ClassRef(c.id), ClassRef(q) \in classes, NEW name,
           resolve_method_on_class(q, name, Context(modules)) # NoName
    PROVE  \E c : /\ IsList(c) /\ ClassRef(c) \in Ancestors(classes)
                  /\ resolve_method_on_class(q, name, Context(modules)) = Append(c, name)
<1> DEFINE context == Context(modules)
           walk == Walk(q, context)
           A == NamesOf(Ancestors(classes))
<1>1. HierarchyOK(context)
  BY DerivedFacts, TypesOfContext DEF ContextKnown
<1>2. /\ walk \in Seq(ClassesFrom(q, context))
      /\ \A S : Inherits(S, q, context) => ToSet(walk) \subseteq S
  <2> HIDE DEF context
  <2> QED  BY <1>1, WalkVisits
<1>3. Inherits(A, q, context)
  BY AncestorsInherit
<1>4. resolve_method_on_class(q, name, context) = FirstMethod(walk, name, context.index)
  BY DEF resolve_method_on_class
<1>5. PICK i \in DOMAIN walk : FirstMethod(walk, name, context.index) = Append(walk[i], name)
  <2>1. FirstMethod(walk, name, context.index) # NoName
    BY <1>4
  <2> HIDE DEF walk, context
  <2> QED  BY <1>2, <2>1, FirstMethodFound
<1>6. walk[i] \in A /\ walk[i] \in ClassesFrom(q, context)
  <2> HIDE DEF walk, context, A
  <2> QED  BY <1>2, <1>3 DEF ToSet
<1>7. IsList(walk[i])
  <2>1. IsClass(walk[i], context.index)
    <3> HIDE DEF walk, A
    <3> QED  BY <1>6 DEF ClassesFrom, IsClass
  <2>2. context.index = RepositoryIndex(modules)
    BY ContextIndex
  <2> HIDE DEF walk, context
  <2> QED  BY <2>1, <2>2, DerivedFacts, NoNameIsNoClass
<1> HIDE DEF walk
<1>8. PICK c \in Ancestors(classes) : c.id = walk[i]
  BY <1>6 DEF NamesOf
<1>9. c = ClassRef(c.id)
  BY AncestorsAre
<1> QED  BY <1>4, <1>5, <1>7, <1>8, <1>9

\* A call through a variable of a scope goes to a method of the type of the variable.
LEMMA CallOfVariable ==
    ASSUME Derived, NEW file, NEW scope, NEW owner, NEW s, Len(s.fn) = 2,
           Head(s.fn) \notin Receivers \union DOMAIN Context(modules).namespaces[NameOf(file)],
           CallIn(file, scope, owner, s) # NoName
    PROVE  LET type == Lookup(LocalsOfScope(scope, Context(modules)), Head(s.fn))
           IN  /\ type # NoName
               /\ CallIn(file, scope, owner, s) = resolve_method_on_class(type, Last(s.fn), Context(modules))
<1> DEFINE context == Context(modules)
           locals == LocalsOfScope(scope, context)
           names == context.namespaces[NameOf(file)]
           type == Lookup(locals, Head(s.fn))
           own == Head(s.fn) \in Receivers /\ owner # NoName
<1>1. CallIn(file, scope, owner, s) = resolve_call(owner, locals, names, s.fn, context)
  BY DEF CallIn
<1>2. ~own /\ Lookup(names, Head(s.fn)) = NoName
  BY DEF Lookup
<1>3. ~IsClass(NoName, context.index)
  BY DerivedFacts, TypesOfContext DEF ContextKnown
<1> HIDE DEF context, locals, names
<1>4. ReceiverClass(FALSE, owner, locals, NoName, s.fn, context) = type
  BY <1>3 DEF ReceiverClass
<1>5. own = FALSE
  BY <1>2
<1>6. resolve_call(owner, locals, names, s.fn, context) = MethodOn(type, Last(s.fn), context)
  <2>1. resolve_call(owner, locals, names, s.fn, context)
           = MethodOn(ReceiverClass(own, owner, locals, Lookup(names, Head(s.fn)), s.fn, context),
                      Last(s.fn), context)
    BY <1>2 DEF resolve_call
  <2> HIDE DEF type, own
  <2> QED  BY <1>2, <1>4, <1>5, <2>1
<1>7. type # NoName /\ MethodOn(type, Last(s.fn), context) = resolve_method_on_class(type, Last(s.fn), context)
  <2> HIDE DEF type
  <2> QED  BY <1>1, <1>6 DEF MethodOn
<1> QED  BY <1>1, <1>6, <1>7 DEF context, locals

\* So a call through a variable goes to a method of the class that each call of a plain name
\* assigned to it gives, or of an ancestor of that.
LEMMA ReceiversTyped ==
    ASSUME Derived, NEW file \in Sources, NEW w \in Written(file), IsOnlyCall(file, w), KnownScope(w.scope),
           Head(w.statement.fn) \notin Receivers \union DOMAIN Context(modules).namespaces[NameOf(file)],
           NEW a \in WrittenIn(file, w.scope, "assign"),
           a.to = <<Head(w.statement.fn)>>, a.value.is = "call", Len(a.value.fn) = 1,
           NEW t \in CalledBy(w.scope), NEW class \in ClassesHaving(t),
           t.id = Append(class.id, Last(w.statement.fn)),
           {ModuleRef(t.id), ModuleRef(class.id)} \intersect snapshot.entities = {}
    PROVE  class \in Ancestors(ClassesGiven(
               Lookup(Context(modules).namespaces[NameOf(file)], Head(a.value.fn)), NameOf(file), Context(modules)))
<1> DEFINE context == Context(modules)
           name == Last(w.statement.fn)
           q == class.id
           given == ClassesGiven(Lookup(context.namespaces[NameOf(file)], Head(a.value.fn)), NameOf(file), context)
           type == Lookup(LocalsOfScope(w.scope, context), Head(w.statement.fn))
<1>0. w.statement.is = "call" /\ Len(w.statement.fn) = 2
  BY DEF IsOnlyCall
<1>1. IsList(q) /\ class = ClassRef(q)
  BY MethodsOfClasses
<1>2. FactFile(file) \in ToSet(Named(modules))
  BY <1>0, KnownScopes
<1>3. PICK sites, owner : ScopeOf(FactFile(file), w.scope, sites, owner)
  BY <1>0, KnownScopes
<1>4. t.id = CallIn(file, w.scope, owner, w.statement)
  <2>1. /\ FactFile(file) \in ToSet(Named(modules)) /\ ScopeOf(FactFile(file), w.scope, sites, owner)
        /\ t.id = Append(q, Last(w.statement.fn)) /\ ModuleRef(q) \notin snapshot.entities /\ IsList(q)
        /\ t \in CalledBy(w.scope) /\ ModuleRef(t.id) \notin snapshot.entities
    BY <1>1, <1>2, <1>3
  <2>2. CallsByName(file, w, sites, owner, t, q)
    BY <2>1 DEF CallsByName
  <2> HIDE DEF q, name, given, type, context
  <2> QED  BY <2>2, OnlyCall
<1>5. t.id # NoName
  BY <1>1, LastAdded
<1>6. type # NoName /\ t.id = resolve_method_on_class(type, name, context)
  <2>1. CallIn(file, w.scope, owner, w.statement) # NoName
    BY <1>4, <1>5
  <2> QED  BY <1>0, <1>4, <2>1, CallOfVariable
<1>7. type = ValueTypeFromCall(a.value.fn, context.namespaces[NameOf(file)], context.index)
  <2> DEFINE scope == w.scope
             variable == Head(w.statement.fn)
  <2>1. /\ KnownScope(scope) /\ a \in WrittenIn(file, scope, "assign") /\ a.to = <<variable>>
        /\ Lookup(LocalsOfScope(scope, Context(modules)), variable) # NoName
    BY <1>6
  <2> HIDE DEF scope, variable
  <2>2. Lookup(LocalsOfScope(scope, Context(modules)), variable)
           = ValueTypeFromCall(a.value.fn, Context(modules).namespaces[NameOf(file)], Context(modules).index)
    BY <2>1, LocalTypeAssigned
  <2> QED  BY <2>2 DEF scope, variable
<1>8. /\ ClassRef(type) \in given /\ IsClass(type, context.index)
      /\ \A c \in given : c = ClassRef(c.id)
  <2> DEFINE fn == a.value.fn
             module == NameOf(file)
             made == ValueTypeFromCall(fn, Context(modules).namespaces[module], Context(modules).index)
  <2>1. Len(fn) = 1 /\ made # NoName
    BY <1>6, <1>7
  <2>2. /\ ClassRef(made) \in given /\ IsClass(made, Context(modules).index)
        /\ \A c \in given : c = ClassRef(c.id)
    BY <2>1, TypesGiven
  <2>3. type = made
    BY <1>7
  <2> HIDE DEF type, made, given
  <2> QED  BY <2>2, <2>3
<1> HIDE DEF given, type
<1>9. PICK c : IsList(c) /\ ClassRef(c) \in Ancestors(given) /\ t.id = Append(c, name)
  <2> HIDE DEF name
  <2> QED  BY <1>5, <1>6, <1>8, MethodOfAncestor
<1>10. c = q
  <2> HIDE DEF name, q
  <2>1. Append(c, name) = Append(q, name)
    BY <1>9 DEF name, q
  <2> QED  BY <1>1, <1>9, <2>1, LongerAreEqual
<1> QED  BY <1>1, <1>9, <1>10 DEF given

\* A call through a variable goes to a method of the class that each call of a plain name
\* assigned to it gives, whatever else is assigned to it (type_inference.py:144-175, 257-304).
THEOREM ReceiversTypedOnly == RepositorySpec => []ReceiversHaveTheirType
<1>1. Derived => ReceiversHaveTheirType
  <2> SUFFICES ASSUME Derived PROVE TypesAgree(Context(modules))
    BY DEF ReceiversHaveTheirType
  <2> QED  BY ReceiversTyped DEF TypesAgree
<1> QED  BY <1>1, RepositoriesTraversed, PTL
=============================================================================
