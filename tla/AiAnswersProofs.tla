--------------------------- MODULE AiAnswersProofs ---------------------------
(***************************************************************************)
(* Proofs about AiAnswers, for any snapshot contents and any replies: the  *)
(* table offered to the model has each entity found once, an answer holds  *)
(* nothing else, its confidence rests on what survived, its verdict tells  *)
(* what became of the reply, also of what has another form than asked.     *)
(***************************************************************************)
EXTENDS AiAnswers, ListLemmas

InputsOf(c) == IF c = "impact" THEN ImpactFacts ELSE Retrievals
RepliesTo(c) == IF c = "change" THEN ChangeReplies ELSE CitedReplies

\* The table offers what was found, each entity once.
OffersWhatWasFound ==
    /\ {Candidates[id] : id \in DOMAIN Candidates} = Found
    /\ \A i, j \in DOMAIN Candidates : Candidates[i] = Candidates[j] => i = j

\* The confidence that an answer with these entities earns.
EarnedLevel(kept) ==
    IF command = "impact"
    THEN IF context.truncated THEN "medium" ELSE "high"
    ELSE IF kept \intersect Found # {} \/ (context.convention /\ kept # {}) THEN "medium" ELSE "low"

\* An answer rests on what was found and on proposals.
Sound(r) ==
    r.exit = 0 =>
        /\ r.kept # {} => r.kept \subseteq Found \union ((UNION Proposals) \ Existing)
        /\ context # Nothing => r.confidence = EarnedLevel(r.kept)

\* What an answer tells of the fields that have another form than asked.
Tells(r) ==
    r.exit = 0 /\ reply # Nothing /\ ~(command = "impact" /\ r = FactsAlone) =>
        \A f \in MisshapenIn(reply) :
            IF f = "potential_impact" THEN reply[f].form \in {"text", "object"}
            ELSE \/ reply[f].form = "object" /\ Unknown(reply[f].ids) \subseteq r.dropped
                 \/ /\ reply[f].form \in {"text", "unreasoned"}
                    /\ KeptOf(f) = {} /\ r.grounding # "valid"

\* An answer, or the exit code of a failure.
Outcome(r) ==
    \/ r.exit \in 1 .. 4
    \/ /\ r.exit = 0 /\ r.confidence \in Confidences /\ r.grounding \in Verdicts
       /\ r.grounding = "valid" <=> r.dropped = {}
       /\ r.grounding = "invalid" <=> r.dropped # {} /\ r.kept = {}

IInv ==
    /\ command \in Commands
    /\ stage \in {"load", "look", "request", "answer", "exited"}
    /\ context \in {Nothing} \union Retrievals \union ImpactFacts
    /\ reply \in {Nothing} \union ChangeReplies \union CitedReplies
    /\ stage \in {"load", "look", "request"} => reply = Nothing
    /\ stage \in {"request", "answer"} => context \in InputsOf(command)
    /\ stage = "answer" => reply \in RepliesTo(command)
    /\ stage = "exited" => Outcome(result) /\ Sound(result) /\ Tells(result)

-----------------------------------------------------------------------------
(* Lists and tables.                                                       *)

\* FirstSeen adds what it has not kept yet.
LEMMA FirstSeenLoop ==
    ASSUME NEW T, NEW s \in Seq(T)
    PROVE  \E f : /\ f[0] = <<>> /\ f[Len(s)] = FirstSeen(s)
                  /\ \A i \in 1 .. Len(s) :
                        f[i] = IF s[i] \in ToSet(f[i - 1]) THEN f[i - 1] ELSE Append(f[i - 1], s[i])
<1> DEFINE n == Len(s)
           step(v, x) == IF x \in ToSet(v) THEN v ELSE Append(v, x)
           g == [x \in T |-> [v \in Seq(T) |-> step(v, x)]]
           Eq(F) == F = [P \in SUBSET DOMAIN s |->
                           IF P = {} THEN <<>> ELSE step(F[P \ {Max(P)}], s[Max(P)])]
           F == CHOOSE h : Eq(h)
           f == [i \in 0 .. n |-> F[1 .. i]]
<1>0. n \in Nat /\ DOMAIN s = 1 .. n /\ \A i \in 1 .. n : s[i] \in T
  OBVIOUS
<1>1. <<>> \in Seq(T) /\ g \in [T -> [Seq(T) -> Seq(T)]]
  OBVIOUS
<1>2. PICK h : h \in Folds(n, s, Seq(T), <<>>, g)
  <2> HIDE DEF g
  <2>1. Folds(n, s, Seq(T), <<>>, g) # {}
    BY <1>1, FoldExists
  <2> QED  BY <2>1
<1>3. Eq(h)
  <2>1. ASSUME NEW P \in SUBSET (1 .. n)
        PROVE  h[P] = IF P = {} THEN <<>> ELSE step(h[P \ {Max(P)}], s[Max(P)])
    <3>1. CASE P = {}
      BY <1>2, <3>1 DEF Folds
    <3>2. CASE P # {}
      <4>1. h[P] = g[s[Max(P)]][h[P \ {Max(P)}]]
        BY <1>2, <3>2 DEF Folds
      <4>2. Max(P) \in P /\ s[Max(P)] \in T
        BY <1>0, <3>2, PartHasLargest
      <4>3. h[P \ {Max(P)}] \in Seq(T)
        BY <1>2 DEF Folds
      <4> QED  BY <3>2, <4>1, <4>2, <4>3
    <3> QED  BY <3>1, <3>2
  <2> QED  BY <1>0, <1>2, <2>1 DEF Folds
<1>4. Eq(F)
  <2> HIDE DEF Eq
  <2> QED  BY <1>3, Zenon
<1>5. FirstSeen(s) = F[DOMAIN s]
  BY DEF FirstSeen, FoldLeft, MapThenFoldSet
<1>6. \A P \in SUBSET (1 .. n) : F[P] = IF P = {} THEN <<>> ELSE step(F[P \ {Max(P)}], s[Max(P)])
  <2> HIDE DEF F, step
  <2> QED  BY <1>0, <1>4
<1> HIDE DEF F
<1>7. f[0] = <<>> /\ f[n] = F[DOMAIN s]
  <2>1. 1 .. 0 = {} /\ {} \in SUBSET (1 .. n) /\ 0 \in 0 .. n /\ n \in 0 .. n
    BY <1>0
  <2>2. F[{}] = <<>>
    BY <1>6, <2>1
  <2>3. f[0] = F[1 .. 0] /\ f[n] = F[1 .. n]
    BY <2>1
  <2> QED  BY <1>0, <2>1, <2>2, <2>3
<1>8. ASSUME NEW i \in 1 .. n PROVE f[i] = step(f[i - 1], s[i])
  <2>1. F[1 .. i] = step(F[1 .. (i - 1)], s[i])
    BY <1>0, <1>6, FirstElements
  <2>2. f[i] = F[1 .. i] /\ f[i - 1] = F[1 .. (i - 1)]
    BY <1>0
  <2> QED  BY <2>1, <2>2
<1> QED
  BY <1>0, <1>5, <1>7, <1>8

\* Everything seen is kept, once.
LEMMA FirstSeenKeeps ==
    ASSUME NEW T, NEW s \in Seq(T)
    PROVE  /\ FirstSeen(s) \in Seq(T)
           /\ ToSet(FirstSeen(s)) = ToSet(s)
           /\ IsInjective(FirstSeen(s))
<1> DEFINE n == Len(s)
           seen(k) == {s[i] : i \in 1 .. k}
           Good(v, k) == v \in Seq(T) /\ ToSet(v) = seen(k) /\ IsInjective(v)
<1>0. n \in Nat /\ DOMAIN s = 1 .. n /\ \A i \in 1 .. n : s[i] \in T
  OBVIOUS
<1>1. PICK f : /\ f[0] = <<>> /\ f[n] = FirstSeen(s)
               /\ \A i \in 1 .. n :
                     f[i] = IF s[i] \in ToSet(f[i - 1]) THEN f[i - 1] ELSE Append(f[i - 1], s[i])
  BY FirstSeenLoop
<1> DEFINE Done == {k \in 0 .. n : Good(f[k], k)}
<1>2. 0 \in Done
  <2>1. seen(0) = {} /\ ToSet(<<>>) = {} /\ IsInjective(<<>>) /\ <<>> \in Seq(T)
    BY DEF ToSet, IsInjective
  <2>2. Good(f[0], 0)
    BY <1>1, <2>1
  <2> HIDE DEF Good
  <2> QED  BY <1>0, <2>2
<1>3. ASSUME NEW k \in 0 .. (n - 1), k \in Done PROVE k + 1 \in Done
  <2> DEFINE v == f[k]
             x == s[k + 1]
  <2>1. Good(v, k) /\ k + 1 \in 1 .. n /\ k + 1 \in 0 .. n /\ x \in T
    BY <1>0, <1>3
  <2>2. f[k + 1] = IF x \in ToSet(v) THEN v ELSE Append(v, x)
    BY <1>1, <2>1
  <2>3. seen(k + 1) = seen(k) \union {x}
    OBVIOUS
  <2>4. Good(f[k + 1], k + 1)
    <3>1. CASE x \in ToSet(v)
      BY <2>1, <2>2, <2>3, <3>1
    <3>2. CASE x \notin ToSet(v)
      BY <2>1, <2>2, <2>3, <3>2, AppendAdds
    <3> QED  BY <3>1, <3>2
  <2> HIDE DEF Good
  <2> QED  BY <2>1, <2>4
<1>4. n \in Done
  <2> HIDE DEF Done, n
  <2>1. 0 .. n \subseteq Done
    BY <1>0, <1>2, <1>3, UpTo
  <2> QED  BY <1>0, <2>1
<1>5. seen(n) = ToSet(s)
  BY <1>0 DEF ToSet
<1> QED  BY <1>1, <1>4, <1>5

-----------------------------------------------------------------------------
(* Candidate tables.                                                       *)

\* A table has an id for each entity of its lists, and one only if none is listed twice.
LEMMA TableHoldsItsLists ==
    ASSUME NEW files, NEW tests, NEW symbols, NEW table,
           table = CandidateSet(files, tests, symbols)
    PROVE  /\ {table[id] : id \in DOMAIN table} = ToSet(files) \union ToSet(tests) \union ToSet(symbols)
           /\ /\ IsInjective(files) /\ IsInjective(tests) /\ IsInjective(symbols)
              /\ ToSet(files) \intersect ToSet(tests) = {}
              /\ ToSet(files) \intersect ToSet(symbols) = {}
              /\ ToSet(tests) \intersect ToSet(symbols) = {}
              => \A i, j \in DOMAIN table : table[i] = table[j] => i = j
<1> DEFINE F == {"FILE"} \X DOMAIN files
           E == {"TEST"} \X DOMAIN tests
           S == {"SYMBOL"} \X DOMAIN symbols
<1>1. DOMAIN table = F \union E \union S
  BY DEF CandidateSet, IdsOf
<1>2. \A id \in F : id[1] = "FILE" /\ id[2] \in DOMAIN files /\ id = <<"FILE", id[2]>>
  OBVIOUS
<1>3. \A id \in E : id[1] = "TEST" /\ id[2] \in DOMAIN tests /\ id = <<"TEST", id[2]>>
  OBVIOUS
<1>4. \A id \in S : id[1] = "SYMBOL" /\ id[2] \in DOMAIN symbols /\ id = <<"SYMBOL", id[2]>>
  OBVIOUS
<1>5. \A id \in F : table[id] = files[id[2]]
  BY <1>2 DEF CandidateSet, IdsOf
<1>6. \A id \in E : table[id] = tests[id[2]]
  BY <1>3 DEF CandidateSet, IdsOf
<1>7. \A id \in S : table[id] = symbols[id[2]]
  BY <1>4 DEF CandidateSet, IdsOf
<1>8. /\ \A i \in DOMAIN files : <<"FILE", i>> \in F
      /\ \A i \in DOMAIN tests : <<"TEST", i>> \in E
      /\ \A i \in DOMAIN symbols : <<"SYMBOL", i>> \in S
  OBVIOUS
<1>9. /\ \A i \in DOMAIN files : table[<<"FILE", i>>] = files[i]
      /\ \A i \in DOMAIN tests : table[<<"TEST", i>>] = tests[i]
      /\ \A i \in DOMAIN symbols : table[<<"SYMBOL", i>>] = symbols[i]
  BY <1>5, <1>6, <1>7, <1>8
<1> HIDE DEF F, E, S
<1>10. {table[id] : id \in DOMAIN table} = ToSet(files) \union ToSet(tests) \union ToSet(symbols)
  <2>1. \A id \in DOMAIN table : table[id] \in ToSet(files) \union ToSet(tests) \union ToSet(symbols)
    BY <1>1, <1>2, <1>3, <1>4, <1>5, <1>6, <1>7 DEF ToSet
  <2>2. \A e \in ToSet(files) : \E id \in DOMAIN table : table[id] = e
    BY <1>1, <1>8, <1>9 DEF ToSet
  <2>3. \A e \in ToSet(tests) : \E id \in DOMAIN table : table[id] = e
    BY <1>1, <1>8, <1>9 DEF ToSet
  <2>4. \A e \in ToSet(symbols) : \E id \in DOMAIN table : table[id] = e
    BY <1>1, <1>8, <1>9 DEF ToSet
  <2> QED  BY <2>1, <2>2, <2>3, <2>4
<1>11. ASSUME /\ IsInjective(files) /\ IsInjective(tests) /\ IsInjective(symbols)
              /\ ToSet(files) \intersect ToSet(tests) = {}
              /\ ToSet(files) \intersect ToSet(symbols) = {}
              /\ ToSet(tests) \intersect ToSet(symbols) = {},
              NEW i \in DOMAIN table, NEW j \in DOMAIN table, table[i] = table[j]
       PROVE  i = j
  <2>1. \A id \in F : table[id] \in ToSet(files)
    BY <1>2, <1>5 DEF ToSet
  <2>2. \A id \in E : table[id] \in ToSet(tests)
    BY <1>3, <1>6 DEF ToSet
  <2>3. \A id \in S : table[id] \in ToSet(symbols)
    BY <1>4, <1>7 DEF ToSet
  <2>4. CASE i \in F
    <3>1. j \in F
      BY <1>1, <1>11, <2>1, <2>2, <2>3, <2>4
    <3> QED  BY <1>2, <1>5, <1>11, <2>4, <3>1 DEF IsInjective
  <2>5. CASE i \in E
    <3>1. j \in E
      BY <1>1, <1>11, <2>1, <2>2, <2>3, <2>5
    <3> QED  BY <1>3, <1>6, <1>11, <2>5, <3>1 DEF IsInjective
  <2>6. CASE i \in S
    <3>1. j \in S
      BY <1>1, <1>11, <2>1, <2>2, <2>3, <2>6
    <3> QED  BY <1>4, <1>7, <1>11, <2>6, <3>1 DEF IsInjective
  <2> QED  BY <1>1, <2>4, <2>5, <2>6
<1> QED  BY <1>10, <1>11

-----------------------------------------------------------------------------
(* What a command has found is what it offers the provider.                *)


\* Three lists without overlap and repetition offer what was found if together they hold it.
LEMMA SplitIsOffered ==
    ASSUME NEW files, NEW tests, NEW symbols,
           Candidates = CandidateSet(files, tests, symbols),
           IsInjective(files), IsInjective(tests), IsInjective(symbols),
           ToSet(files) \intersect ToSet(tests) = {},
           ToSet(files) \intersect ToSet(symbols) = {},
           ToSet(tests) \intersect ToSet(symbols) = {},
           Found = ToSet(files) \union ToSet(tests) \union ToSet(symbols)
    PROVE  OffersWhatWasFound
<1> DEFINE table == Candidates
<1>1. table = CandidateSet(files, tests, symbols)
  OBVIOUS
<1> HIDE DEF table
<1>2. /\ {table[id] : id \in DOMAIN table} = ToSet(files) \union ToSet(tests) \union ToSet(symbols)
      /\ \A i, j \in DOMAIN table : table[i] = table[j] => i = j
  BY <1>1, TableHoldsItsLists
<1> QED  BY <1>2 DEF OffersWhatWasFound, table

\* ask and change offer their retrieval.
LEMMA RetrievedAreOffered ==
    ASSUME command # "impact", context \in Retrievals
    PROVE  OffersWhatWasFound
<1> DEFINE files == context.files
           symbols == context.symbols
           tests == {f \in ToSet(files) : f.test}
           others == ToSet(files) \ tests
<1>1. /\ files \in Seq(ToSet(files)) /\ IsInjective(files)
      /\ IsList(files) /\ IsList(symbols) /\ IsInjective(symbols)
      /\ ToSet(files) \intersect ToSet(symbols) = {}
  BY InputsAssumption DEF IsList
<1>2. Candidates = CandidateSet(Only(files, others), Only(files, tests), symbols)
  BY DEF Candidates, build_candidate_set
<1>3. Found = ToSet(files) \union ToSet(symbols)
  BY <1>1, ListsTogether DEF Found
<1>4. tests \in SUBSET ToSet(files) /\ others \in SUBSET ToSet(files) /\ others = ToSet(files) \ tests
  OBVIOUS
<1> HIDE DEF files, symbols, tests, others
<1>5. ToSet(Only(files, others)) = others /\ IsInjective(Only(files, others))
  BY <1>1, <1>4, OnlyOfPart
<1>6. ToSet(Only(files, tests)) = tests /\ IsInjective(Only(files, tests))
  BY <1>1, <1>4, OnlyOfPart
<1>7. /\ others \intersect tests = {} /\ others \intersect ToSet(symbols) = {}
      /\ tests \intersect ToSet(symbols) = {}
      /\ Found = others \union tests \union ToSet(symbols)
  BY <1>1, <1>3, <1>4
<1> QED
  BY <1>1, <1>2, <1>5, <1>6, <1>7, SplitIsOffered

\* impact offers its target and the facts about it.
LEMMA FactsAreOffered ==
    ASSUME command = "impact", context \in ImpactFacts
    PROVE  OffersWhatWasFound
<1> DEFINE refs == <<context.target>> \o context.direct \o context.indirect \o context.tests
           once == FirstSeen(refs)
           tests == {r \in ToSet(refs) : r.test}
           whole == {r \in ToSet(refs) : r.kind \in {"FILE", "MODULE"}}
           parts == ToSet(refs) \ (whole \union tests)
<1>1. IsList(context.direct) /\ IsList(context.indirect) /\ IsList(context.tests)
  BY InputsAssumption
<1>2. /\ IsList(refs)
      /\ ToSet(refs) = {context.target} \union ToSet(context.direct)
                       \union ToSet(context.indirect) \union ToSet(context.tests)
  <2>1. IsList(<<context.target>> \o context.direct)
        /\ ToSet(<<context.target>> \o context.direct) = {context.target} \union ToSet(context.direct)
    BY <1>1, ListOfOne, ListsTogether
  <2>2. IsList(<<context.target>> \o context.direct \o context.indirect)
        /\ ToSet(<<context.target>> \o context.direct \o context.indirect)
              = {context.target} \union ToSet(context.direct) \union ToSet(context.indirect)
    BY <1>1, <2>1, ListsTogether
  <2> QED  BY <1>1, <2>2, ListsTogether
<1>3. Found = ToSet(refs)
  <2>1. IsList(context.direct \o context.indirect)
        /\ ToSet(context.direct \o context.indirect) = ToSet(context.direct) \union ToSet(context.indirect)
    BY <1>1, ListsTogether
  <2>2. ToSet(context.direct \o context.indirect \o context.tests)
          = ToSet(context.direct) \union ToSet(context.indirect) \union ToSet(context.tests)
    BY <1>1, <2>1, ListsTogether
  <2> QED  BY <1>2, <2>2 DEF Found
<1>4. Candidates = CandidateSet(Only(once, whole \ tests), Only(once, tests), Only(once, parts))
  BY DEF Candidates, build_candidate_set_from_refs
<1>5. /\ tests \in SUBSET ToSet(refs) /\ whole \in SUBSET ToSet(refs) /\ parts \in SUBSET ToSet(refs)
      /\ whole \ tests \in SUBSET ToSet(refs)
      /\ parts = ToSet(refs) \ (whole \union tests)
  OBVIOUS
<1>6. once \in Seq(ToSet(refs)) /\ ToSet(once) = ToSet(refs) /\ IsInjective(once)
  BY <1>2, FirstSeenKeeps DEF IsList
<1> HIDE DEF refs, once, tests, whole, parts
<1>7. /\ ToSet(Only(once, whole \ tests)) = whole \ tests
      /\ IsInjective(Only(once, whole \ tests))
  BY <1>5, <1>6, OnlyOfPart
<1>8. ToSet(Only(once, tests)) = tests /\ IsInjective(Only(once, tests))
  BY <1>5, <1>6, OnlyOfPart
<1>9. ToSet(Only(once, parts)) = parts /\ IsInjective(Only(once, parts))
  BY <1>5, <1>6, OnlyOfPart
<1>10. /\ (whole \ tests) \intersect tests = {} /\ (whole \ tests) \intersect parts = {}
       /\ tests \intersect parts = {}
       /\ Found = (whole \ tests) \union tests \union parts
  BY <1>3, <1>5
<1> QED
  BY <1>4, <1>7, <1>8, <1>9, <1>10, SplitIsOffered

\* Every command offers exactly what it has found, each entity under one id.
LEMMA CandidatesAreFound ==
    ASSUME context \in InputsOf(command)
    PROVE  OffersWhatWasFound
  BY RetrievedAreOffered, FactsAreOffered DEF InputsOf

-----------------------------------------------------------------------------
(* Verdicts.                                                               *)

\* The verdict on a field is valid if the table knows its ids, invalid if it has ids
\* and the table knows none.
LEMMA FieldVerdictTells ==
    ASSUME NEW table, NEW ids
    PROVE  /\ FieldVerdict(table, ids) \in Verdicts
           /\ FieldVerdict(table, ids) = "valid" <=> ids \subseteq DOMAIN table
           /\ FieldVerdict(table, ids) = "invalid" <=>
                ~(ids \subseteq DOMAIN table) /\ ids \intersect DOMAIN table = {}
<1>1. CASE ids \subseteq DOMAIN table
  BY <1>1 DEF FieldVerdict, Verdicts
<1>2. CASE ~(ids \subseteq DOMAIN table) /\ ids \intersect DOMAIN table = {}
  BY <1>2 DEF FieldVerdict, Verdicts
<1>3. CASE ~(ids \subseteq DOMAIN table) /\ ids \intersect DOMAIN table # {}
  BY <1>3 DEF FieldVerdict, Verdicts
<1> QED
  BY <1>1, <1>2, <1>3

\* A combined verdict is valid if all are, invalid if there are some and all are invalid.
LEMMA CombinedTells ==
    ASSUME NEW verdicts
    PROVE  /\ combine_verdicts(verdicts) \in Verdicts
           /\ combine_verdicts(verdicts) = "valid" <=> verdicts \subseteq {"valid"}
           /\ combine_verdicts(verdicts) = "invalid" <=>
                verdicts # {} /\ verdicts \subseteq {"invalid"}
<1>1. CASE verdicts \subseteq {"valid"}
  BY <1>1 DEF combine_verdicts, Verdicts
<1>2. CASE ~(verdicts \subseteq {"valid"}) /\ verdicts \subseteq {"invalid"}
  BY <1>2 DEF combine_verdicts, Verdicts
<1>3. CASE ~(verdicts \subseteq {"valid"}) /\ ~(verdicts \subseteq {"invalid"})
  BY <1>3 DEF combine_verdicts, Verdicts
<1> QED
  BY <1>1, <1>2, <1>3

LEMMA ProposalVerdictTells ==
    ASSUME NEW existing, NEW paths
    PROVE  /\ ProposalVerdict(existing, paths) \in Verdicts
           /\ ProposalVerdict(existing, paths) = "valid" <=> paths \intersect existing = {}
           /\ ProposalVerdict(existing, paths) = "invalid" <=>
                paths # {} /\ paths \subseteq existing
<1> DEFINE vs == {IF p \in existing THEN "invalid" ELSE "valid" : p \in paths}
<1>1. ProposalVerdict(existing, paths) = combine_verdicts(vs)
  BY DEF ProposalVerdict
<1>2. vs \subseteq {"valid"} <=> paths \intersect existing = {}
  OBVIOUS
<1>3. vs # {} /\ vs \subseteq {"invalid"} <=> paths # {} /\ paths \subseteq existing
  OBVIOUS
<1> HIDE DEF vs
<1> QED
  BY <1>1, <1>2, <1>3, CombinedTells

LEMMA ConfidenceIsALevel ==
    ASSUME NEW strengths PROVE confidence_from_strengths(strengths) \in Confidences
  BY DEF confidence_from_strengths, Confidences

\* Ids are dropped exactly if the table does not know them, kept if it does.
LEMMA KnownAndUnknown ==
    ASSUME NEW ids
    PROVE  /\ Unknown(ids) = {} <=> ids \subseteq DOMAIN Candidates
           /\ Resolved(Candidates, ids) = {} <=> ids \intersect DOMAIN Candidates = {}
  BY DEF Unknown, Resolved

-----------------------------------------------------------------------------
(* Each way a command ends is an outcome.                                  *)

LEMMA FailureIsOutcome == ASSUME NEW code \in 1 .. 4 PROVE Outcome(Failed(code))
  BY DEF Outcome, Failed

LEMMA FactsConfidence == ConfidenceOfFacts \in Confidences
  BY ConfidenceIsALevel DEF ConfidenceOfFacts, Confidences

\* An answer with a level, whose verdict tells.
LEMMA AnswerIsOutcome ==
    ASSUME NEW c \in Confidences, NEW g \in Verdicts, NEW kept, NEW dropped,
           g = "valid" <=> dropped = {},
           g = "invalid" <=> dropped # {} /\ kept = {}
    PROVE  Outcome(Answer(c, g, kept, dropped))
  BY DEF Outcome, Answer

LEMMA ExceptionIsOutcome == ASSUME NEW e PROVE Outcome(OutcomeOf(e))
<1>1. Outcome(FactsAlone)
  BY FactsConfidence, AnswerIsOutcome DEF FactsAlone, Verdicts
<1>2. Outcome(Failed(2)) /\ Outcome(Failed(3)) /\ Outcome(Failed(4))
  BY FailureIsOutcome
<1>3. OutcomeOf(e) \in {FactsAlone, Failed(2), Failed(3), Failed(4)}
  <2>1. CASE command = "impact" /\ e \in Known
    BY <2>1 DEF OutcomeOf
  <2>2. CASE ~(command = "impact" /\ e \in Known)
    <3>1. CASE e = NotConfigured
      BY <2>2, <3>1 DEF OutcomeOf, NotConfigured, RequestFailed, Unusable
    <3>2. CASE e \in {RequestFailed, Unusable}
      BY <2>2, <3>2 DEF OutcomeOf, NotConfigured, RequestFailed, Unusable
    <3>3. CASE e \notin {NotConfigured, RequestFailed, Unusable}
      BY <2>2, <3>3 DEF OutcomeOf
    <3> QED
      BY <3>1, <3>2, <3>3
  <2> QED
    BY <2>1, <2>2
<1> QED
  BY <1>1, <1>2, <1>3

LEMMA AskIsOutcome == Outcome(AskAnswer)
<1> DEFINE cited == reply.cited.ids
           evidence == IF cited # {} THEN Resolved(Candidates, cited)
                       ELSE Resolved(Candidates, DOMAIN Candidates)
           level == confidence_from_strengths({"inferred" : e \in evidence})
           verdict == FieldVerdict(Candidates, cited)
<1>1. AskAnswer = Answer(level, verdict, evidence, Unknown(cited))
  BY DEF AskAnswer
<1>2. level \in Confidences
  BY ConfidenceIsALevel
<1>3. verdict \in Verdicts /\ (verdict = "valid" <=> Unknown(cited) = {})
  BY FieldVerdictTells, KnownAndUnknown
<1>4. verdict = "invalid" <=> Unknown(cited) # {} /\ evidence = {}
  <2>1. CASE cited = {}
    BY <2>1, FieldVerdictTells, KnownAndUnknown
  <2>2. CASE cited # {}
    BY <2>2, FieldVerdictTells, KnownAndUnknown
  <2> QED
    BY <2>1, <2>2
<1> HIDE DEF cited, evidence, level, verdict
<1> QED
  BY <1>1, <1>2, <1>3, <1>4, AnswerIsOutcome

LEMMA ImpactIsOutcome == Outcome(ImpactAnswer)
<1> DEFINE cited == reply.cited.ids
           verdict == FieldVerdict(Candidates, cited)
<1>1. ImpactAnswer =
        Answer(ConfidenceOfFacts, verdict, Resolved(Candidates, cited), Unknown(cited))
  BY DEF ImpactAnswer
<1>2. /\ verdict \in Verdicts
      /\ verdict = "valid" <=> Unknown(cited) = {}
      /\ verdict = "invalid" <=> Unknown(cited) # {} /\ Resolved(Candidates, cited) = {}
  BY FieldVerdictTells, KnownAndUnknown
<1> HIDE DEF cited, verdict
<1> QED
  BY <1>1, <1>2, FactsConfidence, AnswerIsOutcome

\* The verdict on a plan, from three fields of ids and one of paths.
LEMMA ChangeIsOutcome == Outcome(ChangeAnswer)
<1> DEFINE fields == {"modify", "symbols", "tests"}
           ids == reply.modify.ids \union reply.symbols.ids \union reply.tests.ids
           create == reply.create.ids
           created == create \ Existing
           kept == Resolved(Candidates, ids)
           level == confidence_from_strengths(
                      {"inferred" : e \in kept}
                      \union {IF context.convention THEN "inferred" ELSE "unknown" : p \in created})
           dropped == Unknown(ids) \union (create \intersect Existing)
           verdict == combine_verdicts(AttemptedVerdicts)
<1>1. ChangeAnswer = Answer(level, verdict, kept \union created, dropped)
  BY DEF ChangeAnswer
<1>2. level \in Confidences
  BY ConfidenceIsALevel
<1>3. \A i : i \in ids <=> \E f \in fields : i \in reply[f].ids
  OBVIOUS
<1>4. \A v : v \in AttemptedVerdicts <=>
             \/ \E f \in fields : reply[f].ids # {} /\ v = FieldVerdict(Candidates, reply[f].ids)
             \/ create # {} /\ v = ProposalVerdict(Existing, create)
  BY DEF AttemptedVerdicts
<1> HIDE DEF ids, create, fields, level
<1>5. verdict = "valid" <=> dropped = {}
  <2>1. verdict = "valid" <=> \A v \in AttemptedVerdicts : v = "valid"
    BY CombinedTells
  <2>2. (\A v \in AttemptedVerdicts : v = "valid") <=>
          /\ \A f \in fields : reply[f].ids \subseteq DOMAIN Candidates
          /\ create \intersect Existing = {}
    BY <1>4, FieldVerdictTells, ProposalVerdictTells
  <2>3. (\A f \in fields : reply[f].ids \subseteq DOMAIN Candidates) <=>
          ids \subseteq DOMAIN Candidates
    BY <1>3
  <2> QED
    BY <2>1, <2>2, <2>3, KnownAndUnknown
<1>6. verdict = "invalid" <=> dropped # {} /\ kept \union created = {}
  <2>1. verdict = "invalid" <=>
          AttemptedVerdicts # {} /\ \A v \in AttemptedVerdicts : v = "invalid"
    BY CombinedTells
  <2>2. AttemptedVerdicts # {} <=> ids # {} \/ create # {}
    BY <1>3, <1>4
  <2>3. (\A v \in AttemptedVerdicts : v = "invalid") <=>
          /\ \A f \in fields : reply[f].ids \intersect DOMAIN Candidates = {}
          /\ create \subseteq Existing
    BY <1>4, FieldVerdictTells, ProposalVerdictTells
  <2>4. (\A f \in fields : reply[f].ids \intersect DOMAIN Candidates = {}) <=>
          ids \intersect DOMAIN Candidates = {}
    BY <1>3
  <2> QED
    BY <2>1, <2>2, <2>3, <2>4, KnownAndUnknown
<1>7. verdict \in Verdicts
  BY CombinedTells
<1> HIDE DEF created, kept, dropped, verdict
<1> QED
  BY <1>1, <1>2, <1>5, <1>6, <1>7, AnswerIsOutcome

-----------------------------------------------------------------------------
(* Forms of fields.                                                        *)

LEMMA InFields ==
    ASSUME NEW form, NEW lists, NEW x \in Fields(form, lists)
    PROVE  x.form = form /\ x.ids \in lists
  BY DEF Fields

LEMMA InFormed ==
    ASSUME NEW forms, NEW x \in Formed(forms)
    PROVE  x.form \in forms /\ x.ids = {}
<1>1. PICK form \in forms : x \in Fields(form, {{}})
  BY DEF Formed
<1> QED  BY <1>1, InFields

\* The forms of a text, of ids and of items.
LEMMA FormsOfText ==
    ASSUME NEW x \in Text
    PROVE  x.form \in {"text", "missing", "refused"} /\ x.ids = {}
  BY InFormed DEF Text

LEMMA FormsOfIds ==
    ASSUME NEW x \in IdField
    PROVE  /\ x.form \in {"list", "object", "text", "other"}
           /\ x.form = "text" => x.ids = {Character}
<1>1. CASE x \in Fields("list", Citations)
  BY <1>1, InFields
<1>2. CASE x \in Fields("object", Citations \ {{}})
  BY <1>2, InFields
<1>3. CASE x \in Fields("text", {{Character}})
  BY <1>3, InFields
<1>4. CASE x \in Formed({"other"})
  BY <1>4, InFormed
<1> QED  BY <1>1, <1>2, <1>3, <1>4 DEF IdField

LEMMA FormsOfItems ==
    ASSUME NEW S, NEW x \in ItemField(S)
    PROVE  /\ x.form \in {"list", "unreasoned", "no key", "other"}
           /\ x.form = "unreasoned" => x.ids # {}
           /\ x.ids \subseteq UNION S
<1>1. CASE x \in Fields("list", S)
  BY <1>1, InFields
<1>2. CASE x \in Fields("unreasoned", S \ {{}})
  <2>1. x.form = "unreasoned" /\ x.ids \in S \ {{}}
    BY <1>2, InFields
  <2> QED  BY <2>1
<1>3. CASE x \in Formed({"no key", "other"})
  <2>1. x.form \in {"no key", "other"} /\ x.ids = {}
    BY <1>3, InFormed
  <2> QED  BY <2>1
<1> QED  BY <1>1, <1>2, <1>3 DEF ItemField

-----------------------------------------------------------------------------
(* Each answer is sound.                                                   *)

\* A failure prints nothing, so there is nothing to be said of it.
LEMMA FailureIsSound == ASSUME NEW code \in 1 .. 4 PROVE Sound(Failed(code))
  BY DEF Sound, Failed

LEMMA FactsEarn == ASSUME command = "impact" PROVE ConfidenceOfFacts = EarnedLevel({})
  BY DEF ConfidenceOfFacts, EarnedLevel, confidence_from_strengths

\* Facts alone are sound, and so is everything an exception leads to.
LEMMA ExceptionIsSound == ASSUME NEW e PROVE Sound(OutcomeOf(e))
<1>1. CASE command = "impact" /\ e \in Known
  <2>1. OutcomeOf(e) = FactsAlone
    BY <1>1 DEF OutcomeOf
  <2>2. FactsAlone.kept = {} /\ FactsAlone.confidence = ConfidenceOfFacts
    BY DEF FactsAlone, Answer
  <2> QED  BY <1>1, <2>1, <2>2, FactsEarn DEF Sound
<1>2. CASE ~(command = "impact" /\ e \in Known)
  <2>1. OutcomeOf(e) \in {Failed(2), Failed(3), Failed(4)}
    <3>1. CASE e = NotConfigured
      BY <1>2, <3>1 DEF OutcomeOf, NotConfigured, RequestFailed, Unusable
    <3>2. CASE e \in {RequestFailed, Unusable}
      BY <1>2, <3>2 DEF OutcomeOf, NotConfigured, RequestFailed, Unusable
    <3>3. CASE e \notin {NotConfigured, RequestFailed, Unusable}
      BY <1>2, <3>3 DEF OutcomeOf
    <3> QED  BY <3>1, <3>2, <3>3
  <2> QED  BY <2>1, FailureIsSound
<1> QED  BY <1>1, <1>2

\* What resolves was found.
LEMMA ResolvedAreFound ==
    ASSUME context \in InputsOf(command), NEW ids
    PROVE  Resolved(Candidates, ids) \subseteq Found
<1>1. {Candidates[id] : id \in DOMAIN Candidates} = Found
  BY CandidatesAreFound DEF OffersWhatWasFound
<1> QED  BY <1>1 DEF Resolved

\* An answer is sound if its entities and its confidence are.
LEMMA AnswerIsSound ==
    ASSUME NEW c, NEW g, NEW kept, NEW dropped,
           kept \subseteq Found \union ((UNION Proposals) \ Existing),
           c = EarnedLevel(kept)
    PROVE  Sound(Answer(c, g, kept, dropped))
  BY DEF Sound, Answer

LEMMA LevelOfInferred ==
    ASSUME NEW S
    PROVE  confidence_from_strengths({"inferred" : e \in S}) = IF S # {} THEN "medium" ELSE "low"
<1>1. CASE S = {}
  BY <1>1 DEF confidence_from_strengths
<1>2. CASE S # {}
  BY <1>2 DEF confidence_from_strengths
<1> QED  BY <1>1, <1>2

\* ask: the evidence was retrieved, and its confidence is whether there is any.
LEMMA AskIsSound ==
    ASSUME command = "ask", context \in InputsOf(command)
    PROVE  Sound(AskAnswer)
<1> DEFINE cited == reply.cited.ids
           evidence == IF cited # {} THEN Resolved(Candidates, cited)
                       ELSE Resolved(Candidates, DOMAIN Candidates)
           level == confidence_from_strengths({"inferred" : e \in evidence})
           verdict == FieldVerdict(Candidates, cited)
<1>1. AskAnswer = Answer(level, verdict, evidence, Unknown(cited))
  BY DEF AskAnswer
<1>2. evidence \subseteq Found
  BY ResolvedAreFound
<1>3. level = IF evidence # {} THEN "medium" ELSE "low"
  BY LevelOfInferred
<1>4. context \in Retrievals
  BY DEF InputsOf
<1> HIDE DEF cited, evidence, level, verdict
<1>5. level = EarnedLevel(evidence)
  BY <1>2, <1>3 DEF EarnedLevel
<1> QED  BY <1>1, <1>2, <1>5, AnswerIsSound

\* impact: its confidence is that of the facts, whatever is cited.
LEMMA ImpactIsSound ==
    ASSUME command = "impact", context \in InputsOf(command)
    PROVE  Sound(ImpactAnswer)
<1> DEFINE cited == reply.cited.ids
           kept == Resolved(Candidates, cited)
           verdict == FieldVerdict(Candidates, cited)
<1>1. ImpactAnswer = Answer(ConfidenceOfFacts, verdict, kept, Unknown(cited))
  BY DEF ImpactAnswer
<1>2. kept \subseteq Found
  BY ResolvedAreFound
<1> HIDE DEF cited, kept, verdict
<1>3. ConfidenceOfFacts = EarnedLevel(kept)
  BY FactsEarn DEF EarnedLevel
<1> QED  BY <1>1, <1>2, <1>3, AnswerIsSound

\* change: what is recommended was retrieved, what is to be created is none of it.
LEMMA ChangeIsSound ==
    ASSUME command = "change", context \in InputsOf(command), reply \in RepliesTo(command)
    PROVE  Sound(ChangeAnswer)
<1> DEFINE ids == reply.modify.ids \union reply.symbols.ids \union reply.tests.ids
           create == reply.create.ids
           created == create \ Existing
           kept == Resolved(Candidates, ids)
           new == IF context.convention THEN "inferred" ELSE "unknown"
           strengths == {"inferred" : e \in kept} \union {new : p \in created}
           level == confidence_from_strengths(strengths)
           verdict == combine_verdicts(AttemptedVerdicts)
           dropped == Unknown(ids) \union (create \intersect Existing)
<1>1. ChangeAnswer = Answer(level, verdict, kept \union created, dropped)
  BY DEF ChangeAnswer
<1>2. kept \subseteq Found
  BY ResolvedAreFound
<1>3. create \subseteq UNION Proposals
  <2>1. reply.create \in ItemField(Proposals)
    BY DEF RepliesTo, ChangeReplies, Bounded
  <2> QED  BY <2>1, FormsOfItems
<1>4. context \in Retrievals /\ Found = ToSet(context.files) \union ToSet(context.symbols)
  <2>1. context \in Retrievals /\ Found = ToSet(context.files \o context.symbols)
    BY DEF InputsOf, Found
  <2>2. IsList(context.files) /\ IsList(context.symbols)
    BY <2>1, InputsAssumption
  <2> QED  BY <2>1, <2>2, ListsTogether
<1>5. created \intersect Found = {}
  BY <1>3, <1>4, ProposalsAssumption
<1>6. \A x : x \in strengths <=> (x = "inferred" /\ kept # {}) \/ (x = new /\ created # {})
  OBVIOUS
<1>7. context.convention \in BOOLEAN
  BY <1>4, InputsAssumption
<1> HIDE DEF ids, create, kept, strengths, verdict, dropped
<1>8. level = IF kept # {} \/ (created # {} /\ context.convention) THEN "medium" ELSE "low"
  <2>1. CASE kept # {} \/ (created # {} /\ context.convention)
    <3>1. "inferred" \in strengths
      BY <1>6, <2>1
    <3> QED  BY <2>1, <3>1 DEF confidence_from_strengths
  <2>2. CASE ~(kept # {} \/ (created # {} /\ context.convention))
    <3>1. strengths \subseteq {"unknown"}
      BY <1>6, <1>7, <2>2
    <3> QED  BY <2>2, <3>1 DEF confidence_from_strengths
  <2> QED  BY <2>1, <2>2
<1>9. (kept \union created) \intersect Found = kept
  BY <1>2, <1>5
<1> HIDE DEF level
<1>10. level = EarnedLevel(kept \union created)
  BY <1>7, <1>8, <1>9 DEF EarnedLevel
<1>11. kept \union created \subseteq Found \union ((UNION Proposals) \ Existing)
  BY <1>2, <1>3
<1> HIDE DEF created
<1> QED  BY <1>1, <1>10, <1>11, AnswerIsSound

-----------------------------------------------------------------------------
(* What is read without an exception.                                      *)

\* The first error is none only if every error is.
LEMMA FirstOfFinds ==
    ASSUME NEW T, NEW errors \in Seq(T)
    PROVE  FirstOf(errors) = "none" <=> \A i \in 1 .. Len(errors) : errors[i] = "none"
<1> DEFINE I == {i \in 1 .. Len(errors) : errors[i] # "none"}
<1>1. FirstOf(errors) = IF I = {} THEN "none"
                        ELSE IF Min(I) = 0 THEN "none" ELSE errors[Min(I)]
  BY DEF FirstOf, SelectInSeq
<1>2. Len(errors) \in Nat /\ I \in SUBSET (1 .. Len(errors))
  OBVIOUS
<1>3. CASE I = {}
  BY <1>1, <1>3
<1>4. CASE I # {}
  <2>1. Min(I) \in I
    <3> HIDE DEF I
    <3> QED  BY <1>2, <1>4, PartHasSmallest
  <2>2. errors[Min(I)] # "none" /\ Min(I) # 0
    BY <2>1
  <2> QED  BY <1>1, <1>4, <2>1, <2>2
<1> QED  BY <1>3, <1>4

\* A field in another form than asked of which reading raises nothing.
Passed(f) ==
    IF f = "potential_impact" THEN reply[f].form \in {"text", "object"}
    ELSE \/ reply[f].form = "object"
         \/ reply[f].form = "text" /\ reply[f].ids = {Character}
         \/ reply[f].form = "unreasoned" /\ reply[f].ids # {} /\ KeptOf(f) = {}

\* Nothing is refused if there is no refusal.
LEMMA RefusalTells ==
    ASSUME Refusal = "none" PROVE \A f \in DOMAIN reply : reply[f].form # "refused"
  BY DEF Refusal

\* A field that is misshapen and raises nothing has passed.
LEMMA FieldPasses ==
    ASSUME NEW f \in MisshapenIn(reply), FieldError(f) = "none", reply[f].form # "refused",
           \/ f \in TextFields /\ reply[f] \in Text
           \/ f \notin TextFields \union {"potential_impact"} /\ reply[f] \in IdField
           \/ f \notin TextFields \union {"potential_impact"} /\ \E S : reply[f] \in ItemField(S)
           \/ f = "potential_impact"
              /\ reply[f] \in Formed({"list", "text", "object", "refused", "other"})
    PROVE  Passed(f)
<1>0. /\ reply[f].form \notin {"missing", "no key", "other", "refused"}
      /\ ~(reply[f].form = "unreasoned" /\ KeptOf(f) # {})
      /\ reply[f].form # IF f \in TextFields THEN "text" ELSE "list"
  BY DEF FieldError, MisshapenIn
<1>1. CASE f \in TextFields /\ reply[f] \in Text
  BY <1>0, <1>1, FormsOfText
<1>2. CASE f \notin TextFields \union {"potential_impact"} /\ reply[f] \in IdField
  BY <1>0, <1>2, FormsOfIds DEF Passed
<1>3. CASE f \notin TextFields \union {"potential_impact"} /\ \E S : reply[f] \in ItemField(S)
  BY <1>0, <1>3, FormsOfItems DEF Passed
<1>4. CASE f = "potential_impact" /\ reply[f] \in Formed({"list", "text", "object", "refused", "other"})
  <2>1. f \notin TextFields
    BY <1>4 DEF TextFields
  <2>2. reply[f].form \in {"list", "text", "object", "refused", "other"}
    BY <1>4, InFormed
  <2> QED  BY <1>0, <1>4, <2>1, <2>2 DEF Passed
<1> QED  BY <1>1, <1>2, <1>3, <1>4

\* Every misshapen field of a reply that raises nothing has passed.
LEMMA ShapeIsChecked ==
    ASSUME command \in Commands, reply \in RepliesTo(command), ReplyError = "none"
    PROVE  \A f \in MisshapenIn(reply) : Passed(f)
<1>1. CASE command = "change"
  <2> DEFINE errors == <<FieldError("modify"), FieldError("create"), FieldError("symbols"),
                         FieldError("tests"), FieldError("goal"), FieldError("potential_impact"),
                         FieldError("reasoning"), Refusal>>
             T == {errors[i] : i \in 1 .. 8}
             e == FirstOf(errors)
  <2>1. e = "none"
    <3>1. ReplyError = IF e \in {"KeyError", "ValueError"} THEN Unusable ELSE e
      BY <1>1 DEF ReplyError
    <3> HIDE DEF e
    <3> QED  BY <3>1 DEF Unusable
  <2>2. errors \in Seq(T) /\ Len(errors) = 8
    OBVIOUS
  <2>3. \A i \in 1 .. 8 : errors[i] = "none"
    <3> HIDE DEF errors, T
    <3> QED  BY <2>1, <2>2, FirstOfFinds
  <2>4. /\ FieldError("modify") = "none" /\ FieldError("create") = "none"
        /\ FieldError("symbols") = "none" /\ FieldError("tests") = "none"
        /\ FieldError("goal") = "none" /\ FieldError("potential_impact") = "none"
        /\ FieldError("reasoning") = "none" /\ Refusal = "none"
    BY <2>3
  <2> HIDE DEF errors, T, e
  <2>5. /\ DOMAIN reply = {"goal", "reasoning", "modify", "create", "symbols", "tests", "potential_impact"}
        /\ reply.goal \in Text /\ reply.reasoning \in Text
        /\ reply.modify \in ItemField(Citations) /\ reply.create \in ItemField(Proposals)
        /\ reply.symbols \in IdField /\ reply.tests \in IdField
        /\ reply.potential_impact \in Formed({"list", "text", "object", "refused", "other"})
    BY <1>1 DEF RepliesTo, ChangeReplies, Bounded
  <2>6. TextFields = {"prose", "goal", "reasoning"}
    BY DEF TextFields
  <2> TAKE f \in MisshapenIn(reply)
  <2>7. f \in DOMAIN reply /\ FieldError(f) = "none" /\ reply[f].form # "refused"
    <3>1. f \in DOMAIN reply
      BY DEF MisshapenIn
    <3> QED  BY <2>4, <2>5, <3>1, RefusalTells
  <2> QED  BY <2>5, <2>6, <2>7, FieldPasses
<1>2. CASE command # "change"
  <2> DEFINE errors == <<FieldError("cited"), Refusal>>
             T == {errors[i] : i \in 1 .. 2}
             e == FirstOf(errors)
  <2>1. FieldError("prose") # "KeyError" /\ e = "none"
    <3>1. ReplyError = IF FieldError("prose") = "KeyError" THEN Unusable ELSE e
      BY <1>2 DEF ReplyError
    <3> HIDE DEF e
    <3> QED  BY <3>1 DEF Unusable
  <2>2. errors \in Seq(T) /\ Len(errors) = 2
    OBVIOUS
  <2>3. \A i \in 1 .. 2 : errors[i] = "none"
    <3> HIDE DEF errors, T
    <3> QED  BY <2>1, <2>2, FirstOfFinds
  <2>4. FieldError("cited") = "none" /\ Refusal = "none"
    BY <2>3
  <2> HIDE DEF errors, T, e
  <2>5. DOMAIN reply = {"prose", "cited"} /\ reply.prose \in Text /\ reply.cited \in IdField
    BY <1>2 DEF RepliesTo, CitedReplies, Bounded
  <2>6. TextFields = {"prose", "goal", "reasoning"}
    BY DEF TextFields
  <2>7. FieldError("prose") = "none"
    <3>1. reply.prose.form \in {"text", "missing", "refused"}
      BY <2>5, FormsOfText
    <3> QED  BY <2>1, <3>1 DEF FieldError
  <2> TAKE f \in MisshapenIn(reply)
  <2>8. f \in DOMAIN reply /\ FieldError(f) = "none" /\ reply[f].form # "refused"
    <3>1. f \in DOMAIN reply
      BY DEF MisshapenIn
    <3> QED  BY <2>4, <2>5, <2>7, <3>1, RefusalTells
  <2> QED  BY <2>5, <2>6, <2>8, FieldPasses
<1> QED  BY <1>1, <1>2

\* No table has a character as an id.
LEMMA CharacterIsNoId == Character \notin DOMAIN Candidates
<1>1. ASSUME NEW files, NEW tests, NEW symbols
      PROVE  Character \notin DOMAIN CandidateSet(files, tests, symbols)
  BY DEF Character, CandidateSet, IdsOf
<1>2. PICK files, tests, symbols : Candidates = CandidateSet(files, tests, symbols)
  BY DEF Candidates, build_candidate_set, build_candidate_set_from_refs
<1> QED  BY <1>1, <1>2

\* An answer that drops the unknown ids of each field and the existing paths tells.
LEMMA DroppedIsTold ==
    ASSUME NEW r, Outcome(r), r.exit = 0, \A f \in MisshapenIn(reply) : Passed(f),
           \A f \in DOMAIN reply \ {"create"} : Unknown(reply[f].ids) \subseteq r.dropped,
           "create" \in DOMAIN reply =>
               reply.create.form \notin {"text", "object"}
               /\ reply.create.ids \intersect Existing \subseteq r.dropped
    PROVE  Tells(r)
<1> SUFFICES ASSUME NEW f \in MisshapenIn(reply), f # "potential_impact"
             PROVE  \/ reply[f].form = "object" /\ Unknown(reply[f].ids) \subseteq r.dropped
                    \/ /\ reply[f].form \in {"text", "unreasoned"}
                       /\ KeptOf(f) = {} /\ r.grounding # "valid"
  BY DEF Tells, Passed
<1>1. f \in DOMAIN reply /\ Passed(f)
  BY DEF MisshapenIn
<1>2. r.dropped # {} => r.grounding # "valid"
  BY DEF Outcome
<1>3. CASE f = "create"
  <2>1. reply.create.form = "unreasoned" /\ reply.create.ids # {} /\ KeptOf("create") = {}
    BY <1>1, <1>3 DEF Passed
  <2>2. reply.create.ids \intersect Existing # {}
    BY <2>1 DEF KeptOf
  <2> QED  BY <1>1, <1>2, <1>3, <2>1, <2>2
<1>4. CASE f # "create" /\ reply[f].form = "object"
  BY <1>1, <1>4
<1>5. CASE f # "create" /\ reply[f].form # "object"
  <2>1. KeptOf(f) = Resolved(Candidates, reply[f].ids)
    BY <1>5 DEF KeptOf
  <2>2. /\ reply[f].form \in {"text", "unreasoned"} /\ reply[f].ids # {}
        /\ reply[f].ids \intersect DOMAIN Candidates = {}
    <3>1. CASE reply[f].form = "text" /\ reply[f].ids = {Character}
      BY <3>1, CharacterIsNoId
    <3>2. CASE reply[f].form = "unreasoned" /\ reply[f].ids # {} /\ KeptOf(f) = {}
      BY <2>1, <3>2, KnownAndUnknown
    <3> QED  BY <1>1, <1>5, <3>1, <3>2 DEF Passed
  <2>3. KeptOf(f) = {} /\ Unknown(reply[f].ids) # {}
    BY <2>1, <2>2, KnownAndUnknown
  <2> QED  BY <1>1, <1>2, <1>5, <2>2, <2>3
<1> QED  BY <1>3, <1>4, <1>5

\* Fields without ids have no unknown ones.
LEMMA NoneUnknown == Unknown({}) = {}
  BY DEF Unknown

\* What Report prints tells of what the reply got wrong.
LEMMA GroundedTells ==
    ASSUME command \in Commands, reply \in RepliesTo(command), ReplyError = "none"
    PROVE  Tells(GroundedAnswer)
<1>0. \A f \in MisshapenIn(reply) : Passed(f)
  BY ShapeIsChecked
<1>1. CASE command # "change"
  <2>1. DOMAIN reply = {"prose", "cited"} /\ reply.prose \in Text
    BY <1>1 DEF RepliesTo, CitedReplies, Bounded
  <2>2. Outcome(GroundedAnswer)
    BY <1>1, AskIsOutcome, ImpactIsOutcome DEF GroundedAnswer, Commands
  <2>3. GroundedAnswer.exit = 0 /\ GroundedAnswer.dropped = Unknown(reply.cited.ids)
    <3>1. CASE command = "ask"
      BY <3>1 DEF GroundedAnswer, AskAnswer, Answer
    <3>2. CASE command = "impact"
      BY <3>2 DEF GroundedAnswer, ImpactAnswer, Answer
    <3> QED  BY <1>1, <3>1, <3>2 DEF Commands
  <2>4. \A f \in DOMAIN reply \ {"create"} : Unknown(reply[f].ids) \subseteq GroundedAnswer.dropped
    BY <2>1, <2>3, FormsOfText, NoneUnknown
  <2> QED  BY <1>0, <2>1, <2>2, <2>3, <2>4, DroppedIsTold
<1>2. CASE command = "change"
  <2> DEFINE ids == reply.modify.ids \union reply.symbols.ids \union reply.tests.ids
             dropped == Unknown(ids) \union (reply.create.ids \intersect Existing)
  <2>1. /\ DOMAIN reply = {"goal", "reasoning", "modify", "create", "symbols", "tests", "potential_impact"}
        /\ reply.goal \in Text /\ reply.reasoning \in Text
        /\ reply.create \in ItemField(Proposals)
        /\ reply.potential_impact \in Formed({"list", "text", "object", "refused", "other"})
    BY <1>2 DEF RepliesTo, ChangeReplies, Bounded
  <2>2. GroundedAnswer = ChangeAnswer /\ Outcome(GroundedAnswer)
    BY <1>2, ChangeIsOutcome DEF GroundedAnswer
  <2>3. GroundedAnswer.exit = 0 /\ GroundedAnswer.dropped = dropped
    BY <2>2 DEF ChangeAnswer, Answer
  <2>4. reply.goal.ids = {} /\ reply.reasoning.ids = {} /\ reply.potential_impact.ids = {}
    BY <2>1, FormsOfText, InFormed
  <2>5. /\ Unknown(reply.modify.ids) \subseteq dropped /\ Unknown(reply.symbols.ids) \subseteq dropped
        /\ Unknown(reply.tests.ids) \subseteq dropped
    BY DEF Unknown
  <2>6. reply.create.form \notin {"text", "object"}
    BY <2>1, FormsOfItems
  <2> HIDE DEF dropped, ids
  <2>7. \A f \in DOMAIN reply \ {"create"} : Unknown(reply[f].ids) \subseteq GroundedAnswer.dropped
    BY <2>1, <2>3, <2>4, <2>5, NoneUnknown
  <2>8. reply.create.ids \intersect Existing \subseteq GroundedAnswer.dropped
    BY <2>3 DEF dropped
  <2> QED  BY <1>0, <2>2, <2>3, <2>6, <2>7, <2>8, DroppedIsTold
<1> QED  BY <1>1, <1>2

\* A failure prints nothing to tell of.
LEMMA FailureTells == ASSUME NEW code \in 1 .. 4 PROVE Tells(Failed(code))
  BY DEF Tells, Failed

\* An exception leaves a failure or the facts alone.
LEMMA ExceptionTells == ASSUME NEW e PROVE Tells(OutcomeOf(e))
<1>1. CASE command = "impact" /\ e \in Known
  BY <1>1 DEF OutcomeOf, Tells
<1>2. CASE ~(command = "impact" /\ e \in Known)
  <2>1. OutcomeOf(e) \in {Failed(2), Failed(3), Failed(4)}
    <3>1. CASE e = NotConfigured
      BY <1>2, <3>1 DEF OutcomeOf, NotConfigured, RequestFailed, Unusable
    <3>2. CASE e \in {RequestFailed, Unusable}
      BY <1>2, <3>2 DEF OutcomeOf, NotConfigured, RequestFailed, Unusable
    <3>3. CASE e \notin {NotConfigured, RequestFailed, Unusable}
      BY <1>2, <3>3 DEF OutcomeOf
    <3> QED  BY <3>1, <3>2, <3>3
  <2> QED  BY <2>1, FailureTells
<1> QED  BY <1>1, <1>2

\* What Report prints is sound.
LEMMA ReportIsSound ==
    ASSUME command \in Commands, context \in InputsOf(command), reply \in RepliesTo(command)
    PROVE  Sound(IF ReplyError = "none" THEN GroundedAnswer ELSE OutcomeOf(ReplyError))
<1>1. CASE ReplyError = "none"
  BY <1>1, AskIsSound, ChangeIsSound, ImpactIsSound DEF GroundedAnswer, Commands
<1>2. CASE ReplyError # "none"
  BY <1>2, ExceptionIsSound
<1> QED  BY <1>1, <1>2

\* An outcome that is sound and tells stays so when only the stage and the result change.
LEMMA SoundnessKept ==
    ASSUME Sound(result'), Tells(result'), UNCHANGED <<command, context, reply>>
    PROVE  Sound(result)' /\ Tells(result)'
<1>1. Found' = Found /\ FactsAlone' = FactsAlone /\ Candidates' = Candidates
  BY DEF Found, FactsAlone, ConfidenceOfFacts, Candidates
<1>2. EarnedLevel(result.kept)' = EarnedLevel(result'.kept)
  BY <1>1 DEF EarnedLevel
<1>3. \A f : KeptOf(f)' = KeptOf(f)
  BY <1>1 DEF KeptOf
<1>4. \A ids : Unknown(ids)' = Unknown(ids)
  BY <1>1 DEF Unknown
<1>5. Sound(result)'
  BY <1>1, <1>2 DEF Sound
<1>6. Tells(result)'
  BY <1>1, <1>3, <1>4 DEF Tells
<1> QED  BY <1>5, <1>6

-----------------------------------------------------------------------------
(* IInv is inductive.                                                      *)

LEMMA NextPreserves == ASSUME IInv, [Next]_vars PROVE IInv'
<1>1. CASE LoadSnapshot
  <2>1. Outcome(Failed(1)) /\ Sound(Failed(1)) /\ Tells(Failed(1))
    BY FailureIsOutcome, FailureIsSound, FailureTells
  <2>2. stage' = "exited" => Outcome(result)' /\ Sound(result)' /\ Tells(result)'
    <3>1. stage' = "exited" => Sound(result)' /\ Tells(result)'
      BY <1>1, <2>1, SoundnessKept DEF LoadSnapshot, Exit
    <3> QED  BY <1>1, <2>1, <3>1 DEF LoadSnapshot, Exit, Outcome
  <2> QED  BY <1>1, <2>2 DEF LoadSnapshot, Exit, IInv
<1>2. CASE Retrieve
  <2> DEFINE empty == Answer("low", "valid", {}, {})
  <2>1. Outcome(empty)
    BY AnswerIsOutcome DEF Confidences, Verdicts
  <2>2. empty.kept = {} /\ empty.confidence = "low"
    BY DEF Answer
  <2>3. reply = Nothing /\ reply' = Nothing /\ command' = command /\ command # "impact"
    BY <1>2 DEF Retrieve, IInv
  <2> HIDE DEF empty
  <2>4. ASSUME result' = empty PROVE Outcome(result)' /\ Sound(result)' /\ Tells(result)'
    <3>1. Outcome(result)'
      BY <2>1, <2>4 DEF Outcome
    <3>2. Sound(result)'
      BY <2>2, <2>3, <2>4 DEF Sound, EarnedLevel
    <3>3. Tells(result)'
      BY <2>3 DEF Tells
    <3> QED  BY <3>1, <3>2, <3>3
  <2>5. \/ stage' = "exited" /\ result' = empty
        \/ stage' = "request" /\ result' = result
    BY <1>2 DEF Retrieve, Exit, empty
  <2>6. context' \in InputsOf(command')
    BY <1>2, <2>3 DEF Retrieve, InputsOf
  <2> QED  BY <1>2, <2>3, <2>4, <2>5, <2>6 DEF Retrieve, IInv, InputsOf
<1>3. CASE FindTarget
  <2>1. Outcome(Failed(1)) /\ Sound(Failed(1)) /\ Tells(Failed(1))
    BY FailureIsOutcome, FailureIsSound, FailureTells
  <2>2. stage' = "exited" => Outcome(result)' /\ Sound(result)' /\ Tells(result)'
    <3>1. stage' = "exited" => result' = Failed(1) /\ UNCHANGED <<command, context, reply>>
      BY <1>3 DEF FindTarget, Exit
    <3> QED  BY <2>1, <3>1, SoundnessKept DEF Outcome
  <2> QED  BY <1>3, <2>2 DEF FindTarget, Exit, IInv, InputsOf
<1>4. CASE RequestFails
  <2>1. PICK e : Exit(OutcomeOf(e))
    BY <1>4 DEF RequestFails
  <2>2. Outcome(result') /\ Sound(result') /\ Tells(result')
    BY <2>1, ExceptionIsOutcome, ExceptionIsSound, ExceptionTells DEF Exit
  <2>3. UNCHANGED <<command, context, reply>> /\ stage = "request" /\ stage' = "exited"
    BY <1>4, <2>1 DEF RequestFails, Exit
  <2>4. Outcome(result)' /\ Sound(result)' /\ Tells(result)'
    BY <2>2, <2>3, SoundnessKept DEF Outcome
  <2> QED  BY <2>3, <2>4 DEF IInv
<1>5. CASE Receive
  BY <1>5 DEF Receive, IInv, InputsOf, RepliesTo
<1>6. CASE Report
  <2> DEFINE printed == IF ReplyError = "none" THEN GroundedAnswer ELSE OutcomeOf(ReplyError)
  <2>1. stage = "answer" /\ Exit(printed) /\ UNCHANGED <<command, context, reply>>
    BY <1>6 DEF Report
  <2>2. Outcome(GroundedAnswer)
    BY AskIsOutcome, ChangeIsOutcome, ImpactIsOutcome DEF GroundedAnswer, IInv, Commands
  <2>3. Outcome(OutcomeOf(ReplyError))
    BY ExceptionIsOutcome
  <2>4. Sound(printed) /\ Tells(printed)
    BY <2>1, ReportIsSound, GroundedTells, ExceptionTells DEF IInv
  <2>5. Outcome(printed)
    BY <2>2, <2>3
  <2> HIDE DEF printed
  <2>6. Outcome(result)' /\ Sound(result)' /\ Tells(result)'
    BY <2>1, <2>4, <2>5, SoundnessKept DEF Outcome, Exit
  <2> QED  BY <2>1, <2>6 DEF Exit, IInv
<1>7. CASE UNCHANGED vars
  <2>1. ASSUME Sound(result), Tells(result) PROVE Sound(result)' /\ Tells(result)'
    BY <1>7, <2>1, SoundnessKept DEF vars
  <2> QED  BY <1>7, <2>1 DEF vars, IInv, Outcome, InputsOf, RepliesTo
<1> QED
  BY <1>1, <1>2, <1>3, <1>4, <1>5, <1>6, <1>7 DEF Next, Finished

\* The invariant the others follow from.
THEOREM Invariance == Spec => []IInv
<1>1. Init => IInv
  BY DEF Init, IInv
<1>2. IInv /\ [Next]_vars => IInv'
  BY NextPreserves
<1> QED
  BY <1>1, <1>2, PTL DEF Spec

\* Every command ends with an exit code of the documented ones, and every answer has a level
\* and a verdict (exit_codes.py, models.py:18-21).
THEOREM TypeCorrect == Spec => []AnswersTypeOK
<1>1. IInv => AnswersTypeOK
  BY DEF IInv, AnswersTypeOK, Outcome, Answered
<1> QED
  BY <1>1, Invariance, PTL

\* Whatever a reply cites and proposes, the verdict is valid exactly if nothing of it was
\* dropped, and invalid exactly if all of it was (change_planner.py:228-241).
THEOREM VerdictTells == Spec => []VerdictTellsOfDropped
<1>1. IInv => VerdictTellsOfDropped
  BY DEF IInv, VerdictTellsOfDropped, Outcome, Answered
<1> QED
  BY <1>1, Invariance, PTL

\* Whatever is retrieved and however facts overlap, the model is offered every entity found
\* under one id, and nothing else (candidates.py:94-120, 123-159).
THEOREM TableIsOfWhatWasFound == Spec => []OneIdPerEntity
<1>1. IInv => OneIdPerEntity
  BY CandidatesAreFound DEF IInv, OneIdPerEntity, OffersWhatWasFound
<1> QED
  BY <1>1, Invariance, PTL

\* Whatever a reply says, an answer names only what was found before the provider was asked
\* and proposed paths of no indexed file (candidates.py:38-40, grounding.py:84-90).
THEOREM InventsNothing == Spec => []NothingInvented
<1>1. IInv => NothingInvented
  BY DEF IInv, NothingInvented, Sound, Answered
<1> QED
  BY <1>1, Invariance, PTL

\* Whatever a reply cites, the confidence is the one that what survived of it, or the facts,
\* earn (qa.py:128-146, change_planner.py:206-214, impact.py:95-109).
THEOREM ConfidenceEarned == Spec => []ConfidenceIsEarned
<1>1. IInv => ConfidenceIsEarned
  BY DEF IInv, ConfidenceIsEarned, Sound, EarnedLevel, Answered
<1> QED
  BY <1>1, Invariance, PTL

\* Whatever forms the fields of a reply have, a field in another form than asked leaves
\* nothing in the answer, and is told of, but for an object of ids and the potential impact,
\* which the code lets through (qa.py:118, change_planner.py:216, 219, 261).
THEOREM MisshapenDropped == Spec => []MisshapenLeavesNothing
<1>1. IInv => MisshapenLeavesNothing
  BY DEF IInv, MisshapenLeavesNothing, Tells, Answered
<1> QED
  BY <1>1, Invariance, PTL
=============================================================================
