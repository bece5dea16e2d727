---------------------------- MODULE RetrievalProofs ----------------------------
(***************************************************************************)
(* Proofs about Retrieval, for snapshots of any shape and any bounds.      *)
(***************************************************************************)
EXTENDS Retrieval, FiniteSetTheorems, TLAPS

-----------------------------------------------------------------------------
(* What matches and what edges relate to it.                               *)

\* An edge is met from a match just if one of its ends is one.
LEMMA SeedsAreMatches ==
    ASSUME snapshot \in Snapshots, matched = Matches, NEW ref
    PROVE  ref \in SeedRefs <=> ItemsOf(ref) \intersect Matches # {}
PROOF
  <1> SnapshotRecord(snapshot)
    BY SnapshotsAssumption
  <1> USE DEF SnapshotRecord, Items
  <1>1. ASSUME ref \in SeedRefs
        PROVE  ItemsOf(ref) \intersect Matches # {}
    <2>1. CASE ref \in matched \intersect snapshot.symbols
      BY <2>1 DEF ItemsOf
    <2>2. CASE \E f \in matched \intersect DOMAIN snapshot.module : ref = snapshot.module[f]
      BY <2>2 DEF ItemsOf
    <2> QED
      BY <1>1, <2>1, <2>2 DEF SeedRefs
  <1>2. ASSUME NEW i \in ItemsOf(ref) \intersect Matches
        PROVE  ref \in SeedRefs
    <2>1. CASE ref \in DOMAIN snapshot.file /\ i = snapshot.file[ref]
      BY <1>2, <2>1 DEF SeedRefs
    <2>2. CASE ref \in snapshot.symbols /\ i = ref
      BY <1>2, <2>2 DEF SeedRefs
    <2> QED
      BY <1>2, <2>1, <2>2 DEF ItemsOf
  <1> QED
    BY <1>1, <1>2

\* What does not match by itself gains one signal of each edge to a match, at most, and
\* at least one if there is any.
LEMMA SignalsAreLinks ==
    ASSUME snapshot \in Snapshots, matched = Matches, NEW i \in Items
    PROVE  /\ Signals(i) \in Nat
           /\ Signals(i) > 0 => LinksToMatches(i) # {}
           /\ i \notin Matches =>
                 /\ IsFiniteSet(LinksToMatches(i))
                 /\ Signals(i) <= Cardinality(LinksToMatches(i))
                 /\ LinksToMatches(i) # {} => Signals(i) > 0
PROOF
  <1> IsFiniteSet(Expansion)
    BY SnapshotsAssumption, FS_Subset DEF SnapshotRecord, Expansion
  <1>1. /\ IsFiniteSet(Outgoing(i)) /\ IsFiniteSet(Incoming(i)) /\ IsFiniteSet(LinksToMatches(i))
    BY FS_Subset DEF Outgoing, Incoming, LinksToMatches
  <1>2. Cardinality(Outgoing(i)) \in Nat /\ Cardinality(Incoming(i)) \in Nat
    BY <1>1, FS_CardinalityType
  <1>3. Outgoing(i) \union Incoming(i) \subseteq LinksToMatches(i)
    <2> SUFFICES ASSUME NEW e \in Outgoing(i) \union Incoming(i)
                 PROVE  e \in LinksToMatches(i)
      OBVIOUS
    <2>1. CASE e \in Outgoing(i)
      <3> e \in Expansion /\ e.source \in SeedRefs /\ i \in ItemsOf(e.target)
        BY <2>1 DEF Outgoing
      <3> ItemsOf(e.source) \intersect Matches # {}
        BY SeedsAreMatches
      <3> QED
        BY DEF LinksToMatches, Ends
    <2>2. CASE e \in Incoming(i)
      <3> e \in Expansion /\ e.target \in SeedRefs /\ i \in ItemsOf(e.source)
        BY <2>2 DEF Incoming
      <3> ItemsOf(e.target) \intersect Matches # {}
        BY SeedsAreMatches
      <3> QED
        BY DEF LinksToMatches, Ends
    <2> QED
      BY <2>1, <2>2
  <1>4. Signals(i) > 0 => LinksToMatches(i) # {}
    <2> SUFFICES ASSUME LinksToMatches(i) = {}
                 PROVE  Signals(i) = 0
      OBVIOUS
    <2> Outgoing(i) = {} /\ Incoming(i) = {}
      BY <1>3
    <2> QED
      BY FS_EmptySet DEF Signals
  <1>5. ASSUME i \notin Matches
        PROVE  /\ Outgoing(i) \intersect Incoming(i) = {}
               /\ LinksToMatches(i) \subseteq Outgoing(i) \union Incoming(i)
    <2>1. \A ref : ref \in SeedRefs => ItemsOf(ref) \subseteq Matches
      <3> SUFFICES ASSUME NEW ref \in SeedRefs
                   PROVE  ItemsOf(ref) \subseteq Matches
        OBVIOUS
      <3> SnapshotRecord(snapshot)
        BY SnapshotsAssumption
      <3> QED
        BY DEF SnapshotRecord, SeedRefs, ItemsOf
    <2>2. Outgoing(i) \intersect Incoming(i) = {}
      BY <1>5, <2>1 DEF Outgoing, Incoming
    <2>3. ASSUME NEW e \in LinksToMatches(i)
          PROVE  e \in Outgoing(i) \union Incoming(i)
      <3> e \in Expansion /\ i \in Ends(e) /\ Ends(e) \intersect Matches # {}
        BY <2>3 DEF LinksToMatches
      <3>1. e.source \in SeedRefs \/ e.target \in SeedRefs
        BY SeedsAreMatches DEF Ends
      <3>2. ~(e.source \in SeedRefs /\ i \in ItemsOf(e.source))
        BY <1>5, <2>1
      <3>3. ~(e.target \in SeedRefs /\ i \in ItemsOf(e.target))
        BY <1>5, <2>1
      <3> QED
        BY <3>1, <3>2, <3>3 DEF Ends, Outgoing, Incoming
    <2> QED
      BY <2>2, <2>3
  <1>6. ASSUME i \notin Matches
        PROVE  /\ Signals(i) = Cardinality(LinksToMatches(i))
               /\ LinksToMatches(i) # {} => Signals(i) > 0
    <2>1. LinksToMatches(i) = Outgoing(i) \union Incoming(i)
      BY <1>3, <1>5, <1>6
    <2>2. Cardinality(Outgoing(i) \union Incoming(i))
          = Cardinality(Outgoing(i)) + Cardinality(Incoming(i)) - Cardinality(Outgoing(i) \intersect Incoming(i))
      BY <1>1, FS_Union
    <2>3. Cardinality(Outgoing(i) \intersect Incoming(i)) = 0
      BY <1>5, <1>6, FS_EmptySet
    <2>4. LinksToMatches(i) # {} => Cardinality(LinksToMatches(i)) # 0
      BY <1>1, FS_EmptySet
    <2> QED
      BY <1>2, <2>1, <2>2, <2>3, <2>4 DEF Signals
  <1>7. Cardinality(LinksToMatches(i)) \in Nat
    BY <1>1, FS_CardinalityType
  <1>8. Signals(i) \in Nat
    BY <1>2 DEF Signals
  <1> QED
    BY <1>1, <1>4, <1>6, <1>7, <1>8

-----------------------------------------------------------------------------
(* What is found and kept.                                                 *)

Total(i) == Lexical(i) + 2 * Signals(i)

Beside(i) ==
    /\ i \in snapshot.files
    /\ \E f \in Matches \intersect snapshot.files :
          snapshot.directory[f] = snapshot.directory[i] /\ snapshot.directory[f] # NoDirectory

\* The score once neighbours are added.
Weighed(i) == score[i] = Total(i) \/ (Total(i) = 0 /\ score[i] = 1 /\ Beside(i))

Progress ==
    /\ snapshot \in Snapshots /\ query \in Queries /\ stage \in Stages
    /\ stage = "match" => matched = {}
    /\ stage # "match" => matched = Matches
    /\ score \in [Items -> Nat]
    /\ stage \notin {"chains", "done"} => kept = {}

Scores ==
    /\ stage = "expand" => \A i \in Items : score[i] = Lexical(i)
    /\ stage = "neighbours" => \A i \in Items : score[i] = Total(i)
    /\ stage \in {"rank", "chains"} => \A i \in Items : Weighed(i)
    /\ stage = "done" /\ kept # {} => \A i \in Items : Weighed(i)

BestKept(group) == \A i \in group \ kept, j \in group \intersect kept : score[j] >= score[i]

Best ==
    /\ kept \subseteq Items /\ \A i \in kept : score[i] > 0
    /\ BestKept(snapshot.files) /\ BestKept(snapshot.symbols)
    /\ Cardinality(kept \intersect snapshot.files) <= TopFiles
    /\ Cardinality(kept \intersect snapshot.symbols) <= TopSymbols

FoundInv == Progress /\ Scores /\ Best

\* What a snapshot and a query say does not change.
LEMMA Constancy ==
    ASSUME UNCHANGED <<snapshot, query>>
    PROVE  /\ Items' = Items /\ Matches' = Matches
           /\ \A i : /\ Lexical(i)' = Lexical(i) /\ LinksToMatches(i)' = LinksToMatches(i)
                     /\ Beside(i)' = Beside(i)
           /\ \A e : Callees(e)' = Callees(e)
           /\ CallEnds' = CallEnds
PROOF
  <1>1. Items' = Items
    BY DEF Items
  <1>2. \A i : Lexical(i)' = Lexical(i)
    BY DEF Lexical, NameWeight, DocstringWeight
  <1>3. Matches' = Matches
    BY <1>1, <1>2 DEF Matches
  <1>4. \A i : LinksToMatches(i)' = LinksToMatches(i)
    BY <1>3 DEF LinksToMatches, Expansion, Ends, ItemsOf
  <1>5. ASSUME NEW i PROVE Beside(i)' = Beside(i)
    BY <1>3, Zenon DEF Beside
  <1>6. \A e : Callees(e)' = Callees(e)
    BY DEF Callees
  <1>7. CallEnds' = CallEnds
    BY <1>6 DEF CallEnds
  <1> QED
    BY <1>1, <1>2, <1>3, <1>4, <1>5, <1>6, <1>7

LEMMA SignalsConstancy ==
    ASSUME UNCHANGED <<snapshot, query, matched>>
    PROVE  \A i : Signals(i)' = Signals(i) /\ Total(i)' = Total(i)
PROOF
  <1>1. SeedRefs' = SeedRefs
    BY DEF SeedRefs
  <1>2. \A i : Outgoing(i)' = Outgoing(i) /\ Incoming(i)' = Incoming(i)
    BY <1>1 DEF Outgoing, Incoming, Expansion, ItemsOf
  <1>3. \A i : Lexical(i)' = Lexical(i)
    BY Constancy
  <1> QED
    BY <1>2, <1>3 DEF Signals, Total

LEMMA LexicalType == \A i : Lexical(i) \in Nat /\ (Lexical(i) > 0 => Lexical(i) >= 3)
PROOF
  BY DEF Lexical, NameWeight, DocstringWeight

\* IsTop holds only of finite sets no larger than asked for.
LEMMA TopIsSmall ==
    ASSUME NEW top, NEW all, NEW k \in Nat, IsFiniteSet(all), IsTop(top, all, k)
    PROVE  Cardinality(top) <= k
PROOF
  <1> Cardinality(all) \in Nat
    BY FS_CardinalityType
  <1> QED
    BY DEF IsTop

LEMMA FoundInit == Init => FoundInv
PROOF
  <1> SUFFICES ASSUME Init PROVE FoundInv
    OBVIOUS
  <1>1. Progress
    BY DEF Init, Progress, Stages
  <1>2. Scores
    BY DEF Init, Scores
  <1>3. Best
    <2> kept = {} /\ Cardinality({}) = 0
      BY FS_EmptySet DEF Init
    <2> QED
      BY BoundsAssumption DEF Best, BestKept
  <1> QED
    BY <1>1, <1>2, <1>3 DEF FoundInv

LEMMA MatchFinds == FoundInv /\ Match => FoundInv'
PROOF
  <1> SUFFICES ASSUME FoundInv, Match PROVE FoundInv'
    OBVIOUS
  <1>1. UNCHANGED <<snapshot, query, kept>> /\ stage = "match" /\ kept = {} /\ stage' \in {"expand", "done"}
    BY DEF FoundInv, Progress, Match
  <1>2. Progress'
    <2>1. matched' = Matches'
      BY <1>1, Constancy DEF Match, Matches
    <2>2. score' \in [Items' -> Nat]
      BY <1>1, Constancy, LexicalType DEF Match
    <2> QED
      BY <1>1, <2>1, <2>2 DEF FoundInv, Progress, Stages
  <1>3. Scores'
    <2> \A i \in Items' : score'[i] = Lexical(i)'
      BY <1>1, Constancy DEF Match
    <2> QED
      BY <1>1 DEF Scores
  <1>4. Best'
    BY <1>1 DEF FoundInv, Best, BestKept
  <1> QED
    BY <1>2, <1>3, <1>4 DEF FoundInv

LEMMA ExpandFinds == FoundInv /\ Expand => FoundInv'
PROOF
  <1> SUFFICES ASSUME FoundInv, Expand PROVE FoundInv'
    OBVIOUS
  <1>1. /\ UNCHANGED <<snapshot, query, matched, kept>> /\ stage = "expand" /\ kept = {} /\ stage' = "neighbours"
        /\ snapshot \in Snapshots /\ matched = Matches
    BY DEF FoundInv, Progress, Expand
  <1>2. \A i \in Items : Signals(i) \in Nat
    BY <1>1, SignalsAreLinks
  <1>3. \A i \in Items : Total(i) \in Nat /\ score'[i] = Total(i)
    BY <1>1, <1>2, LexicalType DEF FoundInv, Scores, Expand, Total
  <1>4. Items' = Items /\ Matches' = Matches
    BY <1>1, Constancy
  <1>5. score' \in [Items' -> Nat]
    BY <1>3, <1>4 DEF Expand
  <1>6. Progress'
    BY <1>1, <1>4, <1>5 DEF FoundInv, Progress, Stages
  <1>7. Scores'
    <2> \A i \in Items' : score'[i] = Total(i)'
      BY <1>1, <1>3, <1>4, SignalsConstancy
    <2> QED
      BY <1>1 DEF Scores
  <1>8. Best'
    BY <1>1 DEF FoundInv, Best, BestKept
  <1> QED
    BY <1>6, <1>7, <1>8 DEF FoundInv

LEMMA NeighboursFind == FoundInv /\ AddNeighbours => FoundInv'
PROOF
  <1> SUFFICES ASSUME FoundInv, AddNeighbours PROVE FoundInv'
    OBVIOUS
  <1>1. /\ UNCHANGED <<snapshot, query, matched, kept>> /\ stage = "neighbours" /\ kept = {} /\ stage' = "rank"
        /\ snapshot \in Snapshots /\ matched = Matches /\ score \in [Items -> Nat]
    BY DEF FoundInv, Progress, AddNeighbours
  <1>2. Items' = Items /\ Matches' = Matches
    BY <1>1, Constancy
  <1>3. score' \in [Items' -> Nat]
    BY <1>1, <1>2 DEF AddNeighbours
  <1>4. Progress'
    BY <1>1, <1>2, <1>3 DEF FoundInv, Progress, Stages
  <1>5. Scores'
    <2> SUFFICES ASSUME NEW i \in Items
                 PROVE  Weighed(i)'
      BY <1>1, <1>2 DEF Scores
    <2>1. score[i] = Total(i) /\ Total(i)' = Total(i) /\ Beside(i)' = Beside(i)
      BY <1>1, Constancy, SignalsConstancy DEF FoundInv, Scores
    <2>2. CASE i \in snapshot.files /\ score[i] = 0 /\ snapshot.directory[i] \in MatchedDirectories
      <3>1. score'[i] = 1
        BY <2>2 DEF AddNeighbours
      <3>2. Beside(i)
        BY <1>1, <2>2 DEF MatchedDirectories, Beside
      <3> QED
        BY <2>1, <2>2, <3>1, <3>2 DEF Weighed
    <2>3. CASE ~(i \in snapshot.files /\ score[i] = 0 /\ snapshot.directory[i] \in MatchedDirectories)
      <3> score'[i] = score[i]
        BY <2>3, Zenon DEF AddNeighbours
      <3> QED
        BY <2>1 DEF Weighed
    <2> QED
      BY <2>2, <2>3
  <1>6. Best'
    BY <1>1 DEF FoundInv, Best, BestKept
  <1> QED
    BY <1>4, <1>5, <1>6 DEF FoundInv

LEMMA RankKeepsBest == FoundInv /\ Rank => FoundInv'
PROOF
  <1> SUFFICES ASSUME FoundInv, Rank PROVE FoundInv'
    OBVIOUS
  <1>1. /\ UNCHANGED <<snapshot, query, matched, score>> /\ stage = "rank" /\ stage' = "chains"
        /\ snapshot \in Snapshots /\ matched = Matches /\ score \in [Items -> Nat]
    BY DEF FoundInv, Progress, Rank
  <1>2. Items' = Items /\ Matches' = Matches
    BY <1>1, Constancy
  <1>3. Progress'
    BY <1>1, <1>2 DEF FoundInv, Progress, Stages
  <1>4. Scores'
    <2> ASSUME NEW i \in Items PROVE Weighed(i)'
      <3> Weighed(i) /\ Total(i)' = Total(i) /\ Beside(i)' = Beside(i)
        BY <1>1, Constancy, SignalsConstancy DEF FoundInv, Scores
      <3> QED
        BY <1>1 DEF Weighed
    <2> QED
      BY <1>1, <1>2 DEF Scores
  <1>5. Best'
    <2>1. PICK files \in SUBSET (Found \intersect snapshot.files),
               symbols \in SUBSET (Found \intersect snapshot.symbols) :
            /\ IsTop(files, Found \intersect snapshot.files, TopFiles)
            /\ IsTop(symbols, Found \intersect snapshot.symbols, TopSymbols)
            /\ kept' = files \union symbols
      BY DEF Rank
    <2>2. /\ snapshot.files \intersect snapshot.symbols = {}
          /\ IsFiniteSet(Found \intersect snapshot.files) /\ IsFiniteSet(Found \intersect snapshot.symbols)
      BY <1>1, SnapshotsAssumption, FS_Intersection DEF SnapshotRecord
    <2>3. kept' \intersect snapshot.files = files /\ kept' \intersect snapshot.symbols = symbols
      BY <2>1, <2>2
    <2>4. Cardinality(files) <= TopFiles /\ Cardinality(symbols) <= TopSymbols
      BY <2>1, <2>2, TopIsSmall, BoundsAssumption
    <2>5. kept' \subseteq Items /\ \A i \in kept' : score[i] > 0
      BY <2>1 DEF Found
    <2>6. ASSUME NEW top, NEW group \in SUBSET Items, NEW k, top = kept' \intersect group,
                 IsTop(top, Found \intersect group, k)
          PROVE  \A i \in group \ kept', j \in group \intersect kept' : score[j] >= score[i]
      <3> SUFFICES ASSUME NEW i \in group \ kept', NEW j \in group \intersect kept'
                   PROVE  score[j] >= score[i]
        OBVIOUS
      <3>1. score[i] \in Nat /\ score[j] \in Nat /\ j \in top
        BY <1>1, <2>6
      <3>2. CASE i \in Found
        BY <2>6, <3>1, <3>2 DEF IsTop
      <3>3. CASE i \notin Found
        BY <3>1, <3>3 DEF Found
      <3> QED
        BY <3>2, <3>3
    <2>7. snapshot.files \in SUBSET Items /\ snapshot.symbols \in SUBSET Items
      BY DEF Items
    <2>8. BestKept(snapshot.files)' /\ BestKept(snapshot.symbols)'
      BY <1>1, <2>1, <2>3, <2>6, <2>7 DEF BestKept
    <2> QED
      BY <1>1, <1>2, <2>3, <2>4, <2>5, <2>8 DEF Best
  <1> QED
    BY <1>3, <1>4, <1>5 DEF FoundInv

\* The steps that follow chains leave all of it alone.
LEMMA ChainsKeepFound ==
    ASSUME FoundInv, UNCHANGED <<snapshot, query, matched, score, kept>>,
           \/ stage' = stage
           \/ stage = "chains" /\ stage' = "done"
    PROVE  FoundInv'
PROOF
  <1>1. Items' = Items /\ Matches' = Matches
    BY Constancy
  <1>2. Progress'
    BY <1>1 DEF FoundInv, Progress, Stages
  <1>3. ASSUME NEW i \in Items PROVE /\ Weighed(i)' = Weighed(i) /\ Lexical(i)' = Lexical(i)
                                     /\ Total(i)' = Total(i)
    <2> Total(i)' = Total(i) /\ Beside(i)' = Beside(i) /\ Lexical(i)' = Lexical(i)
      BY Constancy, SignalsConstancy
    <2> QED
      BY Zenon DEF Weighed
  <1>4. Scores'
    BY <1>1, <1>3 DEF FoundInv, Scores
  <1>5. Best'
    BY <1>1 DEF FoundInv, Best, BestKept
  <1> QED
    BY <1>2, <1>4, <1>5 DEF FoundInv

LEMMA FoundStep == FoundInv /\ [Next]_vars => FoundInv'
PROOF
  <1> SUFFICES ASSUME FoundInv, [Next]_vars PROVE FoundInv'
    OBVIOUS
  <1>1. CASE Match
    BY <1>1, MatchFinds
  <1>2. CASE Expand
    BY <1>2, ExpandFinds
  <1>3. CASE AddNeighbours
    BY <1>3, NeighboursFind
  <1>4. CASE Rank
    BY <1>4, RankKeepsBest
  <1>5. CASE BeginChains
    BY <1>5, ChainsKeepFound DEF BeginChains
  <1>6. CASE Follow
    BY <1>6, ChainsKeepFound DEF Follow
  <1>7. CASE Answer
    BY <1>7, ChainsKeepFound DEF Answer
  <1>8. CASE Finished \/ UNCHANGED vars
    BY <1>8, ChainsKeepFound DEF Finished, vars
  <1> QED
    BY <1>1, <1>2, <1>3, <1>4, <1>5, <1>6, <1>7, <1>8 DEF Next

\* retrieve_relevant shows a model only what matches, is one edge from a match, or lies
\* beside a file that matches.
THEOREM RetrievedNearAMatch == Spec => []OneHopFromAMatch
PROOF
  <1>1. FoundInv => OneHopFromAMatch
    <2> SUFFICES ASSUME FoundInv, NEW i \in kept
                 PROVE  NearAMatch(i)
      BY DEF OneHopFromAMatch
    <2>1. /\ i \in Items /\ score[i] > 0 /\ stage \in {"chains", "done"} /\ Weighed(i)
          /\ snapshot \in Snapshots /\ matched = Matches
      BY DEF FoundInv, Progress, Scores, Best, Stages
    <2>2. Signals(i) \in Nat /\ Lexical(i) \in Nat /\ (Signals(i) > 0 => LinksToMatches(i) # {})
      BY <2>1, SignalsAreLinks, LexicalType
    <2>3. CASE score[i] = Total(i)
      <3> Lexical(i) > 0 \/ Signals(i) > 0
        BY <2>1, <2>2, <2>3 DEF Total
      <3> QED
        BY <2>1, <2>2 DEF NearAMatch, Matches
    <2>4. CASE Beside(i)
      BY <2>4 DEF Beside, NearAMatch
    <2> QED
      BY <2>1, <2>3, <2>4 DEF Weighed
  <1> QED
    BY <1>1, FoundInit, FoundStep, PTL DEF Spec

\* Of what matches or is related to a match, nothing is left out for a mere neighbour, and
\* a match only for other matches and for what two edges relate to matches.
THEOREM MatchesComeFirst == Spec => []MatchesYieldToLinksOnly
PROOF
  <1>1. FoundInv => MatchesYieldToLinksOnly
    <2> SUFFICES ASSUME FoundInv, stage \in {"chains", "done"},
                        NEW group \in {snapshot.files, snapshot.symbols},
                        NEW i \in group \ kept, NEW j \in group \intersect kept
                 PROVE  /\ i \in Matches => j \in Matches \/ Cardinality(LinksToMatches(j)) >= 2
                        /\ LinksToMatches(i) # {} => j \in Matches \/ LinksToMatches(j) # {}
      BY DEF MatchesYieldToLinksOnly
    <2>1. /\ snapshot \in Snapshots /\ matched = Matches /\ score \in [Items -> Nat]
          /\ i \in Items /\ j \in Items /\ kept # {}
      BY DEF FoundInv, Progress, Stages, Items
    <2>2. Weighed(i) /\ Weighed(j) /\ score[j] >= score[i]
      BY <2>1 DEF FoundInv, Scores, Best, BestKept
    <2>3. /\ Signals(i) \in Nat /\ Lexical(i) \in Nat /\ Signals(j) \in Nat /\ Lexical(j) \in Nat
          /\ (Lexical(i) > 0 => Lexical(i) >= 3)
      BY <2>1, SignalsAreLinks, LexicalType
    <2>4. /\ i \in Matches <=> Lexical(i) > 0
          /\ j \in Matches <=> Lexical(j) > 0
      BY <2>1 DEF Matches
    <2>5. CASE j \notin Matches
      <3>1. /\ IsFiniteSet(LinksToMatches(j))
            /\ Signals(j) <= Cardinality(LinksToMatches(j))
            /\ Signals(j) > 0 => LinksToMatches(j) # {}
        BY <2>1, <2>5, SignalsAreLinks
      <3>2. Cardinality(LinksToMatches(j)) \in Nat
        BY <3>1, FS_CardinalityType
      <3>3. Lexical(j) = 0 /\ (score[j] = 2 * Signals(j) \/ score[j] = 1)
        BY <2>2, <2>3, <2>4, <2>5 DEF Weighed, Total
      <3>4. ASSUME i \in Matches PROVE Cardinality(LinksToMatches(j)) >= 2
        <4> score[i] >= 3
          BY <2>2, <2>3, <2>4, <3>4 DEF Weighed, Total
        <4> QED
          BY <2>1, <2>2, <2>3, <3>1, <3>2, <3>3
      <3>5. ASSUME LinksToMatches(i) # {}, i \notin Matches PROVE LinksToMatches(j) # {}
        <4>1. Signals(i) > 0
          BY <2>1, <3>5, SignalsAreLinks
        <4>2. score[i] >= 2
          BY <2>2, <2>3, <4>1 DEF Weighed, Total
        <4> QED
          BY <2>1, <2>2, <2>3, <3>1, <3>3, <4>2
      <3>6. ASSUME i \in Matches PROVE LinksToMatches(j) # {}
        <4> Cardinality({}) = 0
          BY FS_EmptySet
        <4> QED
          BY <3>2, <3>4, <3>6
      <3> QED
        BY <3>4, <3>5, <3>6
    <2> QED
      BY <2>5
  <1> QED
    BY <1>1, FoundInit, FoundStep, PTL DEF Spec

-----------------------------------------------------------------------------
(* The chains of calls.                                                    *)

Starts == kept \intersect snapshot.functions

\* What is followed: from call to call, through nothing twice.
IsPath(p) ==
    /\ p \in Seq(Entity) /\ Len(p) \in 1 .. ChainDepth + 1 /\ p[1] \in Starts
    /\ \A i \in 1 .. Len(p) - 1 : p[i + 1] \in Callees(p[i])
    /\ \A i, j \in 1 .. Len(p) : p[i] = p[j] => i = j

IsPrefixOf(q, p) == Len(q) <= Len(p) /\ \A i \in 1 .. Len(q) : q[i] = p[i]

HasChain(p) == \E c \in chains : Tail(c) = Tail(p)

\* No flow is forgotten: its function waits, the beginning of it is pending, or it has a
\* chain.
Remembered(p) == p[1] \in waiting \/ (\E q \in pending : IsPrefixOf(q, p)) \/ HasChain(p)

ChainsFit ==
    /\ waiting \subseteq Starts
    /\ \A p \in pending : IsPath(p)
    /\ \A c \in chains : c \in Seq(Entity) /\ IsFlow(c)
    /\ \A c, d \in chains : Tail(c) = Tail(d) => c = d
    /\ IsFiniteSet(chains) /\ Cardinality(chains) <= MaxChains

NothingForgotten ==
    /\ stage = "chains" => Full \/ \A p \in Flows : Remembered(p)
    /\ stage = "done" => Full \/ \A p \in Flows : HasChain(p)

Chained == ChainsFit /\ NothingForgotten

\* Where a path ends it is a flow, unless it is its function alone.
LEMMA EndsAreFlows ==
    ASSUME NEW p, IsPath(p), NextCalls(p) = {}, Len(p) > 1
    PROVE  IsFlow(p)
PROOF
  <1>1. CASE Len(p) = ChainDepth + 1
    BY <1>1 DEF IsPath, IsFlow, Starts
  <1>2. CASE Len(p) <= ChainDepth
    <2> Callees(p[Len(p)]) \ On(p) = {}
      BY <1>2 DEF NextCalls
    <2> QED
      BY <1>2 DEF IsPath, IsFlow, Starts
  <1> QED
    BY <1>1, <1>2, BoundsAssumption DEF IsPath

\* Going on from a path gives a path.
LEMMA PathsGoOn ==
    ASSUME snapshot \in Snapshots, NEW p, IsPath(p), NEW c \in NextCalls(p)
    PROVE  IsPath(Append(p, c))
PROOF
  <1> DEFINE q == Append(p, c)
  <1>1. p \in Seq(Entity) /\ Len(p) \in Nat /\ Len(p) >= 1 /\ Len(p) <= ChainDepth
    <2> Len(p) <= ChainDepth
      BY DEF NextCalls
    <2> QED
      BY BoundsAssumption DEF IsPath
  <1>2. c \in Callees(p[Len(p)]) /\ c \notin On(p)
    BY <1>1 DEF NextCalls
  <1>3. c \in Entity
    <2> snapshot.edges \subseteq Edges
      BY SnapshotsAssumption DEF SnapshotRecord
    <2> PICK r \in snapshot.edges : c = r.target
      BY <1>2 DEF Callees
    <2> QED
      BY DEF Edges
  <1>4. q \in Seq(Entity) /\ Len(q) = Len(p) + 1 /\ q[Len(p) + 1] = c
    BY <1>1, <1>3
  <1>5. \A i \in 1 .. Len(p) : q[i] = p[i]
    BY <1>1, <1>3
  <1>6. q[1] \in Starts
    BY <1>1, <1>5 DEF IsPath
  <1>7. ASSUME NEW i \in 1 .. Len(q) - 1 PROVE q[i + 1] \in Callees(q[i])
    <2>1. CASE i = Len(p)
      BY <1>1, <1>2, <1>4, <1>5, <2>1
    <2>2. CASE i < Len(p)
      BY <1>1, <1>4, <1>5, <1>7, <2>2 DEF IsPath
    <2> QED
      BY <1>1, <1>4, <2>1, <2>2
  <1>8. ASSUME NEW i \in 1 .. Len(q), NEW j \in 1 .. Len(q), q[i] = q[j] PROVE i = j
    <2>1. \A k \in 1 .. Len(p) : q[k] # c
      BY <1>2, <1>5 DEF On
    <2>2. CASE i \in 1 .. Len(p) /\ j \in 1 .. Len(p)
      BY <1>5, <1>8, <2>2 DEF IsPath
    <2>3. CASE i = Len(p) + 1 \/ j = Len(p) + 1
      BY <1>1, <1>4, <1>8, <2>1, <2>3
    <2> QED
      BY <1>1, <1>4, <2>2, <2>3
  <1> QED
    BY <1>1, <1>4, <1>6, <1>7, <1>8, BoundsAssumption DEF IsPath

\* A flow that begins with a path goes on with one of its next calls, or is the path.
LEMMA FlowsGoOn ==
    ASSUME NEW p \in Flows, NEW q, IsPath(q), IsPrefixOf(q, p)
    PROVE  \/ q = p /\ NextCalls(q) = {}
           \/ \E c \in NextCalls(q) : IsPrefixOf(Append(q, c), p)
PROOF
  <1>1. /\ IsFlow(p) /\ Len(p) \in Nat /\ Len(p) > 1 /\ Len(p) <= ChainDepth + 1
        /\ DOMAIN p = 1 .. Len(p) /\ p \in Seq(CallEnds)
    <2>1. PICK n \in 2 .. ChainDepth + 1 : p \in [1 .. n -> CallEnds]
      BY DEF Flows
    <2>2. IsFlow(p)
      BY DEF Flows
    <2>3. n \in Nat /\ n > 1 /\ n <= ChainDepth + 1
      BY <2>1, BoundsAssumption
    <2>4. p \in Seq(CallEnds) /\ DOMAIN p = 1 .. n
      BY <2>1, <2>3
    <2>5. Len(p) = n
      BY <2>3, <2>4
    <2> QED
      BY <2>2, <2>3, <2>4, <2>5
  <1>2. q \in Seq(Entity) /\ Len(q) \in Nat /\ Len(q) >= 1 /\ Len(q) <= Len(p)
    BY DEF IsPath, IsPrefixOf
  <1>3. \A i \in 1 .. Len(q) : q[i] = p[i]
    BY DEF IsPrefixOf
  <1>4. CASE Len(q) = Len(p)
    <2>1. q = p
      BY <1>1, <1>2, <1>3, <1>4
    <2>2. NextCalls(q) = {}
      <3>1. CASE Len(p) = ChainDepth + 1
        BY <2>1, <3>1, BoundsAssumption DEF NextCalls
      <3>2. CASE Callees(p[Len(p)]) \subseteq On(p)
        BY <2>1, <3>2 DEF NextCalls
      <3> QED
        BY <1>1, <3>1, <3>2 DEF IsFlow
    <2> QED
      BY <2>1, <2>2
  <1>5. CASE Len(q) < Len(p)
    <2> DEFINE c == p[Len(q) + 1]
    <2>1. c \in Callees(q[Len(q)])
      BY <1>1, <1>2, <1>3, <1>5 DEF IsFlow
    <2>2. c \notin On(q)
      <3> SUFFICES ASSUME NEW i \in 1 .. Len(q), q[i] = c
                   PROVE  FALSE
        BY DEF On
      <3>1. p[i] = p[Len(q) + 1] /\ i \in 1 .. Len(p) /\ Len(q) + 1 \in 1 .. Len(p)
        BY <1>1, <1>2, <1>3, <1>5
      <3>2. i = Len(q) + 1
        BY <1>1, <3>1 DEF IsFlow
      <3> QED
        BY <1>2, <3>2
    <2>3. Len(q) <= ChainDepth
      BY <1>1, <1>2, <1>5, BoundsAssumption
    <2>4. c \in NextCalls(q)
      BY <2>1, <2>2, <2>3 DEF NextCalls
    <2>5. Len(Append(q, c)) = Len(q) + 1 /\ \A i \in 1 .. Len(q) + 1 : Append(q, c)[i] = p[i]
      BY <1>2, <1>3
    <2>6. IsPrefixOf(Append(q, c), p)
      BY <1>1, <1>2, <1>5, <2>5 DEF IsPrefixOf
    <2> QED
      BY <2>4, <2>6
  <1> QED
    BY <1>1, <1>2, <1>4, <1>5

\* What a flow is depends on the snapshot and on what is kept.
LEMMA FlowsConstancy ==
    ASSUME UNCHANGED <<snapshot, query, kept>>
    PROVE  /\ Starts' = Starts /\ Flows' = Flows
           /\ \A p : IsFlow(p)' = IsFlow(p) /\ IsPath(p)' = IsPath(p)
PROOF
  <1>1. Starts' = Starts
    BY DEF Starts
  <1>2. CallEnds' = CallEnds /\ \A e : Callees(e)' = Callees(e)
    BY Constancy
  <1>3. ASSUME NEW p PROVE IsFlow(p)' = IsFlow(p)
    BY <1>2, Zenon DEF IsFlow, On
  <1>4. ASSUME NEW p PROVE IsPath(p)' = IsPath(p)
    BY <1>1, <1>2, Zenon DEF IsPath
  <1>5. Flows' = Flows
    BY <1>2, <1>3, Zenon DEF Flows
  <1> QED
    BY <1>1, <1>3, <1>4, <1>5

\* Nothing starts, and nothing flows, from nothing.
LEMMA NothingKeptNothingFlows ==
    ASSUME kept = {}
    PROVE  /\ Flows = {}
           /\ ChainsFit => waiting = {} /\ pending = {} /\ chains = {}
PROOF
  <1>1. Starts = {}
    BY DEF Starts
  <1>2. \A p : ~IsFlow(p) /\ ~IsPath(p)
    BY <1>1 DEF IsFlow, IsPath
  <1>3. Flows = {}
    BY <1>2 DEF Flows
  <1> QED
    BY <1>1, <1>2, <1>3 DEF ChainsFit

LEMMA ChainedInit == Init => Chained
PROOF
  <1> SUFFICES ASSUME Init PROVE Chained
    OBVIOUS
  <1>1. ChainsFit
    <2> IsFiniteSet({}) /\ Cardinality({}) = 0
      BY FS_EmptySet
    <2> QED
      BY BoundsAssumption DEF Init, ChainsFit
  <1>2. NothingForgotten
    BY DEF Init, NothingForgotten
  <1> QED
    BY <1>1, <1>2 DEF Chained

\* What is followed fits as long as the same is kept.
LEMMA FitKept ==
    ASSUME ChainsFit, UNCHANGED <<snapshot, query, kept, waiting, pending, chains>>
    PROVE  ChainsFit'
PROOF
  BY FlowsConstancy DEF ChainsFit

LEMMA BeforeChains ==
    ASSUME FoundInv, Chained, UNCHANGED <<snapshot, query, kept, waiting, pending, chains>>,
           kept = {}, stage' # "chains"
    PROVE  Chained'
PROOF
  <1>1. ChainsFit'
    BY FitKept DEF Chained
  <1>2. Flows' = {}
    BY FlowsConstancy, NothingKeptNothingFlows
  <1> QED
    BY <1>1, <1>2 DEF Chained, NothingForgotten

LEMMA RankChained == FoundInv /\ Chained /\ Rank => Chained'
PROOF
  <1> SUFFICES ASSUME FoundInv, Chained, Rank PROVE Chained'
    OBVIOUS
  <1>1. /\ kept = {} /\ snapshot \in Snapshots /\ stage' = "chains"
        /\ UNCHANGED <<snapshot, query, pending, chains>>
    BY DEF FoundInv, Progress, Rank
  <1>2. pending = {} /\ chains = {}
    BY <1>1, NothingKeptNothingFlows DEF Chained
  <1>3. waiting' = Starts'
    <2>1. PICK files \in SUBSET (Found \intersect snapshot.files),
               symbols \in SUBSET (Found \intersect snapshot.symbols) :
            kept' = files \union symbols /\ waiting' = symbols \intersect snapshot.functions
      BY DEF Rank
    <2>2. snapshot.functions \subseteq snapshot.symbols /\ snapshot.files \intersect snapshot.symbols = {}
      BY <1>1, SnapshotsAssumption DEF SnapshotRecord
    <2>3. files \intersect snapshot.functions = {}
      BY <2>2
    <2> QED
      BY <1>1, <2>1, <2>3 DEF Starts
  <1>4. ChainsFit'
    <2> IsFiniteSet({}) /\ Cardinality({}) = 0
      BY FS_EmptySet
    <2> QED
      BY <1>1, <1>2, <1>3, BoundsAssumption DEF ChainsFit
  <1>5. \A p \in Flows' : Remembered(p)'
    <2> SUFFICES ASSUME NEW p \in Flows' PROVE Remembered(p)'
      OBVIOUS
    <2> p[1] \in Starts'
      BY DEF Flows, IsFlow, Starts
    <2> QED
      BY <1>3 DEF Remembered
  <1> QED
    BY <1>1, <1>4, <1>5 DEF Chained, NothingForgotten

LEMMA BeginChained == FoundInv /\ Chained /\ BeginChains => Chained'
PROOF
  <1> SUFFICES ASSUME FoundInv, Chained, BeginChains PROVE Chained'
    OBVIOUS
  <1>1. /\ UNCHANGED <<snapshot, query, kept, stage, chains>> /\ stage = "chains" /\ pending = {} /\ ~Full
        /\ snapshot \in Snapshots
    BY DEF FoundInv, Progress, BeginChains
  <1>2. PICK f \in waiting : pending' = {<<f>>} /\ waiting' = waiting \ {f}
    BY DEF BeginChains
  <1>3. f \in Starts /\ f \in Entity
    BY <1>1, SnapshotsAssumption DEF Chained, ChainsFit, Starts, SnapshotRecord
  <1>4. IsPath(<<f>>)
    BY <1>3, BoundsAssumption DEF IsPath
  <1>5. ChainsFit'
    BY <1>1, <1>2, <1>4, FlowsConstancy DEF Chained, ChainsFit
  <1>6. \A p \in Flows' : Remembered(p)'
    <2> SUFFICES ASSUME NEW p \in Flows PROVE Remembered(p)'
      BY <1>1, FlowsConstancy
    <2>1. p[1] \in waiting \/ HasChain(p)
      BY <1>1 DEF Chained, NothingForgotten, Remembered
    <2>2. HasChain(p)' = HasChain(p)
      BY <1>1, Zenon DEF HasChain
    <2>3. CASE p[1] = f
      <3> Len(p) > 1 /\ Len(p) \in Nat
        BY BoundsAssumption DEF Flows, IsFlow
      <3> IsPrefixOf(<<f>>, p)
        BY <2>3 DEF IsPrefixOf
      <3> QED
        BY <1>2 DEF Remembered
    <2>4. CASE p[1] # f
      BY <1>2, <2>1, <2>2, <2>4 DEF Remembered
    <2> QED
      BY <2>3, <2>4
  <1> QED
    BY <1>1, <1>5, <1>6 DEF Chained, NothingForgotten

LEMMA ExtendChained ==
    ASSUME FoundInv, Chained, UNCHANGED <<snapshot, query, stage, kept, waiting>>,
           stage = "chains", ~Full, NEW path \in pending, Extend(path)
    PROVE  Chained'
PROOF
  <1>1. /\ pending' = (pending \ {path}) \union {Append(path, c) : c \in NextCalls(path)}
        /\ UNCHANGED chains /\ NextCalls(path) # {} /\ snapshot \in Snapshots /\ IsPath(path)
    BY DEF Extend, FoundInv, Progress, Chained, ChainsFit
  <1>2. \A p \in pending' : IsPath(p)
    BY <1>1, PathsGoOn DEF Chained, ChainsFit
  <1>3. ChainsFit'
    BY <1>1, <1>2, FlowsConstancy DEF Chained, ChainsFit
  <1>4. \A p \in Flows' : Remembered(p)'
    <2> SUFFICES ASSUME NEW p \in Flows PROVE Remembered(p)'
      BY FlowsConstancy
    <2>1. Remembered(p)
      BY DEF Chained, NothingForgotten
    <2>2. HasChain(p)' = HasChain(p)
      BY <1>1, Zenon DEF HasChain
    <2>3. ASSUME NEW q \in pending, IsPrefixOf(q, p)
          PROVE  \E r \in pending' : IsPrefixOf(r, p)
      <3>1. CASE q # path
        BY <1>1, <2>3, <3>1
      <3>2. CASE q = path
        <4> PICK c \in NextCalls(path) : IsPrefixOf(Append(path, c), p)
          BY <1>1, <2>3, <3>2, FlowsGoOn
        <4> QED
          BY <1>1
      <3> QED
        BY <3>1, <3>2
    <2> QED
      BY <2>1, <2>2, <2>3 DEF Remembered
  <1> QED
    BY <1>3, <1>4 DEF Chained, NothingForgotten

LEMMA EndChained ==
    ASSUME FoundInv, Chained, UNCHANGED <<snapshot, query, stage, kept, waiting>>,
           stage = "chains", ~Full, NEW path \in pending, End(path)
    PROVE  Chained'
PROOF
  <1> DEFINE new == {p \in {path} : Len(p) > 1 /\ \A c \in chains : Tail(c) # Tail(p)}
  <1>1. /\ NextCalls(path) = {} /\ pending' = pending \ {path} /\ chains' = chains \union new
        /\ IsPath(path) /\ path \in Seq(Entity)
    BY DEF End, Chained, ChainsFit, IsPath
  <1>2. Len(path) > 1 => IsFlow(path)
    BY <1>1, EndsAreFlows
  <1>3. IsFiniteSet(chains') /\ Cardinality(chains') <= MaxChains
    <2>1. IsFiniteSet(chains) /\ Cardinality(chains) \in Nat /\ Cardinality(chains) < MaxChains
      BY FS_CardinalityType, BoundsAssumption DEF Chained, ChainsFit, Full
    <2>2. CASE path \in chains \/ new = {}
      <3> chains' = chains
        BY <1>1, <2>2
      <3> QED
        BY <2>1, BoundsAssumption
    <2>3. CASE path \notin chains /\ new # {}
      <3> chains' = chains \union {path}
        BY <1>1, <2>3
      <3> QED
        BY <2>1, <2>3, FS_AddElement, BoundsAssumption
    <2> QED
      BY <2>2, <2>3
  <1>4. ChainsFit'
    <2>1. \A c \in chains' : c \in Seq(Entity) /\ IsFlow(c)
      BY <1>1, <1>2 DEF Chained, ChainsFit
    <2>2. \A c, d \in chains' : Tail(c) = Tail(d) => c = d
      BY <1>1 DEF Chained, ChainsFit
    <2> QED
      BY <1>1, <1>3, <2>1, <2>2, FlowsConstancy DEF Chained, ChainsFit
  <1>5. \A p \in Flows' : Remembered(p)'
    <2> SUFFICES ASSUME NEW p \in Flows PROVE Remembered(p)'
      BY FlowsConstancy
    <2>1. Remembered(p)
      BY DEF Chained, NothingForgotten
    <2>2. HasChain(p) => HasChain(p)'
      BY <1>1 DEF HasChain
    <2>3. ASSUME NEW q \in pending, IsPrefixOf(q, p)
          PROVE  (\E r \in pending' : IsPrefixOf(r, p)) \/ HasChain(p)'
      <3>1. CASE q # path
        BY <1>1, <2>3, <3>1
      <3>2. CASE q = path
        <4>1. p = path
          BY <1>1, <2>3, <3>2, FlowsGoOn
        <4>2. Len(path) > 1
          BY <4>1 DEF Flows, IsFlow
        <4>3. \E c \in chains' : Tail(c) = Tail(path)
          <5>1. CASE \E c \in chains : Tail(c) = Tail(path)
            BY <1>1, <5>1
          <5>2. CASE \A c \in chains : Tail(c) # Tail(path)
            BY <1>1, <4>2, <5>2
          <5> QED
            BY <5>1, <5>2
        <4> QED
          BY <4>1, <4>3 DEF HasChain
      <3> QED
        BY <3>1, <3>2
    <2> QED
      BY <2>1, <2>2, <2>3 DEF Remembered
  <1> QED
    BY <1>4, <1>5 DEF Chained, NothingForgotten

LEMMA AnswerChained == FoundInv /\ Chained /\ Answer => Chained'
PROOF
  <1> SUFFICES ASSUME FoundInv, Chained, Answer PROVE Chained'
    OBVIOUS
  <1>1. /\ UNCHANGED <<snapshot, query, kept, waiting, pending, chains>> /\ stage = "chains"
        /\ stage' = "done" /\ (Full \/ (pending = {} /\ waiting = {}))
    BY DEF Answer
  <1>2. ChainsFit'
    BY <1>1, FitKept DEF Chained
  <1>3. Full' \/ \A p \in Flows' : HasChain(p)'
    <2>1. CASE Full
      BY <1>1, <2>1 DEF Full
    <2>2. CASE ~Full
      <3> SUFFICES ASSUME NEW p \in Flows PROVE HasChain(p)
        BY <1>1, FlowsConstancy DEF HasChain
      <3> Remembered(p)
        BY <1>1, <2>2 DEF Chained, NothingForgotten
      <3> QED
        BY <1>1, <2>2 DEF Remembered
    <2> QED
      BY <2>1, <2>2
  <1> QED
    BY <1>1, <1>2, <1>3 DEF Chained, NothingForgotten

LEMMA ChainedStep == FoundInv /\ Chained /\ [Next]_vars => Chained'
PROOF
  <1> SUFFICES ASSUME FoundInv, Chained, [Next]_vars PROVE Chained'
    OBVIOUS
  <1>1. CASE Match
    <2> kept = {} /\ stage' # "chains"
      BY <1>1 DEF FoundInv, Progress, Match
    <2> QED
      BY <1>1, BeforeChains DEF Match
  <1>2. CASE Expand
    <2> kept = {} /\ stage' # "chains"
      BY <1>2 DEF FoundInv, Progress, Expand
    <2> QED
      BY <1>2, BeforeChains DEF Expand
  <1>3. CASE AddNeighbours
    <2> kept = {} /\ stage' # "chains"
      BY <1>3 DEF FoundInv, Progress, AddNeighbours
    <2> QED
      BY <1>3, BeforeChains DEF AddNeighbours
  <1>4. CASE Rank
    BY <1>4, RankChained
  <1>5. CASE BeginChains
    BY <1>5, BeginChained
  <1>6. CASE Follow
    <2> PICK path \in pending : Extend(path) \/ End(path)
      BY <1>6 DEF Follow
    <2> QED
      BY <1>6, ExtendChained, EndChained DEF Follow
  <1>7. CASE Answer
    BY <1>7, AnswerChained
  <1>8. CASE Finished \/ UNCHANGED vars
    <2>1. UNCHANGED <<snapshot, query, stage, kept, waiting, pending, chains>>
      BY <1>8 DEF Finished, vars
    <2>2. ChainsFit'
      BY <2>1, FitKept DEF Chained
    <2>3. \A p : Remembered(p)' = Remembered(p) /\ HasChain(p)' = HasChain(p)
      <3> SUFFICES ASSUME NEW p
                   PROVE  Remembered(p)' = Remembered(p) /\ HasChain(p)' = HasChain(p)
        OBVIOUS
      <3> QED
        BY <2>1, Zenon DEF Remembered, HasChain
    <2>4. Flows' = Flows /\ (Full' <=> Full)
      BY <2>1, FlowsConstancy DEF Full
    <2>5. NothingForgotten'
      BY <2>1, <2>3, <2>4 DEF Chained, NothingForgotten
    <2> QED
      BY <2>2, <2>5 DEF Chained
  <1> QED
    BY <1>1, <1>2, <1>3, <1>4, <1>5, <1>6, <1>7, <1>8 DEF Next

\* Whatever graph of calls a snapshot has, the chains are flows of calls, and all of them
\* are there unless there are MaxChains.
THEOREM ChainsFollowTheCalls == Spec => []ChainsAreTheFlows
PROOF
  <1>1. FoundInv /\ Chained => ChainsAreTheFlows
    <2> SUFFICES ASSUME FoundInv, Chained PROVE ChainsAreTheFlows
      OBVIOUS
    <2>1. Cardinality(chains) \in Nat
      BY FS_CardinalityType DEF Chained, ChainsFit
    <2>2. ASSUME stage = "done", Cardinality(chains) < MaxChains, NEW p \in Flows
          PROVE  \E c \in chains : Tail(c) = Tail(p)
      BY <2>1, <2>2, BoundsAssumption DEF Chained, NothingForgotten, Full, HasChain
    <2> QED
      BY <2>2 DEF Chained, ChainsFit, ChainsAreTheFlows
  <1> QED
    BY <1>1, FoundInit, FoundStep, ChainedInit, ChainedStep, PTL DEF Spec

\* Every variable has its type, and no more is kept or retrieved than asked for.
THEOREM RetrievalTypeCorrect == Spec => []RetrievalTypeOK
PROOF
  <1>1. FoundInv /\ Chained => RetrievalTypeOK
    <2> SUFFICES ASSUME FoundInv, Chained PROVE RetrievalTypeOK
      OBVIOUS
    <2>1. query \in SUBSET Term /\ stage \in Stages /\ score \in [Items -> Nat]
      BY QueriesAssumption DEF FoundInv, Progress
    <2>2. matched \subseteq Items
      BY DEF FoundInv, Progress, Matches
    <2>3. /\ kept \subseteq Items /\ waiting \subseteq kept \intersect snapshot.functions
          /\ Cardinality(kept \intersect snapshot.files) <= TopFiles
          /\ Cardinality(kept \intersect snapshot.symbols) <= TopSymbols
      BY DEF FoundInv, Best, Chained, ChainsFit, Starts
    <2>4. /\ pending \subseteq Seq(Entity) /\ chains \subseteq Seq(Entity)
          /\ IsFiniteSet(chains) /\ Cardinality(chains) <= MaxChains
      BY DEF Chained, ChainsFit, IsPath
    <2> QED
      BY <2>1, <2>2, <2>3, <2>4 DEF RetrievalTypeOK
  <1> QED
    BY <1>1, FoundInit, FoundStep, ChainedInit, ChainedStep, PTL DEF Spec
=============================================================================
