----------------------------- MODULE ImpactGraph -----------------------------
(***************************************************************************)
(* compute_impact_facts (ai/impact.py) and the breadth-first traversal it  *)
(* rests on (query/graph.py): who depends on an entity, directly or        *)
(* through others, which tests and endpoints that touches, and what is     *)
(* said when the traversal stops at its depth limit.                       *)
(***************************************************************************)
EXTENDS Naturals

CONSTANTS
    Entity,     \* the entities a snapshot may have
    Snapshots,  \* the snapshots: their entities, those of test modules, edges, endpoint handlers
    MaxDepth    \* max_depth of the traversal (5 in the code)

Kind == {"contains", "imports", "inherits", "calls", "tests"}
Edges == [kind : Kind, source : Entity, target : Entity]

ASSUME SnapshotsAssumption ==
    Snapshots \subseteq [entities : SUBSET Entity, tests : SUBSET Entity,
                         edges : SUBSET Edges, handlers : SUBSET Entity]
\* An edge is derived from a definition of its source, which the snapshot has.
ASSUME SourcesAssumption ==
    \A s \in Snapshots : \A r \in s.edges : r.source \in s.entities
ASSUME DepthAssumption == MaxDepth \in Nat \ {0}

VARIABLES
    snapshot,   \* the loaded snapshot
    target,     \* the entity asked for
    depth,      \* levels explored
    frontier,   \* the entities found last
    collected,  \* all entities found
    truncated,  \* whether the traversal stopped at its limit
    stage,      \* "traverse", "collect", "done"
    facts       \* what impact reports

vars == <<snapshot, target, depth, frontier, collected, truncated, stage, facts>>

Nothing == [direct |-> {}, indirect |-> {}, tests |-> {}, apis |-> {}, truncated |-> FALSE,
            confidence |-> "none"]

DEPENDENCY_KINDS == {"imports", "calls", "inherits"}

\* dependents_of, tests_for: the sources of the edges into an entity.
DependentsOf(e) ==
    {r.source : r \in {x \in snapshot.edges : x.target = e /\ x.kind \in DEPENDENCY_KINDS}}
TestsFor(e) == {r.source : r \in {x \in snapshot.edges : x.target = e /\ x.kind = "tests"}}

visited == {target} \union collected

\* A target of the loaded snapshot.
Ask ==
    /\ target \in snapshot.entities
    /\ depth = 0
    /\ frontier = {target}
    /\ collected = {}
    /\ truncated = FALSE
    /\ stage = "traverse"
    /\ facts = Nothing

Init == snapshot \in Snapshots /\ Ask

\* Mutant: edges of every kind are followed.
NextFrontierOfAnyKind == {r.source : r \in {x \in snapshot.edges : x.target \in frontier}} \ visited

\* Mutant: a level explores one entity of the frontier.
NextFrontierOfOne == DependentsOf(CHOOSE e \in frontier : TRUE) \ visited

\* The entities that one level finds: dependents of the frontier not seen before.
NextFrontier == (UNION {DependentsOf(e) : e \in frontier}) \ visited

\* Mutant: the limit is checked one level late.
ExploreOneMore ==
    /\ stage = "traverse"
    /\ IF depth > MaxDepth \/ NextFrontier = {}
       THEN /\ stage' = "collect"
            /\ UNCHANGED <<depth, frontier, collected, truncated>>
       ELSE /\ depth' = depth + 1
            /\ frontier' = NextFrontier
            /\ collected' = collected \union NextFrontier
            /\ truncated' = (depth >= MaxDepth - 1)
            /\ stage' = stage
    /\ UNCHANGED <<snapshot, target, facts>>

\* One round of the loop, or its end.
Explore ==
    /\ stage = "traverse"
    /\ IF depth = MaxDepth \/ NextFrontier = {}
       THEN /\ stage' = "collect"
            /\ UNCHANGED <<depth, frontier, collected, truncated>>
       ELSE /\ depth' = depth + 1
            /\ frontier' = NextFrontier
            /\ collected' = collected \union NextFrontier
            /\ truncated' = (depth = MaxDepth - 1)
            /\ stage' = stage
    /\ UNCHANGED <<snapshot, target, facts>>

\* confidence_for_impact_facts: edges are resolved facts and an empty answer is a direct one.
Confidence == IF truncated THEN "medium" ELSE "high"

\* compute_impact_facts
Collect ==
    /\ stage = "collect"
    /\ stage' = "done"
    /\ facts' = [direct |-> DependentsOf(target),
                 indirect |-> collected \ DependentsOf(target),
                 tests |-> UNION {TestsFor(e) : e \in visited},
                 apis |-> visited \intersect snapshot.handlers,
                 truncated |-> truncated,
                 confidence |-> Confidence]
    /\ UNCHANGED <<snapshot, target, depth, frontier, collected, truncated>>

Finished == stage = "done" /\ UNCHANGED vars

Next == Explore \/ Collect \/ Finished

Spec == Init /\ [][Next]_vars

-----------------------------------------------------------------------------
(* Properties.                                                             *)

ImpactTypeOK ==
    /\ target \in snapshot.entities
    /\ depth \in 0 .. MaxDepth
    /\ frontier \subseteq visited /\ collected \subseteq snapshot.entities
    /\ truncated \in BOOLEAN
    /\ stage \in {"traverse", "collect", "done"}

Reported == facts.direct \union facts.indirect

\* Unless it says so, impact leaves out nothing: whatever depends on the target or on a
\* reported entity is reported, and confidence is high only then (graph.py:77-90,
\* impact.py:95-109).
NothingLeftOut ==
    stage = "done" =>
        \/ \A e \in {target} \union Reported : DependentsOf(e) \subseteq {target} \union Reported
        \/ facts.truncated /\ facts.confidence # "high"

\* Every entity found depends on the target, through entities found: any part of them
\* that holds the target and, of those found, whatever depends on the part, is all of
\* them (graph.py:79-85).
EverythingDepends ==
    \A part \in SUBSET visited :
        /\ target \in part
        /\ \A e \in part : DependentsOf(e) \intersect visited \subseteq part
        => part = visited

\* Direct and indirect dependents are two different lists, and a traversal that was not
\* cut off found each of them.  The target is in them only if it has itself for a base: a
\* class named like the library class it extends (impact.py:69-72,
\* relationships.py:162-163, 272-277).
DirectOrIndirect ==
    stage = "done" =>
        /\ facts.direct \intersect facts.indirect = {}
        /\ Reported \ {target} = collected
        /\ target \in Reported =>
             [kind |-> "inherits", source |-> target, target |-> target] \in snapshot.edges
=============================================================================
