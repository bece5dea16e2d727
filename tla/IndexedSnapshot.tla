--------------------------- MODULE IndexedSnapshot ---------------------------
(***************************************************************************)
(* The snapshot that the loaded facts of a repository give, for impact to  *)
(* traverse: entities, relationships and endpoints.                        *)
(***************************************************************************)
EXTENDS ImpactGraph, CallResolution, ApiEndpoints

\* RepositorySnapshot, with what queries take from it.
SnapshotWith(files, resolved, endpoints) ==
    [entities |-> EntitiesOf(resolved) \union {Ref("FILE", files[i].path) : i \in DOMAIN files},
     tests    |-> EntitiesOf({m \in resolved : m.test}),
     edges    |-> build_relationships(resolved),
     handlers |-> {Ref("FUNCTION", f) : f \in {e.function : e \in endpoints} \ {NoName}}]

SnapshotOf(files, loaded) == SnapshotWith(files, ResolvedModules(loaded), detect_api_endpoints(loaded))

\* What analyze_module makes of any file: a method is of a class of its module.
FactsOK(loaded) ==
    /\ IsList(loaded)
    /\ \A m \in ToSet(loaded) :
          /\ IsList(m.functions) /\ IsList(m.classes)
          /\ \A c \in ToSet(m.classes) : IsList(c.qname) /\ IsList(c.bases)
          /\ \A f \in ToSet(m.functions) :
                f.owner # NoName => \E c \in ToSet(m.classes) : c.qname = f.owner

\* Modules of tests have names of their own, and so have their functions.
TestNamesApart(loaded) ==
    \A m, o \in ToSet(Named(loaded)) :
        m.test /\ ~o.test =>
            /\ m.name # o.name
            /\ \A f \in ToSet(m.functions), g \in ToSet(o.functions) : f.qname # g.qname

EdgesOf(kind) == {r \in snapshot.edges : r.kind = kind}

-----------------------------------------------------------------------------
(* Properties.                                                             *)

\* The tests reported are tests, and none is missing: a test function that calls the
\* target, or an entity that depends on it, is reported as a test, and so is its module
\* if the target is a module it calls into (relationships.py:517-564, impact.py:74-76).
TestsAreReported ==
    stage = "done" =>
        /\ facts.tests \subseteq snapshot.tests
        /\ \A r \in EdgesOf("calls") :
             /\ r.source.kind = "FUNCTION" /\ r.source \in snapshot.tests
             /\ r.target \in visited \ snapshot.tests
             => r.source \in facts.tests
=============================================================================
