---------------------------- MODULE Relationships ----------------------------
(***************************************************************************)
(* The relationship facts of a run (domain/relationships.py), from modules *)
(* whose imports, calls and bases are resolved (CallResolution).  A module *)
(* is a record                                                             *)
(*   name      its dotted name, path its file, test whether that is a test *)
(*   imports   the names of the modules its imports resolve to             *)
(*   calls     the entities its top-level statements call                  *)
(*   functions [name, calls] of its functions and its classes' methods,    *)
(*             owner the class of a method, or the module                  *)
(*   classes   [name, bases] of its classes                                *)
(***************************************************************************)
EXTENDS Naturals

Kinds == {"contains", "imports", "inherits", "calls", "tests"}

Ref(kind, name) == [kind |-> kind, id |-> name]
FileRef(m) == Ref("FILE", m.path)
ModuleRef(name) == Ref("MODULE", name)
FunctionRef(f) == Ref("FUNCTION", f.name)
ClassRef(name) == Ref("CLASS", name)

Edge(kind, source, target) == [kind |-> kind, source |-> source, target |-> target]

\* A file contains its module, a module its functions and classes, a class its methods.
ContainsEdges(m) ==
    {Edge("contains", FileRef(m), ModuleRef(m.name))}
    \union {Edge("contains", ModuleRef(m.name), ClassRef(c.name)) : c \in m.classes}
    \union {Edge("contains", f.owner, FunctionRef(f)) : f \in m.functions}

\* A module imports others, never itself.
ImportEdges(m) ==
    {Edge("imports", ModuleRef(m.name), ModuleRef(n)) : n \in m.imports \ {m.name}}

InheritsEdges(m) ==
    UNION {{Edge("inherits", ClassRef(c.name), ClassRef(b)) : b \in c.bases} : c \in m.classes}

\* Mutant: a scope that calls itself depends on itself.
AllCallsOf(scope, targets) == {Edge("calls", scope, t) : t \in targets}

\* The calls of one scope, but those that go to an entity of its own name.
CallsOf(scope, targets) ==
    {Edge("calls", scope, t) : t \in {x \in targets : x.id # scope.id}}

CallEdges(m) ==
    CallsOf(ModuleRef(m.name), m.calls)
    \union UNION {CallsOf(FunctionRef(f), f.calls) : f \in m.functions}

\* module_owning
Owning(modules, ref) ==
    {m \in modules : \/ ref \in {ClassRef(c.name) : c \in m.classes}
                     \/ ref \in {FunctionRef(f) : f \in m.functions}}

\* Mutant: only whole modules are tested.
TestsAssertedOfModules(modules, m, f, target) ==
    {Edge("tests", ModuleRef(m.name), ModuleRef(o.name)) :
        o \in {x \in Owning(modules, target) : x.name # m.name /\ ~x.test}}

\* What a function of a test module calls in modules that are not tests: an edge from
\* the function to the entity, and one from its module to the entity's module.
TestsAsserted(modules, m, f, target) ==
    UNION {{Edge("tests", FunctionRef(f), target), Edge("tests", ModuleRef(m.name), ModuleRef(o.name))} :
              o \in {x \in Owning(modules, target) : x.name # m.name /\ ~x.test}}

TestEdges(modules, m) ==
    IF m.test
    THEN UNION {UNION {TestsAsserted(modules, m, f, t) : t \in f.calls} : f \in m.functions}
    ELSE {}

build_relationships(modules) ==
    UNION {ContainsEdges(m) \union ImportEdges(m) \union InheritsEdges(m)
           \union CallEdges(m) \union TestEdges(modules, m) : m \in modules}

\* The entities of a snapshot.
EntitiesOf(modules) ==
    UNION {{FileRef(m), ModuleRef(m.name)} \union {ClassRef(c.name) : c \in m.classes}
           \union {FunctionRef(f) : f \in m.functions} : m \in modules}
=============================================================================
