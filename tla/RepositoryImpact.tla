--------------------------- MODULE RepositoryImpact ---------------------------
(***************************************************************************)
(* impact over snapshots as index builds them: ImpactGraph on the facts    *)
(* that PythonFacts, CallResolution, Relationships and ApiEndpoints derive *)
(* from the sources of a repository.                                       *)
(***************************************************************************)
EXTENDS IndexedSnapshot, PythonFacts

CONSTANTS
    Repositories,  \* the repositories to index, each the sequence of its source files
    SourceRoots    \* the detected source roots, a sequence of sequences of directories

VARIABLES
    repository,  \* the source files
    modules      \* their facts, as loaded: a module without a name is not stored

NameOf(file) == infer_module_name(file.path, SourceRoots)

FactsOf(files) == [i \in DOMAIN files |-> analyze_module(files[i], SourceRoots)]

IndexedSnapshots == {SnapshotOf(files, Named(FactsOf(files))) : files \in Repositories}

IndexedEntities == UNION {s.entities : s \in IndexedSnapshots}

\* find_entity_ref: the entity a text addresses, files before modules before symbols.
find_entity_ref(text) ==
    LET within(m) == <<ModuleRef(m.name)>>
                     \o [i \in DOMAIN m.classes |-> ClassRef(m.classes[i].qname)]
                     \o [i \in DOMAIN m.functions |-> Ref("FUNCTION", m.functions[i].qname)]
        entities == [i \in DOMAIN repository |-> Ref("FILE", repository[i].path)]
                    \o FlattenSeq([i \in DOMAIN modules |-> within(modules[i])])
    IN  Head(SelectSeq(entities, LAMBDA e : e.id = text))

RepositoryInit ==
    /\ repository \in Repositories
    /\ modules = Named(FactsOf(repository))
    /\ snapshot = SnapshotOf(repository, modules)
    /\ target \in {find_entity_ref(e.id) : e \in snapshot.entities}
    /\ Ask

RepositorySpec ==
    RepositoryInit /\ [][Next /\ UNCHANGED <<repository, modules>>]_<<vars, repository, modules>>

-----------------------------------------------------------------------------
(* What the sources say.                                                   *)

Sources == {file \in ToSet(repository) : file.parses}

\* A statement written, with the scope it runs in: a module, a function or a class, by its
\* reference, or a lambda, which is no entity.
In(scope, body) == {[scope |-> scope, statement |-> s] : s \in ToSet(body)}

Defined(w) ==
    LET name == Append(w.scope.id, w.statement.name)
    IN  IF w.statement.is = "class" THEN ClassRef(name) ELSE Ref("FUNCTION", name)

\* What stands in a statement.
PartsOf(w) ==
    LET s == w.statement
    IN  CASE IsDefinition(s) -> In(w.scope, s.decorators) \union In(Defined(w), s.body)
          [] s.is = "lambda" -> In(Ref("LAMBDA", NoName), s.body)
          [] s.is = "assign" -> In(w.scope, <<s.value>>)
          [] s.is \in {"block", "match"} -> In(w.scope, s.body)
          [] OTHER -> {}

WithParts(statements) == statements \union UNION {PartsOf(w) : w \in statements}

\* Every statement of a file that stands in at most so many others.
WrittenAfter(file) ==
    LET after[n \in 0 .. MaxNesting] ==
            IF n = 0 THEN In(ModuleRef(NameOf(file)), file.body) ELSE WithParts(after[n - 1])
    IN  after

Written(file) == WrittenAfter(file)[MaxNesting]

WrittenIn(file, scope, form) ==
    {w.statement : w \in {x \in Written(file) : x.scope = scope /\ x.statement.is = form}}

ImportsOf(file) == {s \in ToSet(file.body) : s.is = "import"}

\* All that the sources define: modules, by no statement, and classes and functions.
ModuleDefinition(file) == [name |-> NameOf(file), file |-> file, by |-> {}]
Definition(file, w) == [name |-> Defined(w).id, file |-> file, by |-> {w}]

AllDefinitions ==
    {ModuleDefinition(file) : file \in ToSet(repository)}
    \union UNION {{Definition(file, w) : w \in {x \in Written(file) : IsDefinition(x.statement)}} :
                     file \in Sources}

DefinedOnce(name) == \A d, other \in AllDefinitions : d.name = name /\ other.name = name => d = other

\* A scope that is an entity and no other has its name.
KnownScope(scope) ==
    /\ scope \in snapshot.entities /\ scope.kind \in {"MODULE", "FUNCTION"}
    /\ DefinedOnce(scope.id)

CalledBy(scope) == {r.target : r \in {x \in EdgesOf("calls") : x.source = scope}}

\* Those classes and all that they inherit from: what any part of the classes holds that
\* holds them and the bases of each of its own.
HoldsBases(part) == \A r \in EdgesOf("inherits") : r.source \in part => r.target \in part

Ancestors(classes) ==
    LET all == classes \union {e \in snapshot.entities : e.kind = "CLASS"}
    IN  {c \in all : \A part \in SUBSET all : classes \subseteq part /\ HoldsBases(part) => c \in part}

\* The classes of which f is a method.
ClassesHaving(f) ==
    {r.source : r \in {x \in EdgesOf("contains") : x.target = f /\ x.source.kind = "CLASS"}}

\* A call of a method of an object, by the one name of its scope that calls such a method.
IsOnlyCall(file, w) ==
    /\ w.statement.is = "call" /\ Len(w.statement.fn) = 2
    /\ \A other \in WrittenIn(file, w.scope, "call") :
          Last(other.fn) = Last(w.statement.fn) => other = w.statement

\* What can be parsed, and nothing stands deeper than MaxNesting.
StatementOK(s) ==
    /\ IsDefinition(s) => IsList(s.decorators)
    /\ IsDefinition(s) \/ s.is \in {"lambda", "block", "match"} => IsList(s.body)
    /\ s.is = "class" => IsList(s.bases)
    /\ s.is = "call" => IsList(s.fn) /\ s.fn # <<>>
    /\ s.is = "assign" => s.value.is \in {"call", "name", "attribute", "other"}

FileOK(file) ==
    /\ IsList(file.path) /\ Len(file.path) >= 2
    /\ file.parses =>
         /\ IsList(file.body)
         /\ \A w \in Written(file) : StatementOK(w.statement) /\ PartsOf(w) \subseteq Written(file)

ASSUME RepositoriesAssumption ==
    \A files \in Repositories : IsList(files) /\ \A file \in ToSet(files) : FileOK(file)
ASSUME RootsAssumption == IsList(SourceRoots) /\ \A root \in ToSet(SourceRoots) : IsList(root)
ASSUME IndexAssumption == Snapshots = IndexedSnapshots
ASSUME TestsAssumption == \A files \in Repositories : TestNamesApart(Named(FactsOf(files)))

-----------------------------------------------------------------------------
(* Properties.                                                             *)

\* A calls edge leaves the scope whose own statements hold the call, not one around it,
\* and enters an entity of the name called, unless an alias or a module of that name hides
\* it (python_analyzer.py:180-189, relationships.py:291-358).
EdgesAreWritten ==
    \A r \in EdgesOf("calls") : \E file \in Sources :
        \E c \in WrittenIn(file, r.source, "call") :
            \/ Last(c.fn) = Last(r.target.id)
            \/ \E other \in Sources : /\ NameOf(other) = NameOf(file)
                                      /\ \E i \in ImportsOf(other) : i.alias = Last(c.fn)
            \/ ModuleRef(r.target.id) \in snapshot.entities

\* The name is that of a function of the module, and of no import, inner function or class
\* of the file.
NamesFunctionOf(file, name) ==
    /\ \E s \in ToSet(file.body) : s.is = "def" /\ s.name = name
    /\ \A i \in ImportsOf(file) : BoundName(i) # name
    /\ \A w \in Written(file) :
          /\ IsDefinition(w.statement) /\ w.statement.name = name
          /\ ~(w.statement.is = "def" /\ w.scope.kind = "CLASS")
          => w.scope = ModuleRef(NameOf(file)) /\ w.statement.is = "def"

\* A call of a function defined in the same module is never lost, whatever it stands in, but
\* in a class body, a lambda or the function itself (relationships.py:142-166, 417-476).
CallsMakeEdges ==
    \A file \in Sources : \A w \in Written(file) :
        LET name == Head(w.statement.fn)
            callee == Ref("FUNCTION", Append(NameOf(file), name))
        IN  /\ w.statement.is = "call" /\ Len(w.statement.fn) = 1
            /\ KnownScope(w.scope) /\ w.scope # callee
            /\ DefinedOnce(NameOf(file)) /\ NamesFunctionOf(file, name) /\ name \notin Receivers
            => callee \in CalledBy(w.scope)

\* The calls edges are those written, and none of those is lost.
CallsAsWritten == stage = "done" => EdgesAreWritten /\ CallsMakeEdges

\* self.m() goes to one method m, of the class itself if it has one, and is found if any
\* of its ancestors has one: along hierarchies with diamonds, and cycles that no program
\* runs with but a repository may hold (type_inference.py:79-109).
SelfCallsAreInherited ==
    stage = "done" =>
        \A file \in Sources : \A w \in Written(file) : \A class \in ClassesHaving(w.scope) :
            LET method(c) == Ref("FUNCTION", Append(c.id, Last(w.statement.fn)))
                having == {c \in Ancestors({class}) : method(c) \in snapshot.entities}
                found == {method(c) : c \in having} \intersect CalledBy(w.scope)
            IN  /\ IsOnlyCall(file, w) /\ Head(w.statement.fn) = "self"
                /\ KnownScope(w.scope) /\ \A c \in Ancestors({class}) : DefinedOnce(c.id)
                /\ \A c \in having : ModuleRef(method(c).id) \notin snapshot.entities
                => \/ having = {} /\ found = {}
                   \/ class \in having /\ found = {method(class)} \ {w.scope}
                   \/ class \notin having /\ Cardinality(found) = 1

\* The classes that an annotation of one module names, and those of the values of a call.
Classes(annotation, module, context) ==
    {ClassRef(c) : c \in {resolve_type_name(annotation, context.namespaces[module], context.index)} \ {NoName}}

ClassesGiven(callee, module, context) ==
    IF IsFunction(callee, context.index) /\ ~IsClass(callee, context.index)
    THEN LET factory == context.index.functions[callee]
         IN  Classes(factory.returns, factory.module, context) \union Classes(factory.returns, module, context)
    ELSE {ClassRef(callee)}

TypesAgree(context) ==
    \A file \in Sources : \A w \in Written(file) :
        LET module == NameOf(file)
            variable == Head(w.statement.fn)
        IN  /\ IsOnlyCall(file, w) /\ KnownScope(w.scope)
            /\ variable \notin Receivers \union DOMAIN context.namespaces[module]
            => \A a \in WrittenIn(file, w.scope, "assign") :
                a.to = <<variable>> /\ a.value.is = "call" /\ Len(a.value.fn) = 1 =>
                    \A t \in CalledBy(w.scope) : \A class \in ClassesHaving(t) :
                        /\ t.id = Append(class.id, Last(w.statement.fn))
                        /\ {ModuleRef(t.id), ModuleRef(class.id)} \intersect snapshot.entities = {}
                        => class \in Ancestors(ClassesGiven(
                               Lookup(context.namespaces[module], Head(a.value.fn)), module, context))

\* A call through a variable goes to a method of the class that each call of a plain name
\* assigned to the variable gives, a class or a factory, or of its ancestors; only the return
\* annotation of a factory may be mistaken, and only for a class that the caller's module
\* knows by the same name (type_inference.py:144-175, 257-304).  Values of other forms are
\* not looked at: a literal, or whatever else is no call, name or attribute, leaves no fact, so
\* that the variable keeps the type of its other assignments (python_analyzer.py:224-226).
ReceiversHaveTheirType == stage = "done" => TypesAgree(Context(modules))

\* What a statement says of the endpoints that a function serves: its own decorators, and the
\* calls that add it.
IsDecorated(s) == \E d \in ToSet(s.decorators) : IsCallOf(d, HttpMethods \union {"api_route"})

AddsRouteTo(s, name) == IsCallOf(s, {"add_api_route"}) /\ Len(s.args) > 1 /\ s.args[2] = name

\* Every endpoint reported is that of a function so decorated or added, ...
ServedAsWritten ==
    \A api \in facts.apis : \E file \in Sources : \E w \in Written(file) :
        /\ w.statement.is = "def" /\ api = Defined(w)
        /\ \/ IsDecorated(w.statement)
           \/ \E other \in Written(file) : AddsRouteTo(other.statement, w.statement.name)

\* ... and every function so decorated is reported, and the one of a name for which some
\* scope of the file adds a route.
ServesWhatIsWritten ==
    \A file \in Sources : \A w \in Written(file) :
        /\ w.statement.is = "def" /\ Defined(w) \in visited /\ DefinedOnce(Defined(w).id)
        /\ \/ IsDecorated(w.statement)
           \/ /\ \A other \in Written(file) :
                    other.statement.is = "def" /\ other.statement.name = w.statement.name => other = w
              /\ \E other \in Written(file) :
                    KnownScope(other.scope) /\ AddsRouteTo(other.statement, w.statement.name)
        => Defined(w) \in facts.apis

\* The endpoints reported serve what is affected, and none is missing: neither that of a
\* function or method with a route for decorator, wherever it is defined, nor that of a
\* function of the module that some scope of it adds a route for
\* (api_endpoints.py:98-133, 168-217, impact.py:78-82).
HandlersAreReported ==
    stage = "done" => facts.apis \subseteq visited /\ ServedAsWritten /\ ServesWhatIsWritten

\* What depends on the module in a file is what depends on the file.
FileShowsItsModule ==
    stage = "done" =>
        \A r \in EdgesOf("contains") :
            r.source = target /\ target.kind = "FILE" => DependentsOf(r.target) \subseteq Reported
=============================================================================
