---------------------------- MODULE CallResolution ----------------------------
(***************************************************************************)
(* What names, types and calls resolve to (domain/relationships.py and     *)
(* domain/type_inference.py): from the facts of PythonFacts to modules     *)
(* whose imports, bases and calls are entities, as Relationships wants     *)
(* them.  No answer is NoName.                                             *)
(***************************************************************************)
EXTENDS Names, Relationships, FiniteSets, TLC

\* dict.get
Lookup(dict, key) == IF key \in DOMAIN dict THEN dict[key] ELSE NoName

\* What is resolved to a qualified name: the last definition that has it.
LastOf(symbols) ==
    [q \in {s.qname : s \in ToSet(symbols)} |->
        symbols[Max({i \in DOMAIN symbols : symbols[i].qname = q})]]

\* _RepositoryIndex: modules without a name are not in it, and have no relationships.
Named(modules) == Only(modules, {m \in ToSet(modules) : m.name # NoName})

RepositoryIndex(modules) ==
    LET named == Named(modules)
    IN  [modules |-> {named[i].name : i \in DOMAIN named},
         classes |-> LastOf(FlattenSeq([i \in DOMAIN named |-> named[i].classes])),
         functions |-> LastOf(FlattenSeq([i \in DOMAIN named |-> named[i].functions]))]

IsClass(name, index) == name \in DOMAIN index.classes
IsFunction(name, index) == name \in DOMAIN index.functions

-----------------------------------------------------------------------------
(* Imports and the names of a module.                                      *)

\* _relative_package: the package `level` dots stand for; a package's own __init__ is in it.
RelativePackage(module, level) ==
    LET drop == IF StemOf(module.path) = "__init__" THEN level - 1 ELSE level
    IN  SubSeq(module.name, 1, Len(module.name) - drop)

\* The imported name as a submodule, or else its module.
KnownModule(dotted, name, index) ==
    IF Append(dotted, name) \in index.modules THEN Append(dotted, name)
    ELSE IF dotted \in index.modules THEN dotted
    ELSE NoName

\* _resolve_import_module: relative to `base` if the import has dots, and not above all packages.
ImportedFrom(base, import, index) ==
    IF import.level > 0 /\ base = NoName THEN NoName
    ELSE KnownModule(base \o import.module, import.name, index)

ImportedModule(module, import, index) ==
    ImportedFrom(IF import.level = 0 THEN NoName ELSE RelativePackage(module, import.level), import, index)

\* The name an import binds; `import a.b` is taken to bind b.
BoundName(import) ==
    IF import.alias # "" THEN import.alias
    ELSE IF import.name # "" THEN import.name
    ELSE Last(import.module)

\* What an import from `source` binds its name to: the class or function imported, or else
\* the module.
Binding(import, source, index) ==
    LET symbol == Append(source, import.name)
    IN  IF import.name # "" /\ (IsClass(symbol, index) \/ IsFunction(symbol, index)) THEN symbol ELSE source

\* _local_name_map: later imports before earlier ones, imports before definitions,
\* functions, nested ones too, before classes; of definitions the first.
LocalNames(module, index) ==
    LET imports == module.imports
        symbols == Only(module.functions, {f \in ToSet(module.functions) : f.owner = NoName})
                   \o module.classes
        source(i) == ImportedModule(module, imports[i], index)
        known == {i \in DOMAIN imports : source(i) # NoName}
        binding(x) == {i \in known : BoundName(imports[i]) = x}
        defining(x) == {i \in DOMAIN symbols : symbols[i].name = x}
    IN  [x \in {BoundName(imports[i]) : i \in known} \union {symbols[i].name : i \in DOMAIN symbols} |->
            IF binding(x) # {}
            THEN Binding(imports[Max(binding(x))], source(Max(binding(x))), index)
            ELSE symbols[Min(defining(x))].qname]

\* local_maps: of modules of one name, the last.
Namespaces(modules, index) ==
    LET named == Named(modules)
    IN  [name \in {m.name : m \in ToSet(named)} |->
            LocalNames(named[Max({i \in DOMAIN named : named[i].name = name})], index)]

-----------------------------------------------------------------------------
(* Types.                                                                  *)

\* resolve_type_name: the one alternative that is not None, if it names a known class.
resolve_type_name(annotation, names, index) ==
    LET types == SelectSeq(annotation, LAMBDA t : t # "None")
    IN  IF Len(types) = 1 /\ IsClass(Lookup(names, Head(types)), index)
        THEN names[Head(types)] ELSE NoName

\* The bases of a class that are known classes, by a plain name of its module.
BasesOf(class, context) ==
    LET names == context.namespaces[class.module]
        found == [i \in DOMAIN class.bases |->
                     IF Len(class.bases[i]) = 1 THEN Lookup(names, Head(class.bases[i])) ELSE NoName]
    IN  Only(found, DOMAIN context.index.classes)

BasesByName(name, context) ==
    IF IsClass(name, context.index) THEN BasesOf(context.index.classes[name], context) ELSE <<>>

\* One call of the recursion over bases: a class not seen before, its bases next.
Visit(walk, context) ==
    LET class == Head(walk.todo)
        seen == Append(walk.seen, class)
        next == BasesByName(class, context) \o Tail(walk.todo)
    IN  [seen |-> seen, todo |-> Only(next, ToSet(next) \ ToSet(seen))]

\* Mutant: only the class itself is searched.
WalkNoBases(class, context) == <<class>>

\* The classes the recursion visits, in its order: depth first, none twice.  It visits the
\* class it is given and known classes.
Walk(class, context) ==
    LET visits[n \in 0 .. 1 + Cardinality(DOMAIN context.index.classes)] ==
            IF n = 0 THEN [seen |-> <<>>, todo |-> <<class>>]
            ELSE IF visits[n - 1].todo = <<>> THEN visits[n - 1]
            ELSE Visit(visits[n - 1], context)
    IN  visits[1 + Cardinality(DOMAIN context.index.classes)].seen

\* resolve_method_on_class
FirstMethod(classes, method, index) ==
    LET first == SelectInSeq(classes, LAMBDA c : IsFunction(Append(c, method), index))
    IN  IF first = 0 THEN NoName ELSE Append(classes[first], method)

resolve_method_on_class(class, method, context) ==
    FirstMethod(Walk(class, context), method, context.index)

\* resolve_attribute_type
FirstAttribute(having, attribute, attributes) ==
    IF having = <<>> THEN NoName ELSE attributes[Head(having)][attribute]

resolve_attribute_type(class, attribute, context) ==
    LET walk == Walk(class, context)
    IN  FirstAttribute(Only(walk, {c \in ToSet(walk) : attribute \in DOMAIN Lookup(context.attributes, c)}),
                       attribute, context.attributes)

\* _value_type_from_call: the class constructed, or the one that the return annotation of
\* the function called names: in the namespace of the caller, not of that function.
TypeMade(resolved, names, index) ==
    IF IsClass(resolved, index) THEN resolved
    ELSE IF IsFunction(resolved, index)
         THEN resolve_type_name(index.functions[resolved].returns, names, index)
    ELSE NoName

ValueTypeFromCall(callee, names, index) ==
    LET known == Lookup(names, Head(callee))
    IN  TypeMade(CASE Len(callee) = 1 -> known
                   [] Len(callee) = 2 /\ known \in index.modules -> Append(known, callee[2])
                   [] OTHER -> NoName, names, index)

\* The types of the annotated parameters, NoName for those that are not known classes.
ParameterTypes(function, names, index) ==
    LET params == function.params
        annotated == {i \in DOMAIN params : params[i].annotation # <<>>}
        last(x) == Max({i \in annotated : params[i].name = x})
    IN  [x \in {params[i].name : i \in annotated} |->
            resolve_type_name(params[last(x)].annotation, names, index)]

\* build_attribute_types, of one class: what its fields say, else the first assignment to
\* the attribute that has a type.
AttributeTypes(class, methods, names, index) ==
    LET field(f) == [name |-> f.name, type |-> resolve_type_name(f.annotation, names, index)]
        assigned(method, a) ==
            [name |-> a.target,
             type |-> CASE a.kind = "call" -> ValueTypeFromCall(a.value, names, index)
                        [] a.kind = "name" ->
                             Lookup(ParameterTypes(method, names, index), Head(a.value))
                        [] OTHER -> NoName]
        within(method) ==
            LET attributes == Only(method.assignments, {a \in ToSet(method.assignments) : a.attribute})
            IN  [i \in DOMAIN attributes |-> assigned(method, attributes[i])]
        candidates == [i \in DOMAIN class.fields |-> field(class.fields[i])]
                      \o FlattenSeq([i \in DOMAIN methods |-> within(methods[i])])
        typed == {i \in DOMAIN candidates : candidates[i].type # NoName}
    IN  [x \in {candidates[i].name : i \in typed} |->
            candidates[Min({i \in typed : candidates[i].name = x})].type]

\* Classes of one qualified name share the types of the last that has any; no module defines
\* a class twice.
AttributesByClass(modules, namespaces, index) ==
    LET classes == FlattenSeq([i \in DOMAIN modules |-> modules[i].classes])
        functions == FlattenSeq([i \in DOMAIN modules |-> modules[i].functions])
        methods(c) == Only(functions, {f \in ToSet(functions) : f.owner = c.qname})
        types == [i \in DOMAIN classes |->
                     AttributeTypes(classes[i], methods(classes[i]), namespaces[classes[i].module], index)]
        typed == {i \in DOMAIN classes : DOMAIN types[i] # {}}
    IN  [q \in {classes[i].qname : i \in typed} |->
            types[Max({i \in typed : classes[i].qname = q})]]

WithType(types, variable, type) ==
    [v \in DOMAIN types \union {variable} |-> IF v = variable THEN type ELSE types[v]]

\* Mutant: the last assignment decides.
LastTypeWins(types, variable, type) == WithType(types, variable, type)

\* One more assignment to a variable: two types, or an unknown one, leave it without.
OneType(types, variable, type) ==
    WithType(types, variable, IF variable \in DOMAIN types /\ types[variable] # type THEN NoName ELSE type)

\* _resolve_local_assignment_type, with the types of the variables assigned before.
TypeAssigned(types, a, function, context) ==
    CASE a.kind = "call" -> ValueTypeFromCall(a.value, context.namespaces[function.module], context.index)
      [] a.kind = "name" -> Lookup(types, Head(a.value))
      [] a.kind = "attribute" /\ Len(a.value) = 2 /\ Head(a.value) \in {"self", "cls"}
           /\ function.owner # NoName ->
           resolve_attribute_type(function.owner, a.value[2], context)
      [] OTHER -> NoName

Assigned(types, a, function, context) ==
    IF a.attribute THEN types ELSE OneType(types, a.target, TypeAssigned(types, a, function, context))

WithKnownType(types) == Restrict(types, {v \in DOMAIN types : types[v] # NoName})

\* The types of the variables of a function after so many of its assignments.
TypesAfter(function, context) ==
    LET after[n \in 0 .. Len(function.assignments)] ==
            IF n = 0 THEN ParameterTypes(function, context.namespaces[function.module], context.index)
            ELSE Assigned(after[n - 1], function.assignments[n], function, context)
    IN  after

\* build_local_var_types, of one function.
LocalTypes(function, context) == WithKnownType(TypesAfter(function, context)[Len(function.assignments)])

LocalsByFunction(modules, context) ==
    LET functions == FlattenSeq([i \in DOMAIN modules |-> modules[i].functions])
        types == [i \in DOMAIN functions |-> LocalTypes(functions[i], context)]
        typed == {i \in DOMAIN functions : DOMAIN types[i] # {}}
    IN  [q \in {functions[i].qname : i \in typed} |->
            types[Max({i \in typed : functions[i].qname = q})]]

-----------------------------------------------------------------------------
(* Calls.                                                                  *)

Receivers == {"self", "cls", "this"}

\* The class of the receiver of a method called in a scope: the scope's own, that of an
\* attribute of it, a class by its name, or the type of a variable.
ReceiverClass(own, owner, locals, known, callee, context) ==
    CASE own /\ Len(callee) = 2 -> owner
      [] own /\ Len(callee) = 3 -> resolve_attribute_type(owner, callee[2], context)
      [] ~own /\ Len(callee) = 2 ->
           IF IsClass(known, context.index) THEN known ELSE Lookup(locals, Head(callee))
      [] OTHER -> NoName

MethodOn(class, method, context) ==
    IF class = NoName THEN NoName ELSE resolve_method_on_class(class, method, context)

\* _resolve_call: what a callee written in a scope goes to.
resolve_call(owner, locals, names, callee, context) ==
    LET own == Head(callee) \in Receivers /\ owner # NoName
        known == Lookup(names, Head(callee))
    IN  IF ~own /\ Len(callee) = 1
        THEN IF IsFunction(known, context.index) \/ IsClass(known, context.index) THEN known ELSE NoName
        ELSE MethodOn(ReceiverClass(own, owner, locals, known, callee, context), Last(callee), context)

\* The entity of a resolved call: a function if it is both.
CalledEntity(name, index) ==
    IF IsFunction(name, index) THEN Ref("FUNCTION", name) ELSE ClassRef(name)

\* What the calls of one scope go to; those that go nowhere known are left out.
ScopeCalls(sites, owner, locals, names, context) ==
    {CalledEntity(name, context.index) :
        name \in {resolve_call(owner, locals, names, s.fn, context) : s \in sites} \ {NoName}}

\* The steps of _RepositoryIndex and build_relationships, each on what the one before found.
WithLocals(modules, known) ==
    [index |-> known.index, namespaces |-> known.namespaces, attributes |-> known.attributes,
     locals |-> LocalsByFunction(modules, known)]
WithAttributes(modules, known) ==
    WithLocals(modules, [index |-> known.index, namespaces |-> known.namespaces,
                         attributes |-> AttributesByClass(modules, known.namespaces, known.index)])
WithNamespaces(modules, index) ==
    WithAttributes(modules, [index |-> index, namespaces |-> Namespaces(modules, index)])

Context(modules) == WithNamespaces(Named(modules), RepositoryIndex(modules))

\* A module with everything in it resolved.
ResolvedModule(module, context) ==
    LET names == context.namespaces[module.name]
        owner(f) == IF f.owner = NoName THEN ModuleRef(module.name) ELSE ClassRef(f.owner)
        imported == {ImportedModule(module, i, context.index) : i \in ToSet(module.imports)}
        scope(f) == ScopeCalls(f.calls, f.owner, Lookup(context.locals, f.qname), names, context)
    IN  [name |-> module.name, path |-> module.path, test |-> module.test,
         imports |-> imported \ {NoName},
         calls |-> ScopeCalls(module.calls, NoName, <<>>, names, context),
         functions |-> {[name |-> f.qname, owner |-> owner(f), calls |-> scope(f)] :
                            f \in ToSet(module.functions)},
         classes |-> {[name |-> c.qname, bases |-> ToSet(BasesOf(c, context))] :
                            c \in ToSet(module.classes)}]

ResolvedWith(modules, context) == {ResolvedModule(m, context) : m \in ToSet(Named(modules))}
ResolvedModules(modules) == ResolvedWith(modules, Context(modules))
=============================================================================
