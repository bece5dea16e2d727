------------------------------ MODULE MCRetrieval ------------------------------
(* Instances of Retrieval for TLC: what index derives from the sources of   *)
(* small repositories, with many graphs of calls between three functions    *)
(* and a class, and queries for one thing or several.                       *)
EXTENDS Retrieval, CallResolution, PythonFacts

Call(name) == [is |-> "call", fn |-> <<name>>, args |-> <<>>, methods |-> {}]
Def(name, callees) ==
    [is |-> "def", name |-> name, params |-> <<>>, returns |-> <<>>, decorators |-> <<>>,
     body |-> [i \in DOMAIN callees |-> Call(callees[i])]]
Class(name, bases) == [is |-> "class", name |-> name, bases |-> bases, decorators |-> <<>>, body |-> <<>>]
Import(module, name) ==
    [is |-> "import", module |-> <<module>>, name |-> name, alias |-> "", level |-> 0]
File(path, body) == [path |-> path, test |-> FALSE, parses |-> TRUE, body |-> body]

\* Two modules that call each other, a neighbour of theirs, a test of find, and two files at
\* the root, of which the neighbour imports one.
Repository(find, grow, hold) ==
    <<File(<<"src", "core", "py">>,
           <<Import("app", "hold"), Import("app", "kind"), Def("find", find), Def("grow", grow)>>),
      File(<<"src", "app", "py">>,
           <<Import("core", "find"), Import("core", "grow"), Def("hold", hold), Class("kind", <<>>),
             Class("leaf", <<<<"kind">>, <<"leaf">>>>)>>),
      File(<<"src", "near", "py">>, <<Import("far", "")>>),
      File(<<"src", "tests", "test_core", "py">>,
           <<Import("core", "find"), Def("test_find", <<"find">>)>>),
      File(<<"far", "py">>, <<>>), File(<<"main", "py">>, <<>>)>>

Repositories ==
    {Repository(find, grow, hold) :
        find \in {<<>>, <<"grow">>, <<"kind">>, <<"grow", "hold">>, <<"hold", "find">>, <<"grow", "hold", "kind">>},
        grow \in {<<>>, <<"find">>, <<"hold">>, <<"find", "hold">>},
        hold \in {<<>>, <<"find">>, <<"grow">>, <<"find", "grow">>}}

Roots == <<<<"src">>>>

\* The docstring of find speaks of far, that of app of find.
Docstring(id) ==
    CASE id = <<"core", "find">> -> {"far"}
      [] id = <<"src", "app", "py">> -> {"find"}
      [] OTHER -> {}

\* A word of a name is what lies between underscores.
Words(part) ==
    CASE part = "test_core" -> {"test", "core"}
      [] part = "test_find" -> {"test", "find"}
      [] OTHER -> {part}

SnapshotLoaded(resolved) ==
    LET symbols == UNION {{FunctionRef(f) : f \in m.functions} \union {ClassRef(c.name) : c \in m.classes}
                          : m \in resolved}
    IN  [files     |-> {FileRef(m) : m \in resolved},
         symbols   |-> symbols,
         functions |-> {s \in symbols : s.kind = "FUNCTION"},
         module    |-> [f \in {FileRef(m) : m \in resolved} |->
                           ModuleRef((CHOOSE m \in resolved : FileRef(m) = f).name)],
         file      |-> [n \in {ModuleRef(m.name) : m \in resolved} |->
                           FileRef(CHOOSE m \in resolved : ModuleRef(m.name) = n)],
         edges     |-> build_relationships(resolved),
         directory |-> [f \in {FileRef(m) : m \in resolved} |-> DirectoryOf(f.id)],
         terms     |-> [i \in symbols \union {FileRef(m) : m \in resolved} |->
                           [name  |-> IF i.kind = "FILE" THEN StemOf(i.id) ELSE Last(i.id),
                            parts |-> UNION {Words(part) : part \in ToSet(i.id)}, doc |-> Docstring(i.id)]]]

LoadedSnapshots ==
    {SnapshotLoaded(ResolvedModules([i \in DOMAIN files |-> analyze_module(files[i], Roots)])) :
        files \in Repositories}

EntitiesLoaded ==
    UNION {s.files \union s.symbols \union DOMAIN s.file : s \in LoadedSnapshots}

Terms == {"src", "core", "app", "near", "tests", "test", "far", "main", "py", "find", "grow", "hold",
          "kind", "leaf", "test_core", "test_find"}

QueriesAsked == {{"find"}, {"leaf"}, {"kind"}, {"grow", "hold"}, {"app"}, {"far"}, {"near"},
                 {"core", "leaf"}, {"test"}, {"src"}, {}}

Directories == {DirectoryOf(f.id) : f \in UNION {s.files : s \in LoadedSnapshots}}
Root == <<>>
=============================================================================
