-------------------------- MODULE MCRepositoryImpact --------------------------
(* Instances of RepositoryImpact for TLC: small repositories in families,   *)
(* each of which varies one thing in every way listed.                      *)
EXTENDS RepositoryImpact

Call(fn) == [is |-> "call", fn |-> fn, args |-> <<>>, methods |-> {}]
Def(name, body) ==
    [is |-> "def", name |-> name, params |-> <<>>, returns |-> <<>>, decorators |-> <<>>, body |-> body]
Class(name, bases, body) ==
    [is |-> "class", name |-> name, bases |-> bases, decorators |-> <<>>, body |-> body]
Field(name, annotation) == [is |-> "field", name |-> name, annotation |-> annotation]
Assign(name, value) == [is |-> "assign", to |-> <<name>>, value |-> value]
Value(form, fn) == [is |-> form, fn |-> fn]
Block(body) == [is |-> "block", body |-> body]
Match(body) == [is |-> "match", body |-> body]
Lambda(body) == [is |-> "lambda", body |-> body]
Import(module, name, alias, level) ==
    [is |-> "import", module |-> module, name |-> name, alias |-> alias, level |-> level]
File(path, body) == [path |-> path, test |-> FALSE, parses |-> TRUE, body |-> body]

If(condition, statements) == IF condition THEN statements ELSE <<>>
Calls(names) == [i \in DOMAIN names |-> Call(<<names[i]>>)]

-----------------------------------------------------------------------------
(* Who depends on whom: three modules and a test.  f always calls itself;   *)
(* app always imports core; L may extend a library class of its own name,   *)
(* which resolves to L itself.                                              *)

Core(cli, f, m) ==
    File(<<"src", "core", "py">>,
         If(cli, <<Import(<<"cli">>, "", "", 0)>>)
         \o If(f \/ m, <<Import(<<"app">>, "g", "", 0)>>)
         \o <<Def("f", Calls(<<"f">>) \o If(f, Calls(<<"g">>))),
              Class("K", <<>>, <<Def("m", If(m, Calls(<<"g">>)))>>)>>)

App(top, calls, bases) ==
    File(<<"src", "app", "py">>,
         <<Import(<<"core">>, "f", "", 0), Import(<<"core">>, "K", "", 0), Import(<<"lib">>, "L", "", 0)>>
         \o If(top, Calls(<<"f">>))
         \o <<[Def("g", Calls(calls)) EXCEPT !.decorators = <<Call(<<"router", "get">>)>>],
              Class("L", bases, <<>>)>>)

Cli(app) == File(<<"src", "cli", "py">>, If(app, <<Import(<<"app">>, "", "", 0)>>))

Test(cli, from, names, calls) ==
    File(<<"tests", "test_app", "py">>,
         [i \in DOMAIN names |-> Import(<<from>>, names[i], "", 0)]
         \o If(cli, <<Import(<<"cli">>, "", "", 0)>>) \o <<Def("test_g", calls)>>)

\* The last calls a method of core without importing core.
Tests(cli) ==
    {Test(cli, "core", <<>>, <<>>), Test(cli, "core", <<"f">>, Calls(<<"f">>)),
     Test(cli, "app", <<"L", "g">>, <<Assign("l", Call(<<"L">>)), Call(<<"l", "m">>), Call(<<"g">>)>>)}

Dependencies ==
    {<<Core(c1, c2, c3), App(top, calls, bases), Cli(c4), test>> :
        c1, c2, c3, c4, top \in BOOLEAN, calls \in {<<>>, <<"f">>, <<"f", "K">>},
        bases \in {<<>>, <<<<"K">>>>, <<<<"L">>>>}, test \in Tests(TRUE) \union Tests(FALSE)}

-----------------------------------------------------------------------------
(* Where a call stands: two statements around calls of t and u, in a        *)
(* function or in the module.                                               *)

Around(name, call) ==
    {call, Assign("x", call), Block(<<call>>), Match(<<call>>), Lambda(<<call>>), Def(name, <<call>>),
     [Def(name, <<>>) EXCEPT !.decorators = <<call>>], Block(<<Def(name, <<call>>)>>),
     Match(<<Def(name, <<call>>)>>), Class(name, <<>>, <<Def("m", <<call>>)>>)}

Placed(body) ==
    {<<File(<<"places", "py">>, <<Def("t", <<>>), Def("u", <<>>), Def("outer", body)>>)>>,
     <<File(<<"places", "py">>, <<Def("t", <<>>), Def("u", <<>>)>> \o body)>>}

Places == UNION {Placed(<<s1, s2>>) : s1 \in Around("inner", Call(<<"t">>)), s2 \in Around("other", Call(<<"u">>))}

-----------------------------------------------------------------------------
(* Which method self.m() is: three classes of two modules of a package,     *)
(* with diamonds and cycles of bases, each with or without the method; and  *)
(* beside them a file that cannot be parsed and a module without a name.    *)

Broken == [File(<<"src", "broken", "py">>, <<Def("m", <<Call(<<"m">>)>>)>>) EXCEPT !.parses = FALSE]
Root == File(<<"src", "__init__", "py">>, <<Def("m", <<Call(<<"n">>)>>), Def("n", <<>>)>>)

Methods(has) == If(has, <<Def("m", <<>>)>>)

Hierarchies ==
    {<<File(<<"src", "pkg", "h", "py">>,
            <<Import(<<"lib">>, "C", "D", 1),
              Class("A", a, <<Def("go", <<Call(<<"self", "m">>)>>)>> \o Methods("A" \in having)),
              Class("B", b, Methods("B" \in having))>>),
       File(<<"src", "pkg", "lib", "py">>,
            <<Import(<<"pkg", "h">>, "A", "", 0), Class("C", c, Methods("C" \in having))>>),
       Broken, Root>> :
        a \in {<<>>, <<<<"B">>>>, <<<<"B">>, <<"D">>>>, <<<<"D">>, <<"x", "B">>>>},
        b \in {<<>>, <<<<"D">>>>, <<<<"A">>>>}, c \in {<<>>, <<<<"A">>>>}, having \in SUBSET {"A", "B", "C"}}

-----------------------------------------------------------------------------
(* What type a variable has: two assignments of every form, of a class or a *)
(* factory of another module, whose class may have a namesake here.         *)

Values == {Call(<<"R">>), Call(<<"S">>), Call(<<"make">>), Call(<<"unknown">>), Value("name", <<"y">>),
           Value("attribute", <<"self", "r">>), Value("other", <<>>)}

Typed(v1, v2, annotation, namesake) ==
    LET go == [Def("go", <<Assign("x", v1), Block(<<Assign("x", v2)>>), Call(<<"x", "save">>)>>)
                EXCEPT !.params = <<[name |-> "y", annotation |-> annotation]>>]
    IN  <<File(<<"src", "pkg", "__init__", "py">>,
               <<Class("R", <<>>, <<Def("save", <<>>)>>), [Def("make", <<>>) EXCEPT !.returns = <<"R">>]>>),
          File(<<"src", "pkg", "b", "py">>,
               <<Import(<<>>, "make", "", 1)>>
               \o (IF namesake THEN <<Class("R", <<>>, <<Def("save", <<>>)>>)>>
                   ELSE <<Import(<<"pkg">>, "R", "", 0)>>)
               \o <<Class("S", <<>>, <<Def("save", <<>>)>>),
                    Class("User", <<>>, <<Field("r", <<"R">>), go>>)>>)>>

Variables ==
    {Typed(v1, v2, annotation, namesake) :
        v1 \in Values, v2 \in Values, namesake \in BOOLEAN,
        annotation \in {<<>>, <<"R">>, <<"S", "None">>, <<"R", "S">>}}

-----------------------------------------------------------------------------
(* What serves an endpoint: a function, an inner function or a method, with *)
(* a decorator or registered by a call, wherever that stands.               *)

Adding == [Call(<<"router", "add_api_route">>) EXCEPT !.args = <<"path", "late">>, !.methods = {"post"}]

Served(d1, d2, d3, module, function, method) ==
    <<File(<<"api", "py">>,
           <<Def("work", <<>>), Def("late", Calls(<<"work">>)),
             [Def("h", Calls(<<"work">>)) EXCEPT !.decorators = d1],
             Def("create", <<[Def("inner", Calls(<<"work">>)) EXCEPT !.decorators = d2]>> \o function),
             Class("View", <<>>, <<[Def("get", Calls(<<"work">>) \o method) EXCEPT !.decorators = d3]>>)>>
           \o module)>>

Endpoints ==
    LET decorators == {<<>>, <<Value("attribute", <<"router", "get">>)>>, <<Call(<<"router", "get">>)>>,
                       <<Call(<<"cached">>), Call(<<"app", "api_route">>)>>}
        additions == {<<>>, <<Adding>>}
    IN  {Served(d1, d2, d3, module, function, method) :
            d1, d2, d3 \in decorators, module, function, method \in additions}

AnyRepository == Dependencies \union Places \union Hierarchies \union Variables \union Endpoints

AnyRoots == <<<<"src">>>>
=============================================================================
