----------------------------- MODULE MCAiAnswers -----------------------------
(* Instances of AiAnswers for TLC.                                         *)
EXTENDS AiAnswers, TLC

app == [kind |-> "FILE", id |-> "app", test |-> FALSE]
test_app == [kind |-> "FILE", id |-> "test_app", test |-> TRUE]
main == [kind |-> "MODULE", id |-> "main", test |-> FALSE]
run == [kind |-> "FUNCTION", id |-> "run", test |-> FALSE]
test_run == [kind |-> "FUNCTION", id |-> "test_run", test |-> TRUE]

\* A directory sibling, the evidence of a convention, is a second file.
AnyRetrieval ==
    {r \in [files : {<<>>, <<app>>, <<test_app>>, <<test_app, app>>},
            symbols : {<<>>, <<run>>, <<test_run, run>>}, convention : BOOLEAN] :
        r.convention => Len(r.files) = 2}

\* Entities found at the depth limit are indirect dependents; a test function is often
\* a dependent, too.
AnyFacts ==
    {f \in [target : {app, main, run}, direct : {<<>>, <<test_run>>, <<test_run, main>>},
            indirect : {<<>>, <<app>>}, tests : {<<>>, <<test_app>>, <<test_app, test_run>>},
            truncated : BOOLEAN] :
        /\ f.truncated => f.indirect # <<>> /\ f.direct # <<>>
        /\ f.target \notin ToSet(f.direct \o f.indirect)}

Invented == <<"FILE", 9>>

AnyCitations ==
    {{}, {<<"FILE", 1>>}, {<<"TEST", 1>>}, {<<"SYMBOL", 1>>, <<"FILE", 1>>}, {Invented},
     {<<"FILE", 1>>, Invented}}

IndexedPaths == {[path |-> "old"]}
ProposedPaths == SUBSET {[path |-> "old"], [path |-> "new"]}
==============================================================================
