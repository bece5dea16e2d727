----------------------------- MODULE PythonFacts -----------------------------
(***************************************************************************)
(* analyze_module (analyzer/python_analyzer.py): the structural facts of   *)
(* one Python file.  A file is [path, test, parses, body]: its path as the *)
(* sequence of its directories, its stem and its extension, whether its    *)
(* name begins with "test_", whether it can be read and parsed, and its    *)
(* statements.  A dotted name is the sequence of its parts.  A statement   *)
(* is a record; `is` says of what form:                                    *)
(*   call    [fn, args, methods]: a call, a statement or inside one        *)
(*   assign  [to, value]: value is a call, or [is, fn] with is "name",     *)
(*           "attribute" or "other"; to is a dotted name, <<>> if neither  *)
(*           a name nor an attribute of one                                *)
(*   def     [name, params, returns, decorators, body]; an annotation is   *)
(*           the sequence of its alternatives                              *)
(*   class   [name, bases, decorators, body]                               *)
(*   field   [name, annotation]: an annotated name of a class body         *)
(*   import  [module, name, alias, level]: one imported name               *)
(*   block   [body]: if, for, while, with, try                             *)
(*   match   [body]: the cases of a match statement                        *)
(*   lambda  [body]                                                        *)
(***************************************************************************)
EXTENDS Names

CONSTANT MaxNesting  \* how deep statements stand in each other

ASSUME NestingAssumption == MaxNesting \in Nat

\* infer_module_name: the path without the first source root it lies in, dotted.
infer_module_name(path, roots) ==
    LET within == Only(roots, {root \in ToSet(roots) : IsPrefix(root, DirectoryOf(path))})
        skip == IF within = <<>> THEN 0 ELSE Len(Head(within))
        package == SubSeq(DirectoryOf(path), skip + 1, Len(path) - 2)
    IN  IF Last(path) # "py" THEN NoName
        ELSE IF StemOf(path) = "__init__" THEN package
        ELSE Append(package, StemOf(path))

\* is_test_path
IsTest(file) == file.test \/ "tests" \in ToSet(DirectoryOf(file.path))

IsDefinition(s) == s.is \in {"def", "class"}

\* The statements of a list that are of some form, in their order.
Of(form, body) == Only(body, {s \in ToSet(body) : s.is = form})

-----------------------------------------------------------------------------
(* What one scope does: _ScopedCallVisitor.  A recursion goes one level     *)
(* deeper in each round.                                                    *)

\* Mutant: the calls of an inner function count for the outer one, too.
InnerBodiesToo(s) ==
    CASE s.is = "class" -> s.decorators
      [] s.is = "def" -> s.decorators \o s.body
      [] s.is \in {"block", "match"} -> s.body
      [] OTHER -> <<s>>

\* What the visitor goes on with: decorators of an inner definition run in the scope, its
\* body does not.
VisitedNext(s) ==
    CASE IsDefinition(s) -> s.decorators
      [] s.is \in {"block", "match"} -> s.body
      [] OTHER -> <<s>>

VisitDeeper(statements) == FlattenSeq([i \in DOMAIN statements |-> VisitedNext(statements[i])])

\* The statements visited after so many rounds.
VisitedAfter(body) ==
    LET after[n \in 0 .. MaxNesting] == IF n = 0 THEN body ELSE VisitDeeper(after[n - 1])
    IN  after

Visited(body) == VisitedAfter(body)[MaxNesting]

\* Statements, and the values that they assign.
WithValues(statements) == statements \union {s.value : s \in {x \in statements : x.is = "assign"}}

\* The calls of a scope.
Sites(body) == {s \in WithValues(ToSet(Visited(body))) : s.is = "call"}

\* _record_assignment: a plain name or an attribute of self or cls, given a call, a name
\* or an attribute; anything else leaves no fact.
IsRecorded(s) ==
    /\ \/ Len(s.to) = 1
       \/ Len(s.to) = 2 /\ Head(s.to) \in {"self", "cls"}
    /\ s.value.is # "other"

Assignments(body) ==
    LET recorded == Only(Visited(body), {s \in ToSet(Visited(body)) : s.is = "assign" /\ IsRecorded(s)})
        assignment(s) == [target |-> Last(s.to), attribute |-> Len(s.to) = 2,
                          kind |-> s.value.is, value |-> s.value.fn]
    IN  [i \in DOMAIN recorded |-> assignment(recorded[i])]

-----------------------------------------------------------------------------
(* Definitions and the scopes they stand in.                               *)

\* A statement to extract: owner is the class it stands in, or NoName.
ToExtract(body, prefix, owner) ==
    [i \in DOMAIN body |-> [statement |-> body[i], prefix |-> prefix, owner |-> owner, extracted |-> FALSE]]

\* The definitions of a module or class: of its body only direct statements are looked at.
Definitions(body) == Only(body, {s \in ToSet(body) : IsDefinition(s)})

\* _extract_function, _extract_class, _extract_nested_defs: a definition, then what is in it.
\* Those of a function's scope (_iter_scope_defs) are looked for in compound statements, too,
\* but not in the cases of a match.
ExtractedNext(item) ==
    LET s == item.statement
        name == Append(item.prefix, s.name)
    IN  CASE item.extracted -> <<item>>
          [] ~item.extracted /\ s.is = "def" ->
               <<[item EXCEPT !.extracted = TRUE]>> \o ToExtract(s.body, name, NoName)
          [] ~item.extracted /\ s.is = "class" ->
               <<[item EXCEPT !.extracted = TRUE]>> \o ToExtract(Definitions(s.body), name, name)
          [] ~item.extracted /\ s.is = "block" -> ToExtract(s.body, item.prefix, NoName)
          [] OTHER -> <<>>

ExtractDeeper(items) == FlattenSeq([i \in DOMAIN items |-> ExtractedNext(items[i])])

ExtractedAfter(body, module) ==
    LET after[n \in 0 .. MaxNesting + 1] ==
            IF n = 0 THEN ToExtract(Definitions(body), module, NoName) ELSE ExtractDeeper(after[n - 1])
    IN  after

Extracted(body, module) == ExtractedAfter(body, module)[MaxNesting + 1]

\* The facts of a definition.
FunctionOf(item, module) ==
    LET d == item.statement
    IN  [name |-> d.name, qname |-> Append(item.prefix, d.name), module |-> module, owner |-> item.owner,
         params |-> d.params, returns |-> d.returns, decorators |-> d.decorators,
         calls |-> Sites(d.body), assignments |-> Assignments(d.body)]

ClassOf(item, module) ==
    LET d == item.statement
    IN  [name |-> d.name, qname |-> Append(item.prefix, d.name), module |-> module,
         bases |-> d.bases, fields |-> Of("field", d.body)]

\* Functions and methods are two lists in the code, one after the other here.
FunctionsOf(items, module) ==
    LET found(owned) == Only(items, {x \in ToSet(items) : x.extracted /\ x.statement.is = "def"
                                                            /\ (x.owner # NoName) = owned})
        all == found(FALSE) \o found(TRUE)
    IN  [i \in DOMAIN all |-> FunctionOf(all[i], module)]

ClassesOf(items, module) ==
    LET all == Only(items, {x \in ToSet(items) : x.extracted /\ x.statement.is = "class"})
    IN  [i \in DOMAIN all |-> ClassOf(all[i], module)]

\* analyze_module: of imports, too, only direct statements are looked at.  A file that cannot
\* be parsed has no facts.
analyze_module(file, roots) ==
    LET name == infer_module_name(file.path, roots)
        body == IF file.parses THEN file.body ELSE <<>>
        items == Extracted(body, name)
    IN  [path |-> file.path, name |-> name, test |-> IsTest(file), imports |-> Of("import", body),
         functions |-> FunctionsOf(items, name), classes |-> ClassesOf(items, name), calls |-> Sites(body)]
=============================================================================
