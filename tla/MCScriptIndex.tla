--------------------------- MODULE MCScriptIndex ---------------------------
(* Instances of ScriptIndex for TLC.                                       *)
EXTENDS ScriptIndex

A == <<"A">>
B == <<"B">>
p == <<"p">>

NoParams == {<<>>}
\* { }, { a b }, { a {b 1} }, { a {b 1} {c 1} }, { {a 1} {b 1} }
Overloads == {<<>>, <<"plain", "plain">>, <<"plain", "default">>,
              <<"plain", "default", "default">>, <<"default", "default">>}

\* Two namespaces, nested, repeated and opened in each other.
Plain == [evals |-> {<<A>>, <<B>>}, procs |-> {<<p>>}, calls |-> {<<p>>},
          params |-> NoParams, args |-> 0, commands |-> 5]
\* Procs and calls with qualified names.
Qualified == [evals |-> {<<A>>}, procs |-> {<<p>>, <<E, A, p>>},
              calls |-> {<<p>>, <<A, p>>, <<E, A, p>>},
              params |-> NoParams, args |-> 0, commands |-> 4]
\* Several definitions of one proc, in the global namespace and in another.
Overloaded == [evals |-> {<<A>>}, procs |-> {<<p>>}, calls |-> {<<p>>},
               params |-> Overloads, args |-> 3, commands |-> 4]

RelativeEval == [Plain EXCEPT !.evals = {<<A>>, <<A, B>>}]
Variadic == [Overloaded EXCEPT !.params = {<<"plain", "args">>}]

AllVocabularies == {Plain, Qualified, Overloaded}
OnlyRelativeEval == {RelativeEval}
OnlyVariadic == {Variadic}

\* The table of Parser::Test::TestQualifiedName (script.cpp:664-673): text,
\* namespace, name, whether it is absolute, Path(), and AbsPath("").Path().
Test == <<"T">>
Sub == <<"S">>
QualifiedNameTests == {
    <<<<E, E>>, EmptyText, E, TRUE, <<E, E>>, <<E, E>>>>,
    <<EmptyText, EmptyText, E, TRUE, <<E, E>>, <<E, E>>>>,
    <<<<Test>>, NoNs, Test, FALSE, <<Test>>, <<E, Test>>>>,
    <<<<E, Test>>, EmptyText, Test, TRUE, <<E, Test>>, <<E, Test>>>>,
    <<<<Test, Sub>>, <<Test>>, Sub, FALSE, <<Test, Sub>>, <<E, Test, Sub>>>>,
    <<<<E, Test, Sub>>, <<E, Test>>, Sub, TRUE, <<E, Test, Sub>>, <<E, Test, Sub>>>>}

ASSUME TestQualifiedName ==
    \A t \in QualifiedNameTests :
        LET qn == SplitName(t[1])
        IN  /\ qn = [ns |-> t[2], name |-> t[3], absolute |-> t[4]]
            /\ Path(qn) = t[5]
            /\ Path(AbsPath(qn, EmptyText)) = t[6]
=============================================================================
