------------------------------- MODULE Names -------------------------------
(***************************************************************************)
(* Tcl names as the analyzer handles them: Parser::QualifiedName.          *)
(*                                                                         *)
(* A text is represented by what SplitPath makes of it, the sequence of    *)
(* identifiers between its "::"; an identifier is a sequence of letters,   *)
(* so that concatenation can glue two of them together.                    *)
(*    ""       is <<E>>            with E == <<>>                          *)
(*    "A::B"   is <<A, B>>         with A == <<"A">>                       *)
(*    "::A"    is <<E, A>>                                                 *)
(*    "::"     is <<E, E>>                                                 *)
(***************************************************************************)
EXTENDS Naturals, SequencesExt

E == <<>>
EmptyText == <<E>>

\* The text `s' followed by the text `t', without anything between them.
Concat(s, t) == Front(s) \o <<Last(s) \o Head(t)>> \o Tail(t)

\* Text "::" followed by t, and s followed by "::" and t.
Rooted(t) == <<E>> \o t
Joined(s, t) == s \o t

IsRooted(t) == Len(t) > 1 /\ Head(t) = E

\* std::optional<std::string>: no namespace at all is not the empty one.
NoNs == <<>>

\* The name is what follows the last "::", the namespace what precedes it.
SplitName(t) ==
    IF t = EmptyText THEN [ns |-> EmptyText, name |-> E, absolute |-> TRUE]
    ELSE [ns |-> IF Len(t) = 1 THEN NoNs ELSE Front(t),
          name |-> Last(t), absolute |-> IsRooted(t)]

\* For a relative name in a namespace other than "": the text of the namespace
\* and that of the name are put together without "::".
AbsPath(qn, current) ==
    CASE qn.absolute -> qn
      [] ~qn.absolute /\ current = EmptyText ->
            [qn EXCEPT !.ns = IF @ = NoNs THEN EmptyText ELSE Rooted(@)]
      [] OTHER ->
            [qn EXCEPT !.ns = IF @ = NoNs THEN current ELSE Concat(current, @)]

Path(qn) == IF qn.ns = NoNs THEN <<qn.name>> ELSE Joined(qn.ns, <<qn.name>>)

Namespace(qn) == IF qn.ns = NoNs THEN EmptyText ELSE qn.ns

\* The leading "::" of an absolute namespace is taken off.
NamespaceParts(qn) ==
    CASE qn.ns = NoNs -> <<>>
      [] qn.absolute /\ qn.ns = EmptyText -> <<>>
      [] qn.absolute /\ qn.ns # EmptyText -> Tail(qn.ns)
      [] OTHER -> qn.ns

Parts(qn) ==
    IF qn.name = E THEN NamespaceParts(qn)
    ELSE Append(NamespaceParts(qn), qn.name)
=============================================================================
