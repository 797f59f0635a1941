-------------------------- MODULE MCLanguageServer --------------------------
(* Instances of LanguageServer for TLC.                                    *)
EXTENDS LanguageServer, TLC

CONSTANTS a, b, t1, t2

MCUris == {a, b}
OneUri == {a}
MCTexts == {t1, t2}
OneText == {t1}

WithoutClose == AllMethods \ {"didClose"}

\* Document names are interchangeable, and so are contents.
Symmetry == Permutations(MCUris) \cup Permutations(MCTexts)
=============================================================================
