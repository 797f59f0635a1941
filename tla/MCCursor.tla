------------------------------ MODULE MCCursor ------------------------------
(* Cursor with small vocabularies, each for one way words nest.            *)
EXTENDS Cursor

MCContents == {<<>>}

Plain == [names |-> {"f"}, firsts |-> {}, texts |-> {"x"}, opens |-> {}, parts |-> {},
          ends |-> {"newline"}, most |-> 8]

MCStyles == {
    \* substitution in quotes, over several lines
    [Plain EXCEPT !.opens = {"quote"}, !.parts = {"text", "bracket"}, !.most = 8],
    \* commands whose name is put together
    [Plain EXCEPT !.names = {}, !.firsts = {"bare"}, !.opens = {"bare"},
                  !.parts = {"text", "variable", "bracket"}, !.most = 5],
    \* arrays, with commands in the index
    [Plain EXCEPT !.opens = {"bare"}, !.parts = {"array", "variable", "bracket"},
                  !.ends = {"other"}, !.most = 7],
    [Plain EXCEPT !.opens = {"expand"}, !.parts = {"variable", "bracket"}, !.most = 8],
    \* bodies
    [Plain EXCEPT !.names = {"while", "f"}, !.opens = {"brace"}, !.most = 9],
    [Plain EXCEPT !.names = {"proc"}, !.opens = {"brace", "bare"}, !.parts = {"bracket", "variable"},
                  !.ends = {"other"}, !.most = 9],
    [Plain EXCEPT !.names = {"namespace"}, !.texts = {"eval"}, !.opens = {"bare", "brace"},
                  !.parts = {"bracket"}, !.ends = {"other"}, !.most = 9],
    [Plain EXCEPT !.names = {"for", "foreach"}, !.opens = {"brace"}, !.ends = {"other"}, !.most = 10] }
=============================================================================
