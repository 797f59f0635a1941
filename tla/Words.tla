------------------------------- MODULE Words -------------------------------
(***************************************************************************)
(* From the tokens Tcl_ParseCommand makes of a script to the tree of       *)
(* scripts, calls and words the analyzer works on: ParseScript,            *)
(* ParseCommand and ParseWord.                                             *)
(*                                                                         *)
(* A command is a sequence of tokens.  A token has a type, the number n of *)
(* component tokens that follow it, the offset and the size of its text,   *)
(* the text itself as far as it is told apart, and what Tcl makes of the   *)
(* text if it is asked to: `inside' is the number of it as a script, `list'*)
(* says whether it is a list of other than one element.                    *)
(*                                                                         *)
(* Trees are kept in tables, as the tokens are: the words of a call in the *)
(* order of their tokens, each with the number of the last token in it, and*)
(* the scripts of a text behind all the scripts that are inside of them, so*)
(* that the last one is the text itself.  A word that is a script has the  *)
(* number of it.  The namespaces noted in calls are the business of        *)
(* ScriptIndex.                                                            *)
(***************************************************************************)
EXTENDS Integers, Sequences, FiniteSets, SequencesExt, FiniteSetsExt

Token(type, n, at, size, text, inside, list) ==
    [type |-> type, n |-> n, at |-> at, size |-> size, text |-> text,
     inside |-> inside, list |-> list]

Lists == {"TOKEN_LIST", "EXPAND"}
WordTypes == Lists \cup {"TEXT", "VARIABLE", "ARRAY_ACCESS", "SCRIPT", "LIST"}

NoScript == 0

\* The word that begins with token k.  Of a simple word and of a scalar variable
\* only the text inside counts; of an array, the name comes before its index.
ParseWord(tokens, k) ==
    LET token == tokens[k]
        Word(type, t) == [type |-> type, last |-> k + token.n, at |-> t.at, size |-> t.size,
                          text |-> t.text, inside |-> t.inside, list |-> t.list,
                          script |-> NoScript]
    IN  CASE token.type = "simple" -> Word("TEXT", tokens[k + 1])
          [] token.type = "word" -> Word("TOKEN_LIST", token)
          [] token.type = "expand" -> Word("EXPAND", token)
          [] token.type = "text" -> Word("TEXT", token)
          [] token.type = "command" -> [Word("SCRIPT", token) EXCEPT !.script = token.inside]
          [] token.type = "variable" /\ token.n = 1 -> Word("VARIABLE", tokens[k + 1])
          [] token.type = "variable" /\ token.n > 1 -> Word("ARRAY_ACCESS", token)

-----------------------------------------------------------------------------
(* ParseCommand.                                                           *)

\* The tokens at which the words of a command begin.
Arguments(tokens) == {k \in 1..Len(tokens) : \A j \in 1..(k - 1) : j + tokens[j].n < k}

\* Which argument the one that begins with token k is, from 0 on.
Place(args, k) == Cardinality({j \in args : j < k})

WordToList(word) == IF word.list THEN [word EXCEPT !.type = "LIST"] ELSE word

Body(word) ==
    IF word.type = "TEXT" THEN [word EXCEPT !.type = "SCRIPT", !.script = word.inside] ELSE word

CallType(words, args) ==
    LET IsText(place, text) == \E k \in args : /\ Place(args, k) = place
                                               /\ words[k].type = "TEXT"
                                               /\ words[k].text = text
        numWords == Cardinality(args)
    IN  CASE IsText(0, "proc") /\ numWords = 4 -> "PROC"
          [] IsText(0, "while") /\ numWords = 3 -> "WHILE"
          [] IsText(0, "for") /\ numWords = 5 -> "FOR"
          [] IsText(0, "foreach") /\ numWords = 4 -> "FOREACH"
          [] IsText(0, "namespace") /\ IsText(1, "eval") /\ numWords = 4 -> "NAMESPACE_EVAL"
          [] OTHER -> "USER"

\* The arguments of a call that are parsed as scripts.
Bodies(type) ==
    CASE type = "PROC" -> {3}
      [] type = "WHILE" -> {2}
      [] type = "FOR" -> {1, 3, 4}
      [] type = "FOREACH" -> {3}
      [] type = "NAMESPACE_EVAL" -> {3}
      [] type = "USER" -> {}

\* None of the words is an ERROR, since a call has numWords of them.
ParseCommand(tokens) ==
    LET words == [k \in 1..Len(tokens) |-> ParseWord(tokens, k)]
        args == Arguments(tokens)
        type == CallType(words, args)
        In(k, places) == k \in args /\ Place(args, k) \in places
    IN  [type |-> type, args |-> args,
         words |-> [k \in 1..Len(tokens) |->
                       CASE In(k, Bodies(type)) -> Body(words[k])
                         [] type = "PROC" /\ In(k, {2}) -> WordToList(words[k])
                         [] OTHER -> words[k]]]

ParseScript(commands) == [i \in 1..Len(commands) |-> ParseCommand(commands[i])]

\* A call is told from others by where it begins.
Id(call) == call.words[1].at

-----------------------------------------------------------------------------
(* The words and the scripts a recursion comes to.                         *)

\* The words in word k of a call, itself included, for a recursion that goes into
\* the words of these types.
Within(call, k, types) ==
    {j \in k..call.words[k].last :
        \A i \in k..(j - 1) : j <= call.words[i].last => call.words[i].type \in types}

ScriptsIn(call, words) ==
    {call.words[j].script : j \in {j \in words : call.words[j].type = "SCRIPT"}}

\* From every script of a table the scripts that can be reached from it, if
\* `nested' are those in a script; they are all before it in the table.
Reach(nested) ==
    LET reach[s \in DOMAIN nested] == {s} \cup UNION {reach[t] : t \in nested[s]}
    IN  reach

CallsOf(scripts, reached) == UNION {ToSet(scripts[s]) : s \in reached}

\* ScanWord looks for scripts in lists and scripts, IndexWord also in the index
\* of an array.
ScanWord(call, k) == ScriptsIn(call, Within(call, k, Lists))

\* Mutant: expanded words are not looked into.
IndexWord_NoExpand(call, k) ==
    ScriptsIn(call, Within(call, k, {"TOKEN_LIST", "ARRAY_ACCESS"}))

IndexWord(call, k) == ScriptsIn(call, Within(call, k, Lists \cup {"ARRAY_ACCESS"}))

\* The body of a call of one of these types, or all the arguments of another.
BodyOrAll(call, types) ==
    {k \in call.args : call.type \in types => Place(call.args, k) = 3}

\* The calls the two walks of the index visit.
ScanScript(scripts) ==
    LET Nested(call) == UNION {ScanWord(call, k) : k \in BodyOrAll(call, {"NAMESPACE_EVAL"})}
        reach == Reach([s \in DOMAIN scripts |-> UNION {Nested(call) : call \in ToSet(scripts[s])}])
    IN  {Id(call) : call \in CallsOf(scripts, reach[Len(scripts)])}

IndexScript(scripts) ==
    LET Nested(call) == UNION {IndexWord(call, k) :
                                  k \in BodyOrAll(call, {"NAMESPACE_EVAL", "PROC"})}
        reach == Reach([s \in DOMAIN scripts |-> UNION {Nested(call) : call \in ToSet(scripts[s])}])
    IN  {Id(call) : call \in CallsOf(scripts, reach[Len(scripts)])}
=============================================================================
