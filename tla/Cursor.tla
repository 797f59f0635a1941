------------------------------- MODULE Cursor -------------------------------
(***************************************************************************)
(* A request about a position: a file is written and its lines are found,  *)
(* the words of its script are parsed, the client asks about a line and a  *)
(* column, FindPositionInScript looks for the word there, and the handler  *)
(* decides what to do with it.                                             *)
(*                                                                         *)
(* The text is written from left to right, with the tokens Tcl makes of    *)
(* it.  `open' is a stack of what has been begun and not ended: scripts,   *)
(* in brackets or braces, commands, words, and array references.           *)
(***************************************************************************)
EXTENDS SourceLocation, Words

CONSTANT
    Styles       \* what scripts are written with, each a record of
                 \*    names   first words of commands,
                 \*    firsts  ways another first word can begin,
                 \*    texts   other bare words,
                 \*    opens   ways another word can begin,
                 \*    parts   what words are put together from,
                 \*    ends    ends of commands, newlines or semicolons
                 \*    most    bound: nothing more is begun at this offset

Openings == {"brace", "quote", "bare", "expand"}
Parts == {"text", "variable", "array", "bracket"}

ASSUME StylesAssumption ==
    \A s \in Styles : /\ s.names \cup s.texts \subseteq STRING
                      /\ s.firsts \cup s.opens \subseteq Openings
                      /\ s.parts \subseteq Parts
                      /\ s.ends \subseteq Bytes
                      /\ s.most \in Nat

VARIABLES
    style,     \* how this text is written
    open,      \* what is being written
    texts,     \* the scripts Tcl would find in it, the whole text at last
    phase,     \* "write", "scan", "ready", "asked"
    script,    \* Document.script, with the scripts in it
    pos,       \* the position asked about
    cursor,    \* what GetCursor returns
    outcome    \* what the handler does with it

textVars == <<style, open, texts>>
requestVars == <<pos, cursor, outcome>>
cursorVars == <<fileVars, textVars, phase, script, requestVars>>

NoCall == -1
NoWord == [type |-> "none", at |-> 0]
NoCursor == [call |-> NoCall, argument |-> 0, word |-> NoWord]
NoPosition == [line |-> 0, column |-> 0]

\* A frame holds the commands of a script, or the tokens of a command, a word or
\* an index so far.
Frame(type, at) == [type |-> type, at |-> at, items |-> <<>>]

CursorInit ==
    /\ style \in Styles
    /\ FileInit
    /\ open = <<Frame("script", 0)>>
    /\ texts = <<>>
    /\ phase = "write"
    /\ script = <<>>
    /\ pos = NoPosition /\ cursor = NoCursor /\ outcome = "none"

-----------------------------------------------------------------------------
(* The text, and what Tcl makes of it.                                     *)

Top == Last(open)
Here == Len(contents)
InScript == Top.type \in {"script", "brace", "bracket"}
InCommand == Top.type = "command"
InWord == Top.type \in {"quote", "bare", "expand", "array"}
Room == Here < style.most

Write(bytes, stack) ==
    /\ phase = "write"
    /\ contents' = contents \o bytes
    /\ open' = stack
    /\ UNCHANGED <<newlines, scanAt, style, phase, script, requestVars>>

Some(n) == [i \in 1..n |-> "other"]

\* More items in the entry on top of the stack, or once that is ended in the one
\* below.
More(items) == [open EXCEPT ![Len(open)].items = @ \o items]
EndedAs(items) == [Front(open) EXCEPT ![Len(open) - 1].items = @ \o items]

\* A script that Tcl would find in a text, and the number it gets.
Find(commands) == texts' = Append(texts, commands)
NextScript == Len(texts) + 1

Text(text, at, size, inside, list) == Token("text", 0, at, size, text, inside, list)

\* Text that nothing depends on.
OtherText == ""

Simple(text, at, size, inside, list) ==
    <<Token("simple", 1, at, size, text, NoScript, FALSE),
      Text(text, at, size, inside, list)>>

\* As a script a bare word is a command without arguments.
BareWord(text, at) == Simple(text, at, 1, NextScript, FALSE)
FindBareWord(text, at) == Find(<<Simple(text, at, 1, NoScript, FALSE)>>)

WriteName(name) ==
    /\ InScript /\ Room
    /\ Write(Some(1), Append(open, [Frame("command", Here)
                                       EXCEPT !.items = BareWord(name, Here)]))
    /\ FindBareWord(name, Here)

WriteBare(text) ==
    /\ InCommand /\ Room
    /\ Write(Some(2), More(BareWord(text, Here + 1)))
    /\ FindBareWord(text, Here + 1)

\* Braces and quotes take a byte, the mark of expansion three.
MarkSize(opening) == CASE opening = "bare" -> 0
                       [] opening = "expand" -> 3
                       [] OTHER -> 1

OpenFirst(opening) ==
    /\ InScript /\ Room
    /\ Write(Some(MarkSize(opening)),
             open \o <<Frame("command", Here), Frame(opening, Here)>>)
    /\ UNCHANGED texts

Open(opening) ==
    /\ InCommand /\ Room
    /\ Write(Some(1 + MarkSize(opening)), Append(open, Frame(opening, Here + 1)))
    /\ UNCHANGED texts

\* The first token of the last part so far.
LastPart == LET items == Top.items
            IN  items[Min({k \in 1..Len(items) : k + items[k].n = Len(items)})]

\* A single text is no word of parts: Tcl makes a simple word of it, or expands
\* it right away.
Complete == \/ Len(Top.items) > 1
            \/ Top.items # <<>> /\ Top.type = "array"
            \/ Top.items # <<>> /\ Top.items[1].type # "text"

\* Text cannot follow text, nor the name of a scalar variable.
WriteText(text) ==
    /\ InWord /\ (Room \/ ~Complete)
    /\ Top.items # <<>> => LastPart.type = "command" \/ LastPart.n > 1
    /\ Write(Some(1), More(<<Text(text, Here, 1, NoScript, FALSE)>>))
    /\ UNCHANGED texts

WriteVariable(name) ==
    /\ InWord /\ (Room \/ ~Complete)
    /\ Write(Some(2), More(<<Token("variable", 1, Here, 2, name, NoScript, FALSE),
                             Text(name, Here + 1, 1, NoScript, FALSE)>>))
    /\ UNCHANGED texts

OpenArray ==
    /\ InWord /\ Room
    /\ Write(Some(3), Append(open, Frame("array", Here)))
    /\ UNCHANGED texts

CloseArray(name) ==
    /\ Top.type = "array" /\ Complete
    /\ Write(Some(1), EndedAs(
           <<Token("variable", 1 + Len(Top.items), Top.at, Here + 1 - Top.at, name,
                   NoScript, FALSE),
             Text(name, Top.at + 1, 1, NoScript, FALSE)>> \o Top.items))
    /\ UNCHANGED texts

OpenBracket ==
    /\ InWord /\ (Room \/ ~Complete)
    /\ Write(Some(1), Append(open, Frame("bracket", Here)))
    /\ UNCHANGED texts

CloseBracket ==
    /\ Top.type = "bracket"
    /\ Write(Some(1), EndedAs(<<Token("command", 0, Top.at, Here + 1 - Top.at,
                                      OtherText, NextScript, FALSE)>>))
    /\ Find(Top.items)

\* In braces everything is one text, and the elements of a list are the words.
IsElement(commands) == Len(commands) = 1 /\ Cardinality(Arguments(commands[1])) = 1

CloseBrace ==
    /\ Top.type = "brace"
    /\ Write(Some(1), EndedAs(Simple(OtherText, Top.at + 1, Here - Top.at - 1, NextScript,
                                     ~IsElement(Top.items))))
    /\ Find(Top.items)

\* As a list a command in a bare word falls apart at its blanks.
CloseWord ==
    /\ Top.type \in {"quote", "bare", "expand"} /\ Complete
    /\ LET parts == Top.items
           size == IF Top.type = "quote" THEN 1 ELSE 0
           list == Top.type = "bare" /\ \E k \in 1..Len(parts) : parts[k].type = "command"
       IN  Write(Some(size), EndedAs(
               <<Token(IF Top.type = "expand" THEN "expand" ELSE "word",
                       Len(parts), Top.at, Here + size - Top.at, OtherText, NoScript, list)>>
               \o parts))
    /\ UNCHANGED texts

EndCommand(byte) ==
    /\ InCommand
    /\ Write(<<byte>>, EndedAs(<<Top.items>>))
    /\ UNCHANGED texts

EndText ==
    /\ phase = "write" /\ Top.type = "script"
    /\ phase' = "scan"
    /\ Find(Top.items)
    /\ UNCHANGED <<fileVars, style, open, script, requestVars>>

Writing ==
    \/ \E name \in style.names : WriteName(name)
    \/ \E opening \in style.firsts : OpenFirst(opening)
    \/ \E text \in style.texts : WriteBare(text)
    \/ \E opening \in style.opens : Open(opening)
    \/ "text" \in style.parts /\ \E text \in style.texts : WriteText(text)
    \/ "variable" \in style.parts /\ WriteVariable("v")
    \/ "array" \in style.parts /\ OpenArray
    \/ CloseArray("a")
    \/ "bracket" \in style.parts /\ OpenBracket
    \/ CloseBracket
    \/ CloseBrace
    \/ CloseWord
    \/ \E byte \in style.ends : EndCommand(byte)
    \/ EndText

-----------------------------------------------------------------------------
(* Lines, words, and the search.                                           *)

Scan ==
    /\ phase = "scan"
    /\ ScanByte \/ EndScan
    /\ UNCHANGED <<textVars, phase, script, requestVars>>

Parse ==
    /\ phase = "scan" /\ Scanned
    /\ script' = [s \in 1..Len(texts) |-> ParseScript(texts[s])]
    /\ phase' = "ready"
    /\ UNCHANGED <<fileVars, textVars, requestVars>>

\* Mutant: a word begins behind its first byte.
Begun_Behind(word, p) == Before(OffsetToLineByte(word.at), p)

Begun(word, p) == ~Before(p, OffsetToLineByte(word.at))

\* Mutant: a nested script does not take over the call.
FindPositionInWord_OuterCall(result, call, k, p, nested) ==
    LET words == Within(call, k, Lists)
        scripts == {j \in words : call.words[j].type = "SCRIPT"}
        found == IF scripts = {} THEN result
                 ELSE [nested[call.words[Max(scripts)].script]
                          EXCEPT !.call = result.call, !.argument = result.argument]
    IN  IF \E j \in words : ~Begun(call.words[j], p) THEN <<>>
        ELSE IF Max(words) \in scripts THEN <<found>>
        ELSE <<[found EXCEPT !.word = call.words[Max(words)]]>>

\* Mutant: an expanded word is not looked into.
FindPositionInWord_NoExpand(result, call, k, p, nested) ==
    LET words == Within(call, k, {"TOKEN_LIST"})
        scripts == {j \in words : call.words[j].type = "SCRIPT"}
        found == IF scripts = {} THEN result ELSE nested[call.words[Max(scripts)].script]
    IN  IF \E j \in words : ~Begun(call.words[j], p) THEN <<>>
        ELSE IF Max(words) \in scripts THEN <<found>>
        ELSE <<[found EXCEPT !.word = call.words[Max(words)]]>>

\* The optional cursor, <<>> if the word, or a part of it, begins behind the
\* position.  Each part replaces the word found so far, a nested script the whole
\* of what was found; `nested' is what is found in the scripts.
FindPositionInWord(result, call, k, p, nested) ==
    LET words == Within(call, k, Lists)
        scripts == {j \in words : call.words[j].type = "SCRIPT"}
        found == IF scripts = {} THEN result ELSE nested[call.words[Max(scripts)].script]
    IN  IF \E j \in words : ~Begun(call.words[j], p) THEN <<>>
        ELSE IF Max(words) \in scripts THEN <<found>>
        ELSE <<[found EXCEPT !.word = call.words[Max(words)]]>>

\* The words of the calls of a script, each as a call and its token, in their order.
Places(commands) == UNION {{<<i, k>> : k \in commands[i].args} : i \in 1..Len(commands)}
Precedes(x, y) == x[1] < y[1] \/ (x[1] = y[1] /\ x[2] < y[2])

\* What was found in the last word before the first one that is past the position.
FindPositionInScript(scripts, p) ==
    LET found[s \in 1..Len(scripts)] ==
            LET commands == scripts[s]
                Found(x) ==
                    LET call == commands[x[1]]
                    IN  FindPositionInWord(
                            [NoCursor EXCEPT !.call = Id(call),
                                             !.argument = Place(call.args, x[2])],
                            call, x[2], p, found)
                past == {x \in Places(commands) : Found(x) = <<>>}
                before == {x \in Places(commands) : \A y \in past : Precedes(x, y)}
            IN  IF before = {} THEN NoCursor
                ELSE Found(CHOOSE x \in before :
                               \A y \in before \ {x} : Precedes(y, x))[1]
    IN  found[Len(scripts)]

\* What on_textdocument_references and on_textdocument_definition do with it.
Outcome(c) ==
    CASE c.call = NoCall \/ c.word = NoWord -> "rejected"
      [] c.call # NoCall /\ c.word.type = "TEXT" /\ c.argument = 0 -> "lookup"
      [] OTHER -> "empty"

LineLength(i) == newlines[i] - StartOfLine(i)
Columns == 0..(Max({LineLength(i) : i \in 1..Len(newlines)}) + 1)
Positions == [line : 0..Len(newlines), column : Columns]

\* Any position may be asked about, also one outside the text.
Ask(p) ==
    /\ phase' = "asked"
    /\ pos' = p
    /\ cursor' = FindPositionInScript(script, p)
    /\ outcome' = Outcome(cursor')
    /\ UNCHANGED <<fileVars, textVars, script>>

Reply ==
    /\ phase = "asked"
    /\ phase' = "ready"
    /\ pos' = NoPosition /\ cursor' = NoCursor /\ outcome' = "none"
    /\ UNCHANGED <<fileVars, textVars, script>>

CursorNext ==
    \/ Writing
    \/ Scan
    \/ Parse
    \/ phase = "ready" /\ \E p \in Positions : Ask(p)
    \/ Reply

CursorSpec == CursorInit /\ [][CursorNext]_cursorVars

-----------------------------------------------------------------------------
(* Properties.                                                             *)

\* A part of an argument is plain if it ends with it and no script comes before it.
PlainPart(call, k, j) ==
    /\ call.words[j].last = call.words[k].last
    /\ \/ call.words[j].type = "SCRIPT"
       \/ \A i \in Within(call, k, Lists) : i < j => call.words[i].type # "SCRIPT"

\* The words the search comes to in an argument, or the plain ones among them.
PartsOf(call, k, plain) == {j \in Within(call, k, Lists) : plain => PlainPart(call, k, j)}

\* These of all the arguments in a script, each as the cursor that is on it.
WordsOf(s, plain) ==
    UNION {LET call == script[s][x[1]]
           IN  {[call |-> Id(call), argument |-> Place(call.args, x[2]), word |-> call.words[j]]
                : j \in PartsOf(call, x[2], plain)}
           : x \in Places(script[s])}

ScriptsAmong(cursors) == {c \in cursors : c.word.type = "SCRIPT"}
LeavesAmong(cursors) == {c \in cursors : c.word.type \notin Lists \cup {"SCRIPT"}}

\* The scripts that are reached from each, itself included, and the words in those
\* that are reached from the whole text.
ReachOf(plain) ==
    Reach([s \in DOMAIN script |-> {c.word.script : c \in ScriptsAmong(WordsOf(s, plain))}])
Searched(plain) == ReachOf(plain)[Len(script)]
AllWords(plain) == UNION {WordsOf(s, plain) : s \in Searched(plain)}

CursorTypeOK ==
    /\ FileTypeOK
    /\ style \in Styles
    /\ open # <<>> /\ open[1].type = "script"
    /\ phase \in {"write", "scan", "ready", "asked"}
    /\ phase \in {"ready", "asked"} =>
           \A leaf \in LeavesAmong(AllWords(FALSE)) :
               /\ leaf.word.type \in WordTypes \ Lists
               /\ leaf.word.at + leaf.word.size \in Offsets
    /\ cursor.call \in {NoCall} \cup Offsets
    /\ cursor.word.type \in {"none"} \cup (WordTypes \ Lists)
    /\ outcome \in {"none", "rejected", "lookup", "empty"}

\* A position inside a plain word gives that word, with the innermost call it is
\* an argument of and its place there (index.cpp:711-784).
WordUnderCursor ==
    phase = "asked" =>
        \A leaf \in LeavesAmong(AllWords(TRUE)) :
            (\E at \in leaf.word.at..(leaf.word.at + leaf.word.size - 1) :
                 pos = OffsetToLineByte(at))
                => cursor = leaf

\* If all words are plain, any position gives the last word that begins before it
\* or at it, however far behind its end; nothing if there is none, or if a script
\* has begun since (index.cpp:711-784).
AllPlain ==
    \A s \in Searched(FALSE) : \A x \in Places(script[s]) :
        LET call == script[s][x[1]]
        IN  PartsOf(call, x[2], TRUE) = PartsOf(call, x[2], FALSE)

NearestWord ==
    (phase = "asked" /\ AllPlain) =>
        LET Started(c) == ~Before(pos, OffsetToLineByte(c.word.at))
            before == {leaf \in LeavesAmong(AllWords(FALSE)) : Started(leaf)}
            scripts == {s \in ScriptsAmong(AllWords(FALSE)) : Started(s)}
        IN  \/ /\ cursor = NoCursor
               /\ \A leaf \in before : \E s \in scripts : s.word.at > leaf.word.at
            \/ /\ cursor \in before
               /\ \A c \in before \cup scripts : c.word.at <= cursor.word.at

\* The references to a call that can be asked about are in the index: both walks
\* of the index come to it, unless it stands in front of the body of a proc or of
\* a namespace eval, where neither looks (index.cpp:415-451, 644-668).
HeadsOf(call) ==
    IF call.type \in {"PROC", "NAMESPACE_EVAL"}
    THEN UNION {ScanWord(call, k) : k \in {k \in call.args : Place(call.args, k) < 3}}
    ELSE {}

Heads ==
    UNION {ReachOf(FALSE)[s] : s \in UNION {HeadsOf(call) : call \in CallsOf(script, Searched(FALSE))}}

AskedCallsAreIndexed ==
    outcome \in {"lookup", "empty"} =>
        \/ cursor.call \in ScanScript(script) \cap IndexScript(script)
        \/ \E call \in CallsOf(script, Heads) : cursor.call = Id(call)
=============================================================================
