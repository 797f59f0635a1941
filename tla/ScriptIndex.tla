---------------------------- MODULE ScriptIndex ----------------------------
(***************************************************************************)
(* From a script to its index: the namespaces the parser notes in every    *)
(* call (ParseCommand), the declarations the first walk finds (ScanScript),*)
(* the references the second walk adds (IndexScript), and the lookups the  *)
(* requests make in the result.                                            *)
(*                                                                         *)
(* A script is the sequence of its commands in the order they are written. *)
(* "eval", "proc" and "block" open a nested script, which the matching     *)
(* "end" closes: namespace eval, proc, and whatever else holds a script (a *)
(* command substitution, the body of a loop).  The recursion over nested   *)
(* scripts is a stack with one entry per open level, which is the          *)
(* namespace that level runs in.  A command's place stands for its         *)
(* location, the number of an entry of a table for its id.                 *)
(***************************************************************************)
EXTENDS Names

CONSTANTS
    Vocabularies,  \* what scripts are written with, each a record of
                   \*    evals     the texts of namespaces,
                   \*    procs     of the names of procs,
                   \*    calls     and of the commands that are called;
                   \*    params    parameter lists of procs;
                   \*    args      bound: arguments of a call
                   \*    commands  bound: commands and ends of a script
    MaxArgs,       \* bound of the bounds `args'
    MaxCommands    \* bound of the bounds `commands'

ASSUME VocabularyAssumption ==
    \A v \in Vocabularies :
        /\ v.evals \cup v.procs \cup v.calls \subseteq Seq(Seq(STRING)) \ {<<>>}
        /\ v.params \subseteq Seq({"plain", "default", "args"})
        /\ v.args \in 0..MaxArgs
        /\ v.commands \in 0..MaxCommands
ASSUME IndexBounds == MaxArgs \in Nat /\ MaxCommands \in Nat

VARIABLES
    words,        \* the vocabulary of the script
    script,       \* the commands, each with its lexical namespace (Call.ns)
    phase,        \* "parse", "scan", "index", "ready"
    at,           \* the command the current walk is at
    curNs,        \* ParseContext.cur_ns of every open level
    nsPath,       \* ScanContext.nsPath, for every open level
    namespaces,   \* index.namespaces
    procs,        \* index.procs
    references,   \* index.procs.references
    answer        \* the answer to the last request

tables == <<namespaces, procs, references>>
vars == <<words, script, phase, at, curNs, nsPath, tables, answer>>

Global == 1
NoAnswer == [of |-> 0, types |-> {}, locations |-> {}]

\* The table of namespaces starts with the global one; 0 is no namespace.
Init ==
    /\ words \in Vocabularies
    /\ script = <<>>
    /\ phase = "parse"
    /\ at = 1
    /\ curNs = <<EmptyText>>
    /\ nsPath = <<Global>>
    /\ namespaces = <<[name |-> E, parent |-> 0, children |-> <<>>, procs |-> <<>>]>>
    /\ procs = <<>>
    /\ references = <<>>
    /\ answer = NoAnswer

-----------------------------------------------------------------------------
(* Parsing.                                                                *)

Command(op, name, params, args) ==
    [op |-> op, name |-> name, params |-> params, args |-> args,
     ns |-> Last(curNs)]

End == [op |-> "end", name |-> EmptyText, params |-> <<>>, args |-> 0,
        ns |-> EmptyText]

Parse(command) ==
    /\ phase = "parse"
    /\ Len(script) < words.commands
    /\ script' = Append(script, command)
    /\ UNCHANGED <<words, phase, at, nsPath, tables, answer>>

ParseCall(name, args) ==
    /\ Parse(Command("call", name, <<>>, args))
    /\ UNCHANGED curNs

ParseEval(name) ==
    /\ Parse(Command("eval", name, <<>>, 2))
    /\ curNs' = Append(curNs, Path(AbsPath(SplitName(name), Last(curNs))))

ParseProc(name, params) ==
    /\ Parse(Command("proc", name, params, 3))
    /\ curNs' = Append(curNs, Namespace(AbsPath(SplitName(name), Last(curNs))))

ParseBlock ==
    /\ Parse(Command("block", EmptyText, <<>>, 0))
    /\ curNs' = Append(curNs, Last(curNs))

\* Mutant: cur_ns is not restored.
ParseEnd_KeepsNs ==
    /\ Len(curNs) > 1
    /\ Parse(End)
    /\ curNs' = Append(SubSeq(curNs, 1, Len(curNs) - 2), Last(curNs))

ParseEnd ==
    /\ Len(curNs) > 1
    /\ Parse(End)
    /\ curNs' = Front(curNs)

\* The script is over: the open levels end, and the first walk begins.
ParsedAll ==
    /\ phase = "parse"
    /\ script' = script \o [i \in 1..(Len(curNs) - 1) |-> End]
    /\ curNs' = <<EmptyText>>
    /\ phase' = "scan"
    /\ UNCHANGED <<words, at, nsPath, tables, answer>>

-----------------------------------------------------------------------------
(* The tables.                                                             *)

\* The id of a row is its position; the new row is found under it.
NextId(table) == Len(table) + 1
Insert(table, row) == Append(table, row)

NewReference(id, type) == [location |-> at, id |-> id, type |-> type]
AddReference(id, type) == references' = Append(references, NewReference(id, type))

ChildNamed(table, id, part) ==
    {child \in ToSet(table[id].children) : table[child].name = part}

\* Mutant: a namespace is inserted without a look at those there are.
Descend_Always(found, part) ==
    [table |-> Append([found.table EXCEPT ![found.id].children =
                          Append(@, Len(found.table) + 1)],
                      [name |-> part, parent |-> found.id,
                       children |-> <<>>, procs |-> <<>>]),
     id |-> Len(found.table) + 1]

\* One step of ResolveNamespace: the child named `part', inserted if missing.
Descend(found, part) ==
    LET table == found.table
        known == ChildNamed(table, found.id, part)
        new == NextId(table)
    IN  IF known # {}
        THEN [found EXCEPT !.id = CHOOSE child \in known : TRUE]
        ELSE [table |-> Insert([table EXCEPT ![found.id].children =
                                    Append(@, new)],
                               [name |-> part, parent |-> found.id,
                                children |-> <<>>, procs |-> <<>>]),
              id |-> new]

\* The namespace of a name, and the table with the namespaces that had to be
\* inserted.
ResolveNamespace(table, qn, id) ==
    LET parts == NamespaceParts(qn)
        found[n \in 0..Len(parts)] ==
            IF n = 0
            THEN [table |-> table, id |-> IF qn.absolute THEN Global ELSE id]
            ELSE Descend(found[n - 1], parts[n])
    IN  found[Len(parts)]

\* 0 if there is none.
FindChild(table, id, part) ==
    IF id = 0 \/ ChildNamed(table, id, part) = {} THEN 0
    ELSE CHOOSE child \in ChildNamed(table, id, part) : TRUE

FindNamespace(table, text) ==
    LET parts == Parts(SplitName(text))
        found[n \in 0..Len(parts)] ==
            IF n = 0 THEN Global ELSE FindChild(table, found[n - 1], parts[n])
    IN  found[Len(parts)]

HasNamespace(qn) == qn.absolute \/ qn.ns # NoNs

\* Those of the procs `rows' that have that name in the namespace it has when
\* looked up from `id'.
Lookup(table, rows, qn, id) ==
    LET target == IF HasNamespace(qn) THEN ResolveNamespace(table, qn, id)
                  ELSE [table |-> table, id |-> id]
    IN  [table |-> target.table,
         found |-> {p \in 1..Len(rows) : rows[p].name = qn.name
                                          /\ rows[p].parent = target.id}]

\* Mutant: the parents are not searched.
FindProc_NoParents(table, rows, id, text) ==
    Lookup(table, rows, SplitName(text), id)

\* One call of FindProc, in the namespace `next'; it calls itself with the
\* parent unless something is found, and at last with none, which is 0.
FindIn(search, rows, qn) ==
    LET here == Lookup(search.table, rows, qn, search.next)
    IN  IF search.next = 0 THEN search
        ELSE [table |-> here.table, found |-> here.found,
              next |-> IF here.found # {} \/ qn.absolute THEN 0
                       ELSE here.table[search.next].parent]

\* In the namespace itself, then, for a relative name, in its parents, which
\* have smaller ids.
FindProc(table, rows, id, text) ==
    LET qn == SplitName(text)
        search[n \in 0..id] ==
            IF n = 0 THEN [table |-> table, found |-> {}, next |-> id]
            ELSE FindIn(search[n - 1], rows, qn)
    IN  search[id]

\* Mutant: a call with all the optional arguments does not fit.
BestFitProcToCall_OffByOne(rows, found, args) ==
    LET first == Min(found)
        exact == {p \in found \ {first} : args = rows[p].required}
        fits == {p \in found \ {first} :
                    /\ args > rows[p].required
                    /\ \/ args < rows[p].required + rows[p].optional
                       \/ rows[p].variadic}
    IN  CASE found = {} -> 0
          [] found # {} /\ exact # {} -> Min(exact)
          [] found # {} /\ exact = {} /\ fits # {} -> Max(fits)
          [] OTHER -> first

\* Of the procs but the first, which are visited in the order they were inserted,
\* the first that takes just that many arguments, else the last that takes them;
\* else the first proc; 0 if there is none.
BestFitProcToCall(rows, found, args) ==
    LET first == Min(found)
        exact == {p \in found \ {first} : args = rows[p].required}
        fits == {p \in found \ {first} :
                    /\ args > rows[p].required
                    /\ \/ args <= rows[p].required + rows[p].optional
                       \/ rows[p].variadic}
    IN  CASE found = {} -> 0
          [] found # {} /\ exact # {} -> Min(exact)
          [] found # {} /\ exact = {} /\ fits # {} -> Max(fits)
          [] OTHER -> first

\* A list of one word is left a word by WordToList, and a word counts nothing.
\* "args" is looked for in a string that is still empty.
Counted(params) == IF Len(params) = 1 THEN <<>> ELSE params

Occurrences(params, kinds) ==
    Cardinality({i \in 1..Len(params) : params[i] \in kinds})

NewProc(name, ns, params) ==
    [name |-> name, parent |-> ns,
     required |-> Occurrences(Counted(params), {"plain", "args"}),
     optional |-> Occurrences(Counted(params), {"default"}),
     variadic |-> FALSE]

-----------------------------------------------------------------------------
(* The walks.  Both visit the commands in order and enter nested scripts.  *)

At(walk, op) == phase = walk /\ at <= Len(script) /\ script[at].op = op

Walk == /\ at' = at + 1
        /\ UNCHANGED <<words, script, phase, curNs, answer>>

Here == Last(nsPath)
Enter(id) == nsPath' = Append(nsPath, id)

\* The text after "namespace eval" is a namespace as it stands, never an
\* absolute one.
EvalName(text) == [ns |-> text, name |-> E, absolute |-> FALSE]

EvalNamespace(walk) ==
    /\ At(walk, "eval")
    /\ LET target == ResolveNamespace(namespaces, EvalName(script[at].name), Here)
       IN  Enter(target.id) /\ namespaces' = target.table
    /\ Walk
    /\ UNCHANGED <<procs, references>>

EnterBlock(walk) ==
    /\ At(walk, "block")
    /\ Enter(Here)
    /\ Walk
    /\ UNCHANGED tables

\* Mutant: the path is popped for a namespace only.
Leave_Namespaces(walk) ==
    /\ At(walk, "end")
    /\ nsPath' = IF Len(nsPath) > 2 THEN Front(nsPath) ELSE nsPath
    /\ Walk
    /\ UNCHANGED tables

Leave(walk) ==
    /\ At(walk, "end")
    /\ nsPath' = Front(nsPath)
    /\ Walk
    /\ UNCHANGED tables

\* Mutant: a proc with a qualified name is added to the current namespace.
ScanProc_Here ==
    /\ At("scan", "proc")
    /\ namespaces' = [namespaces EXCEPT ![Here].procs = Append(@, 0)]
    /\ procs' = Insert(procs, NewProc(SplitName(script[at].name).name, Here,
                                     script[at].params))
    /\ AddReference(NextId(procs), "DEFINITION")
    /\ Enter(Here)
    /\ Walk

\* AddProcToIndex.  The id that goes into the scope is that of a proc which has
\* none yet.  The body is scanned in the namespace around the proc.
ScanProc ==
    /\ At("scan", "proc")
    /\ LET qn == SplitName(script[at].name)
           target == IF HasNamespace(qn) THEN ResolveNamespace(namespaces, qn, Here)
                     ELSE [table |-> namespaces, id |-> Here]
       IN  /\ namespaces' = [target.table EXCEPT ![target.id].procs = Append(@, 0)]
           /\ procs' = Insert(procs, NewProc(qn.name, target.id, script[at].params))
           /\ AddReference(NextId(procs), "DEFINITION")
    /\ Enter(Here)
    /\ Walk

ScanCall == At("scan", "call") /\ Walk /\ UNCHANGED <<nsPath, tables>>

ScannedAll ==
    /\ phase = "scan" /\ at > Len(script)
    /\ phase' = "index"
    /\ at' = 1
    /\ UNCHANGED <<words, script, curNs, nsPath, tables, answer>>

\* The body of a proc is indexed in the namespace of its name.
IndexProc ==
    /\ At("index", "proc")
    /\ LET target == ResolveNamespace(namespaces, SplitName(script[at].name), Here)
       IN  Enter(target.id) /\ namespaces' = target.table
    /\ Walk
    /\ UNCHANGED <<procs, references>>

\* Mutant: the namespaces a lookup inserts are not kept.
IndexCall_OnACopy ==
    /\ At("index", "call")
    /\ LET lookup == FindProc(namespaces, procs, Here, script[at].name)
           best == BestFitProcToCall(procs, lookup.found, script[at].args)
       IN  IF best = 0 THEN UNCHANGED references ELSE AddReference(best, "USAGE")
    /\ Walk
    /\ UNCHANGED <<nsPath, namespaces, procs>>

\* The call refers to the proc it fits best, if its name leads to any.
IndexCall ==
    /\ At("index", "call")
    /\ LET lookup == FindProc(namespaces, procs, Here, script[at].name)
           best == BestFitProcToCall(procs, lookup.found, script[at].args)
       IN  /\ namespaces' = lookup.table
           /\ IF best = 0 THEN UNCHANGED references ELSE AddReference(best, "USAGE")
    /\ Walk
    /\ UNCHANGED <<nsPath, procs>>

IndexedAll ==
    /\ phase = "index" /\ at > Len(script)
    /\ phase' = "ready"
    /\ UNCHANGED <<words, script, at, curNs, nsPath, tables, answer>>

-----------------------------------------------------------------------------
(* Requests.  One is about a text in the place of the command of a call:   *)
(* the name of a call that was indexed, or any other text, since the text  *)
(* can also be a part of a command word that is put together, stand behind *)
(* a nested script, which makes it the script's last call that is asked    *)
(* about, or be the name of a call in the words in front of a body, which  *)
(* no walk visits.                                                         *)

ReferencesTo(id, types) ==
    {r \in ToSet(references) : r.id = id /\ r.type \in types}

\* The second walk looked that text up for command i, with those arguments.
WasIndexed(i, text, args) ==
    script[i].op = "call" /\ text = script[i].name /\ args = script[i].args

\* Mutant: the namespace of the call is not taken into account.
Ask_Globally(i, text, args, types) ==
    /\ phase = "ready"
    /\ i \in 1..Len(script) /\ script[i].op # "end"
    /\ LET lookup == FindProc(namespaces, procs, Global, text)
           best == BestFitProcToCall(procs, lookup.found, args)
       IN  /\ namespaces' = lookup.table
           /\ answer' = [of |-> IF WasIndexed(i, text, args) THEN i ELSE 0,
                         types |-> types,
                         locations |-> {r.location : r \in ReferencesTo(best, types)}]
    /\ UNCHANGED <<words, script, phase, at, curNs, nsPath, procs, references>>

\* The text is looked up from the namespace the parser noted in a call, that of
\* command i or of one nested in its words.  The references of the proc found
\* that are of the types asked for are the answer.
Ask(i, text, args, types) ==
    /\ phase = "ready"
    /\ i \in 1..Len(script) /\ script[i].op # "end"
    /\ LET ns == FindNamespace(namespaces, script[i].ns)
           lookup == IF ns = 0 THEN [table |-> namespaces, found |-> {}]
                     ELSE FindProc(namespaces, procs, ns, text)
           best == BestFitProcToCall(procs, lookup.found, args)
       IN  /\ namespaces' = lookup.table
           /\ answer' = [of |-> IF WasIndexed(i, text, args) THEN i ELSE 0,
                         types |-> types,
                         locations |-> {r.location : r \in ReferencesTo(best, types)}]
    /\ UNCHANGED <<words, script, phase, at, curNs, nsPath, procs, references>>

AskFor(types) ==
    \E i \in 1..Len(script), text \in words.calls, args \in 0..words.args :
        Ask(i, text, args, types)

AskReferences == AskFor({"USAGE", "DEFINITION"})
AskDefinition == AskFor({"DEFINITION"})

\* A namespace, its parent, and so on to the global one.
Ancestry(table, id) ==
    LET up[n \in 1..Len(table)] ==
            IF table[n].parent = 0 THEN <<n>> ELSE <<n>> \o up[table[n].parent]
    IN  up[id]

\* The name of a proc the analyzer prints, as the parts it puts "::" between.
GetPrintName(p) ==
    LET above == Ancestry(namespaces, procs[p].parent)
    IN  Append([i \in 1..Len(above) |-> namespaces[above[Len(above) + 1 - i]].name],
               procs[p].name)

-----------------------------------------------------------------------------
ParseStep ==
    \/ \E name \in words.calls, args \in 0..words.args : ParseCall(name, args)
    \/ \E name \in words.evals : ParseEval(name)
    \/ \E name \in words.procs, params \in words.params : ParseProc(name, params)
    \/ ParseBlock
    \/ ParseEnd
    \/ ParsedAll

ScanStep ==
    \/ EvalNamespace("scan") \/ EnterBlock("scan") \/ Leave("scan")
    \/ ScanProc \/ ScanCall \/ ScannedAll

IndexStep ==
    \/ EvalNamespace("index") \/ EnterBlock("index") \/ Leave("index")
    \/ IndexProc \/ IndexCall \/ IndexedAll

Idle == phase = "ready" /\ UNCHANGED vars

Next == \/ ParseStep \/ ScanStep \/ IndexStep
        \/ AskReferences \/ AskDefinition \/ Idle

Spec == Init /\ [][Next]_vars

-----------------------------------------------------------------------------
(* Properties.                                                             *)

Ids(table) == 0..Len(table)

\* The walks keep to the tables, and every level they enter they leave
\* (index.cpp:363-466, 627-691).
TypeOK ==
    /\ phase \in {"parse", "scan", "index", "ready"}
    /\ at \in 1..(Len(script) + 1)
    /\ \A i \in 1..Len(nsPath) : nsPath[i] \in 1..Len(namespaces)
    /\ phase = "ready" \/ at = 1 => nsPath = <<Global>>
    /\ \A p \in 1..Len(procs) : procs[p].parent \in 1..Len(namespaces)
    /\ \A r \in ToSet(references) : r.id \in 1..Len(procs)
    /\ answer.locations \subseteq 1..Len(script)

Tree(table) ==
    /\ table[Global].parent = 0
    /\ \A n \in 2..Len(table) :
          /\ table[n].parent \in 1..(n - 1)
          /\ n \in ToSet(table[table[n].parent].children)
    /\ \A n \in 1..Len(table) :
          LET children == table[n].children
          IN  \A i, j \in 1..Len(children) :
                 /\ children[i] \in 1..Len(table) /\ table[children[i]].parent = n
                 /\ i # j => table[children[i]].name # table[children[j]].name

\* The namespaces are a tree with the global one at its root, siblings have
\* different names, and parents and children agree (index.cpp:216-254): the
\* lookups that go down by name and up by parent end, and at the same place.
NamespaceTree == Tree(namespaces)

(* What Tcl makes of the names, from the script alone.  The namespace of a *)
(* level is the path of identifiers from the global one.                   *)
TclPath(current, text) == IF IsRooted(text) THEN Tail(text) ELSE current \o text

\* The namespaces of the open levels before every command.
TclLevels ==
    LET levels[i \in 1..Len(script)] ==
          IF i = 1 THEN <<(<<>>)>>
          ELSE LET before == levels[i - 1]
                   c == script[i - 1]
               IN  CASE c.op = "eval"  -> Append(before, TclPath(Last(before), c.name))
                     [] c.op = "proc"  -> Append(before, Front(TclPath(Last(before), c.name)))
                     [] c.op = "block" -> Append(before, Last(before))
                     [] c.op = "end"   -> Front(before)
                     [] c.op = "call"  -> before
    IN  levels

\* The definitions of the proc with that absolute name.
TclDefines(path) ==
    LET levels == TclLevels
    IN  {d \in 1..Len(script) : script[d].op = "proc" /\
            TclPath(Last(levels[d]), script[d].name) = path}

TclDepth(i) == Len(Last(TclLevels[i]))

\* What the name of a call leads to from the namespace that the first n
\* identifiers of the one around it name.
LeadsTo(i, n) == TclDefines(TclPath(SubSeq(Last(TclLevels[i]), 1, n), script[i].name))

\* The definitions a call can mean: Tcl looks in the namespace of the call and
\* then in the global one.
TclDefinitions(i) == IF LeadsTo(i, TclDepth(i)) # {} THEN LeadsTo(i, TclDepth(i))
                     ELSE LeadsTo(i, 0)

\* FindProc looks in all the namespaces around a call (index.cpp:565-572): in
\* those between the two it finds nothing, or does not get to them.
NoneBetween(i) == \/ LeadsTo(i, TclDepth(i)) # {}
                  \/ \A n \in 1..(TclDepth(i) - 1) : LeadsTo(i, n) = {}

DefinitionOf(id) == CHOOSE location \in 1..Len(script) :
    [location |-> location, id |-> id, type |-> "DEFINITION"] \in ToSet(references)

Usages(i) == {r \in ToSet(references) : r.location = i /\ r.type = "USAGE"}

\* A proc that is defined in the body of another is scanned in the namespace
\* around both, which is that of the body only if the outer name is not qualified.
BodiesKeepNamespace ==
    LET levels == TclLevels
        Within(j, i) == \A k \in (i + 1)..j : Len(levels[k]) > Len(levels[i])
    IN  \A i, j \in {d \in 1..Len(script) : script[d].op = "proc"} :
            i < j /\ Within(j, i) => Len(script[i].name) = 1

\* The name printed for a proc (index.cpp:178-214, analyzer.cpp:147-151) is that
\* by which Tcl knows it, from the global namespace on.
PrintedNames ==
    phase = "ready" /\ BodiesKeepNamespace =>
        \A p \in 1..Len(procs) :
            LET definition == DefinitionOf(p)
            IN  GetPrintName(p) = <<E>> \o TclPath(Last(TclLevels[definition]),
                                                  script[definition].name)

\* A call refers to one definition at most, to one if Tcl finds any, wherever in
\* the script they stand, and to one that Tcl would find unless a namespace Tcl
\* does not look in comes first (index.cpp:526-576, 661-673).
CallsResolve ==
    phase = "ready" /\ BodiesKeepNamespace =>
        \A i \in {i \in 1..Len(script) : script[i].op = "call"} :
            LET definitions == TclDefinitions(i)
                usages == Usages(i)
            IN  /\ Cardinality(usages) <= 1
                /\ definitions # {} => usages # {}
                /\ NoneBetween(i) => \A r \in usages : DefinitionOf(r.id) \in definitions

\* "lexical namespace in which the call happens" (script.cpp:228): what the
\* parser notes in a call names the namespace in which the call is indexed
\* (index.cpp:642-645), so that a request finds what the index has.
LexicalAgreement ==
    At("index", "call") => FindNamespace(namespaces, script[at].ns) = Here

\* Whatever was asked before, a request for the references of an indexed call
\* lists that very call and the definition that was found for it, and one for
\* its definition nothing else than that (handlers.cpp:199-236, 276-317).
AnswersIncludeTheCall ==
    answer.of # 0 =>
        \A r \in Usages(answer.of) :
            /\ DefinitionOf(r.id) \in answer.locations
            /\ "USAGE" \in answer.types => answer.of \in answer.locations
            /\ "USAGE" \notin answer.types => answer.locations = {DefinitionOf(r.id)}

\* Requests hold index_lock shared while FindProc can insert namespaces
\* (handlers.cpp:191, 209; index.cpp:526-540).  For an indexed call, in the
\* namespace noted in it, they insert none: the second walk did.
IndexedCallsOnlyRead ==
    [][phase = "ready" /\ answer'.of # 0 => UNCHANGED tables]_vars

TclAccepts(params, args) ==
    LET minimum == Occurrences(params, {"plain"})
    IN  /\ minimum <= args
        /\ args <= Len(params) \/ Occurrences(params, {"args"}) > 0

\* Of several definitions of a proc a call refers to one that can take its
\* arguments, if there is one (index.cpp:578-624).
FittingDefinition ==
    phase = "ready" =>
        \A i \in {i \in 1..Len(script) : script[i].op = "call" /\ NoneBetween(i)} :
            \A r \in Usages(i) :
                (\E d \in TclDefinitions(i) :
                    TclAccepts(script[d].params, script[i].args)) =>
                TclAccepts(script[DefinitionOf(r.id)].params, script[i].args)

\* "number of positional args without defaults", "number of positional args
\* with defaults" and "has args at the end" (index.cpp:84-86).
ArgumentsCounted ==
    \A id \in 1..Len(procs) :
        LET params == script[DefinitionOf(id)].params
        IN  /\ procs[id].required = Occurrences(params, {"plain"})
            /\ procs[id].optional = Occurrences(params, {"default"})
            /\ procs[id].variadic = (Occurrences(params, {"args"}) > 0)
=============================================================================
