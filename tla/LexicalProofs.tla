--------------------------- MODULE LexicalProofs ---------------------------
(***************************************************************************)
(* Theorems about ScriptIndex: the parser, the second walk and the         *)
(* requests agree on the namespace of every call, in scripts whose names   *)
(* the parser does not take for others.  In scripts whose names the walks  *)
(* take for what they are, procs are printed by the names Tcl knows them   *)
(* by, and a call refers to a proc if Tcl finds one for it: unless there   *)
(* is one in a namespace Tcl does not look in, to a definition that Tcl    *)
(* would find, which can take its arguments if there is such a one.        *)
(***************************************************************************)
EXTENDS ScriptIndexProofs

-----------------------------------------------------------------------------
(* The names.                                                              *)

\* The parser glues a relative name that has a namespace to the namespace it
\* is in, unless that is the global one (script.cpp:57-61); the walks take the
\* text behind "namespace eval" for relative and make a namespace of an empty
\* name too (index.cpp:380-383, 226-238).  These are the commands that neither
\* happens to.
Regular(c) ==
    /\ c.op = "eval" => /\ Head(c.name) # E /\ Last(c.name) # E
                        /\ Len(c.name) = 1 \/ c.ns = EmptyText
    /\ c.op = "proc" /\ Len(c.name) > 1 =>
          /\ IsRooted(c.name) \/ c.ns = EmptyText
          /\ Len(c.name) = 2 \/ c.name[Len(c.name) - 1] # E

RegularScript == \A i \in 1..Len(script) : Regular(script[i])

\* The absolute names of namespaces.
Proper(t) == t = EmptyText \/ (IsRooted(t) /\ Last(t) # E)

\* The text `inner' is that of the namespace the name `qn' leads to from the one
\* of the text `outer'.
Follows(outer, inner, qn) ==
    /\ inner \in Texts /\ Proper(inner)
    /\ Tail(inner) = IF qn.absolute THEN NamespaceParts(qn)
                     ELSE Tail(outer) \o NamespaceParts(qn)

LEMMA EmptyTail == Tail(EmptyText) = <<>>
BY EmptyTextIsText, EmptySeq DEF EmptyText

LEMMA TextElements ==
    ASSUME NEW t \in Texts
    PROVE  /\ Head(t) = t[1] /\ Last(t) = t[Len(t)]
           /\ \A i \in 1..(Len(t) - 1) : Front(t)[i] = t[i] /\ Tail(t)[i] = t[i + 1]
<1>1. t \in Seq(Identifier) /\ Len(t) \in Nat /\ Len(t) > 0 BY TextEnds
<1>2. Last(t) = t[Len(t)] /\ \A i \in 1..(Len(t) - 1) : Front(t)[i] = t[i]
  BY <1>1, FrontAndLast
<1>3. Head(t) = t[1] OBVIOUS
<1>4. \A i \in 1..(Len(t) - 1) : Tail(t)[i] = t[i + 1] BY <1>1
<1> QED BY <1>2, <1>3, <1>4

LEMMA SameText ==
    ASSUME NEW s \in Seq(Identifier), NEW t \in Seq(Identifier), Len(s) = Len(t),
           \A i \in 1..Len(s) : s[i] = t[i]
    PROVE  s = t
BY SeqEqual

LEMMA LongerName ==
    ASSUME NEW t \in Texts
    PROVE  /\ Len(t) = 1 \/ Len(t) > 1
           /\ Len(t) > 1 => Len(t) # 1 /\ t # EmptyText
           /\ Len(t) = 1 => ~IsRooted(t)
<1>1. Len(t) \in Nat /\ Len(t) > 0 BY TextEnds
<1>2. Len(t) = 1 \/ Len(t) > 1 BY <1>1
<1>3. Len(t) = 1 => ~(Len(t) > 1) BY <1>1
<1> QED BY <1>2, <1>3, EmptyTextIsText DEF IsRooted

\* A name is its namespace and what follows the last "::".
LEMMA TailOfName ==
    ASSUME NEW t \in Texts, Len(t) > 1
    PROVE  Append(Tail(Front(t)), Last(t)) = Tail(t)
<1> DEFINE front == Front(t)
           middle == Tail(front)
           s == Append(middle, Last(t))
<1>1. /\ Len(t) \in Nat /\ Last(t) \in Identifier /\ Last(t) = t[Len(t)]
      /\ front \in Seq(Identifier) /\ Len(front) = Len(t) - 1
      /\ \A i \in 1..(Len(t) - 1) : front[i] = t[i] /\ Tail(t)[i] = t[i + 1]
      /\ Tail(t) \in Seq(Identifier) /\ Len(Tail(t)) = Len(t) - 1
  BY TextEnds, TextElements
<1> HIDE DEF front
<1>2. front \in Texts BY <1>1, EmptySeq DEF Texts
<1>3. /\ middle \in Seq(Identifier) /\ Len(middle) = Len(t) - 2
      /\ \A i \in 1..(Len(t) - 2) : middle[i] = front[i + 1]
  <2>1. Len(front) - 1 = Len(t) - 2 BY <1>1
  <2> QED BY <1>2, <2>1, TextEnds, TextElements
<1> HIDE DEF middle
<1>4. /\ s \in Seq(Identifier) /\ Len(s) = Len(t) - 1
      /\ \A i \in 1..(Len(t) - 2) : s[i] = middle[i]
      /\ s[Len(t) - 1] = Last(t)
  BY <1>1, <1>3
<1> HIDE DEF s
<1>5. ASSUME NEW i \in 1..Len(s) PROVE s[i] = Tail(t)[i]
  <2>1. i \in 1..(Len(t) - 1) BY <1>1, <1>4
  <2>2. CASE i \in 1..(Len(t) - 2)
    <3>1. i + 1 \in 1..(Len(t) - 1) BY <1>1, <2>2
    <3> QED BY <1>1, <1>3, <1>4, <2>1, <2>2, <3>1
  <2>3. CASE i = Len(t) - 1
    <3>1. i + 1 = Len(t) BY <1>1, <2>3
    <3> QED BY <1>1, <1>4, <2>1, <2>3, <3>1
  <2> QED BY <1>1, <2>1, <2>2, <2>3
<1>6. s = Tail(t) BY <1>1, <1>4, <1>5, SameText
<1> QED BY <1>6 DEF s, middle, front

\* What SplitName makes of a name that is not empty.
LEMMA SplitOf ==
    ASSUME NEW t \in Texts, t # EmptyText
    PROVE  /\ SplitName(t).ns = IF Len(t) = 1 THEN NoNs ELSE Front(t)
           /\ SplitName(t).name = Last(t)
           /\ SplitName(t).absolute = IsRooted(t)
           /\ Len(t) > 1 => Front(t) # NoNs /\ Front(t) \in Texts
BY TextEnds, EmptySeq DEF SplitName, NoNs, Texts

\* An absolute namespace without its leading "::".
LEMMA RootTakenOff ==
    ASSUME NEW qn, qn.ns # NoNs, qn.absolute
    PROVE  NamespaceParts(qn) = Tail(qn.ns)
BY EmptyTail DEF NamespaceParts

LEMMA PartsOfProper ==
    ASSUME NEW t \in Texts, Proper(t)
    PROVE  Parts(SplitName(t)) = Tail(t)
<1>1. CASE t = EmptyText
  <2>1. SplitName(t) = [ns |-> EmptyText, name |-> E, absolute |-> TRUE]
    BY <1>1 DEF SplitName
  <2>2. EmptyText # NoNs BY EmptyTextIsText DEF Texts, NoNs
  <2>3. NamespaceParts(SplitName(t)) = Tail(EmptyText) BY <2>1, <2>2, RootTakenOff
  <2>4. Parts(SplitName(t)) = Tail(EmptyText)
    <3>1. SplitName(t).name = E BY <2>1
    <3> QED BY <2>3, <3>1 DEF Parts
  <2> QED BY <1>1, <2>4
<1>2. CASE t # EmptyText
  <2>1. IsRooted(t) /\ Last(t) # E /\ Len(t) > 1 BY <1>2 DEF Proper, IsRooted
  <2>2. Len(t) # 1 BY <2>1, LongerName
  <2>3. /\ SplitName(t).ns = Front(t) /\ SplitName(t).name = Last(t)
        /\ SplitName(t).absolute /\ Front(t) # NoNs
    BY <1>2, <2>1, <2>2, SplitOf
  <2>4. NamespaceParts(SplitName(t)) = Tail(Front(t)) BY <2>3, RootTakenOff
  <2> QED BY <2>1, <2>3, <2>4, TailOfName DEF Parts
<1> QED BY <1>1, <1>2

\* A proper text and names below it.
LEMMA ProperExtended ==
    ASSUME NEW s \in Texts, Proper(s), NEW t \in Texts, Last(t) # E
    PROVE  /\ s \o t \in Texts /\ Proper(s \o t)
           /\ Tail(s \o t) = Tail(s) \o t
<1> DEFINE w == s \o t
<1>1. /\ s \in Seq(Identifier) /\ t \in Seq(Identifier)
      /\ Len(s) \in Nat /\ Len(t) \in Nat /\ Len(s) > 0 /\ Len(t) > 0
      /\ Tail(s) \in Seq(Identifier) /\ Len(Tail(s)) = Len(s) - 1
  BY TextEnds
<1>2. Head(s) = E
  <2>1. CASE s = EmptyText BY <2>1 DEF EmptyText
  <2>2. CASE s # EmptyText BY <2>2 DEF Proper, IsRooted
  <2> QED BY <2>1, <2>2
<1>3. w \in Texts BY TextsJoined
<1>4. /\ Len(w) = Len(s) + Len(t)
      /\ \A i \in 1..Len(s) : w[i] = s[i]
      /\ \A i \in 1..Len(t) : w[Len(s) + i] = t[i]
  BY <1>1
<1> HIDE DEF w
<1>5. Head(w) = E /\ Len(w) > 1 /\ Last(w) # E
  <2>1. 1 \in 1..Len(s) /\ Len(t) \in 1..Len(t) BY <1>1
  <2>2. Head(w) = w[1] /\ Last(w) = w[Len(w)] /\ Head(s) = s[1] /\ Last(t) = t[Len(t)]
    BY <1>3, TextElements
  <2> QED BY <1>1, <1>2, <1>4, <2>1, <2>2
<1>6. Tail(w) = Tail(s) \o t
  <2> DEFINE front == Tail(s)
             v == front \o t
  <2>1. /\ front \in Seq(Identifier) /\ Len(front) = Len(s) - 1
        /\ \A i \in 1..(Len(s) - 1) : front[i] = s[i + 1]
    BY <1>1, TextElements
  <2> HIDE DEF front
  <2>2. /\ v \in Seq(Identifier) /\ Len(v) = (Len(s) - 1) + Len(t)
        /\ \A i \in 1..Len(front) : v[i] = front[i]
        /\ \A i \in 1..Len(t) : v[Len(front) + i] = t[i]
    <3>1. v \in Seq(Identifier) /\ Len(v) = Len(front) + Len(t)
      BY <1>1, <2>1, JoinedLength
    <3>2. /\ \A i \in 1..Len(front) : v[i] = front[i]
          /\ \A i \in 1..Len(t) : v[Len(front) + i] = t[i]
      BY <1>1, <2>1
    <3> QED BY <2>1, <3>1, <3>2
  <2> HIDE DEF v
  <2>3. /\ Tail(w) \in Seq(Identifier) /\ Len(Tail(w)) = Len(w) - 1
        /\ \A i \in 1..(Len(w) - 1) : Tail(w)[i] = w[i + 1]
    BY <1>3, TextEnds, TextElements
  <2>4. Len(Tail(w)) = Len(v) BY <1>1, <1>4, <2>2, <2>3
  <2>5. ASSUME NEW i \in 1..Len(Tail(w)) PROVE Tail(w)[i] = v[i]
    <3>1. i \in 1..(Len(w) - 1) /\ Tail(w)[i] = w[i + 1] BY <2>3
    <3>2. CASE i \in 1..(Len(s) - 1)
      <4>1. i + 1 \in 1..Len(s) /\ i \in 1..Len(front) BY <1>1, <2>1, <3>2
      <4> QED BY <1>4, <2>1, <2>2, <3>1, <3>2, <4>1
    <3>3. CASE i \notin 1..(Len(s) - 1)
      <4> DEFINE k == i + 1 - Len(s)
      <4>1. /\ k \in 1..Len(t) /\ i + 1 = Len(s) + k /\ i = (Len(s) - 1) + k
        BY <1>1, <1>4, <3>1, <3>3
      <4> HIDE DEF k
      <4> QED BY <1>4, <2>1, <2>2, <3>1, <4>1
    <3> QED BY <3>2, <3>3
  <2>6. Tail(w) = v BY <2>2, <2>3, <2>4, <2>5, SameText
  <2> QED BY <2>6 DEF v, front
<1> QED BY <1>3, <1>5, <1>6 DEF w, Proper, IsRooted

\* What "namespace eval" and "proc" open has the name the walks look for.
LEMMA EvalFollows ==
    ASSUME NEW c, Regular(c), c.op = "eval", c.name \in Texts, c.ns \in Texts,
           Proper(c.ns)
    PROVE  /\ Follows(c.ns, Path(AbsPath(SplitName(c.name), c.ns)), EvalName(c.name))
           /\ ~EvalName(c.name).absolute
<1> DEFINE name == c.name
           ns == c.ns
           split == SplitName(name)
           inner == Path(AbsPath(split, ns))
<1>1. /\ name \in Texts /\ ns \in Texts /\ Proper(ns)
      /\ Head(name) # E /\ Last(name) # E /\ (Len(name) = 1 \/ ns = EmptyText)
      /\ Len(name) \in Nat /\ Len(name) > 0 /\ name \in Seq(Identifier)
      /\ ns \in Seq(Identifier)
  BY TextEnds DEF Regular
<1>2. /\ NamespaceParts(EvalName(name)) = name /\ ~EvalName(name).absolute
  <2>1. name # NoNs BY <1>1 DEF Texts, NoNs
  <2>2. EvalName(name).ns = name /\ ~EvalName(name).absolute BY DEF EvalName
  <2> QED BY <2>1, <2>2 DEF NamespaceParts
<1>3. name # EmptyText /\ ~IsRooted(name)
  <2>1. Head(EmptyText) = E BY DEF EmptyText
  <2> QED BY <1>1, <2>1 DEF IsRooted
<1>4. /\ split \in QualifiedNames
      /\ split.ns = (IF Len(name) = 1 THEN NoNs ELSE Front(name))
      /\ split.name = Last(name) /\ ~split.absolute
      /\ Len(name) > 1 => Front(name) # NoNs /\ Front(name) \in Texts
  BY <1>1, <1>3, SplitOf, SplitNameIsQualified
<1>5. split = [ns |-> split.ns, name |-> split.name, absolute |-> split.absolute]
  BY <1>4 DEF QualifiedNames
<1>6. inner = ns \o name
  <2> DEFINE end == <<Last(name)>>
  <2>1. Last(name) \in Identifier /\ end \in Seq(Identifier) /\ Len(end) = 1
        /\ end[1] = Last(name)
    BY <1>1, TextEnds
  <2>2. CASE Len(name) = 1
    <3>1. name = end
      <4>1. Last(name) = name[1] BY <1>1, <2>2, TextElements
      <4> HIDE DEF end
      <4> QED BY <1>1, <2>1, <2>2, <4>1, SameText
    <3>2. split.ns = NoNs BY <1>4, <2>2
    <3>3. AbsPath(split, ns) = [split EXCEPT !.ns = ns]
      <4>1. CASE ns = EmptyText BY <1>4, <3>2, <4>1 DEF AbsPath
      <4>2. CASE ns # EmptyText BY <1>4, <3>2, <4>2 DEF AbsPath
      <4> QED BY <4>1, <4>2
    <3>4. AbsPath(split, ns).ns = ns /\ AbsPath(split, ns).name = Last(name)
      BY <1>4, <1>5, <3>3
    <3>5. ns # NoNs BY <1>1 DEF Texts, NoNs
    <3> QED BY <3>1, <3>4, <3>5 DEF Path, Joined
  <2>3. CASE Len(name) # 1
    <3> DEFINE front == Front(name)
    <3>1. /\ ns = EmptyText /\ Len(name) > 1 /\ split.ns = front
          /\ front # NoNs /\ front \in Texts /\ Len(front) = Len(name) - 1
          /\ front \in Seq(Identifier)
      <4>1. Len(name) > 1 BY <1>1, <2>3, LongerName
      <4>2. front \in Seq(Identifier) /\ Len(front) = Len(name) - 1
        BY <1>1, TextEnds
      <4> QED BY <1>1, <1>4, <2>3, <4>1, <4>2
    <3>2. AbsPath(split, ns) = [split EXCEPT !.ns = Rooted(front)]
      <4> HIDE DEF front
      <4> QED BY <1>4, <3>1 DEF AbsPath
    <3>3. /\ AbsPath(split, ns).ns = Rooted(front)
          /\ AbsPath(split, ns).name = Last(name)
      BY <1>4, <1>5, <3>2
    <3>4. front \o end = name
      <4>1. \A i \in 1..(Len(name) - 1) : front[i] = name[i] BY <1>1, TextElements
      <4>2. Last(name) = name[Len(name)] BY <1>1, TextElements
      <4> HIDE DEF front, end
      <4> DEFINE w == front \o end
      <4>3. w \in Seq(Identifier) /\ Len(w) = Len(name)
        <5>1. w \in Seq(Identifier) /\ Len(w) = Len(front) + 1
          BY <2>1, <3>1, JoinedLength
        <5> QED BY <1>1, <3>1, <5>1
      <4>4. /\ \A i \in 1..Len(front) : w[i] = front[i]
            /\ w[Len(front) + 1] = end[1]
        <5>1. \A i \in 1..(Len(front) + Len(end)) :
                 w[i] = IF i <= Len(front) THEN front[i] ELSE end[i - Len(front)]
          BY <2>1, <3>1, ConcatProperties
        <5>2. Len(front) \in Nat /\ Len(end) = 1 BY <1>1, <2>1, <3>1
        <5> HIDE DEF w
        <5>3. ASSUME NEW i \in 1..Len(front) PROVE w[i] = front[i]
          <6>1. i \in 1..(Len(front) + Len(end)) /\ i <= Len(front) BY <5>2
          <6> QED BY <5>1, <6>1
        <5>4. w[Len(front) + 1] = end[1]
          <6> DEFINE i == Len(front) + 1
          <6>1. i \in 1..(Len(front) + Len(end)) /\ ~(i <= Len(front))
                /\ i - Len(front) = 1
            BY <5>2
          <6> QED BY <5>1, <6>1
        <5> QED BY <5>3, <5>4
      <4> HIDE DEF w
      <4>5. ASSUME NEW i \in 1..Len(w) PROVE w[i] = name[i]
        <5>1. CASE i \in 1..(Len(name) - 1) BY <3>1, <4>1, <4>4, <5>1
        <5>2. CASE i = Len(name)
          <6>1. Len(front) + 1 = Len(name) BY <1>1, <3>1
          <6> QED BY <2>1, <4>2, <4>4, <5>2, <6>1
        <5> QED BY <1>1, <4>3, <5>1, <5>2
      <4>6. w = name BY <1>1, <4>3, <4>5, SameText
      <4> QED BY <4>6 DEF w
    <3>5. Rooted(front) # NoNs BY <3>1, TextsJoined DEF Texts, NoNs
    <3>6. inner = Rooted(front) \o end BY <3>3, <3>5 DEF Path, Joined
    <3>7. Rooted(front) = ns \o front BY <3>1 DEF Rooted, EmptyText
    <3>8. (ns \o front) \o end = ns \o (front \o end)
      <4> HIDE DEF front, end
      <4> QED BY <1>1, <2>1, <3>1, ConcatAssociative
    <3> QED BY <3>4, <3>6, <3>7, <3>8
  <2> QED BY <2>2, <2>3
<1> HIDE DEF inner, split, name, ns
<1>7. inner \in Texts /\ Proper(inner) /\ Tail(inner) = Tail(ns) \o name
  BY <1>1, <1>6, ProperExtended
<1> QED BY <1>2, <1>7 DEF Follows, inner, split, name, ns

\* The namespace of a name that has one.
LEMMA ProperFront ==
    ASSUME NEW t \in Texts, Len(t) > 1, IsRooted(t), Len(t) = 2 \/ t[Len(t) - 1] # E
    PROVE  Front(t) \in Texts /\ Proper(Front(t))
<1> DEFINE front == Front(t)
<1>1. /\ Len(t) \in Nat /\ front \in Seq(Identifier) /\ Len(front) = Len(t) - 1
      /\ \A i \in 1..(Len(t) - 1) : front[i] = t[i]
      /\ t[1] = E
  BY TextEnds, TextElements DEF IsRooted
<1> HIDE DEF front
<1>2. front \in Texts BY <1>1, EmptySeq DEF Texts
<1>3. Head(front) = front[1] /\ Last(front) = front[Len(front)]
  BY <1>2, TextElements
<1>4. front[1] = E /\ front[Len(front)] = t[Len(t) - 1] BY <1>1
<1>5. CASE Len(t) = 2
  <2>1. Len(front) = 1 BY <1>1, <1>5
  <2>2. front = EmptyText
    <3>1. EmptyText \in Seq(Identifier) /\ Len(EmptyText) = 1 /\ EmptyText[1] = E
      BY EmptyTextIsText DEF Texts, EmptyText
    <3>2. \A i \in 1..1 : front[i] = EmptyText[i] BY <1>4, <3>1
    <3> QED BY <1>1, <2>1, <3>1, <3>2, SameText
  <2> QED BY <1>2, <2>2 DEF Proper, front
<1>6. CASE Len(t) # 2
  <2>1. Len(front) > 1 BY <1>1, <1>6
  <2> QED BY <1>2, <1>3, <1>4, <1>6, <2>1 DEF Proper, IsRooted, front
<1> QED BY <1>5, <1>6

LEMMA ProcFollows ==
    ASSUME NEW c, Regular(c), c.op = "proc", c.name \in Texts, c.ns \in Texts,
           Proper(c.ns)
    PROVE  Follows(c.ns, Namespace(AbsPath(SplitName(c.name), c.ns)), SplitName(c.name))
<1> DEFINE name == c.name
           ns == c.ns
           split == SplitName(name)
           inner == Namespace(AbsPath(split, ns))
<1>1. /\ name \in Texts /\ ns \in Texts /\ Proper(ns)
      /\ Len(name) > 1 => /\ IsRooted(name) \/ ns = EmptyText
                          /\ Len(name) = 2 \/ name[Len(name) - 1] # E
      /\ Len(name) \in Nat /\ Len(name) > 0 /\ ns \in Seq(Identifier)
      /\ ns # NoNs
  BY TextEnds DEF Regular, Texts, NoNs
<1>2. split \in QualifiedNames BY <1>1, SplitNameIsQualified
<1>3. split = [ns |-> split.ns, name |-> split.name, absolute |-> split.absolute]
  BY <1>2 DEF QualifiedNames
<1> HIDE DEF name, ns
<1>4. CASE name = EmptyText
  <2>1. split = [ns |-> EmptyText, name |-> E, absolute |-> TRUE]
    BY <1>4 DEF SplitName
  <2>2. EmptyText # NoNs /\ EmptyText \in Texts BY EmptyTextIsText DEF Texts, NoNs
  <2>3. AbsPath(split, ns) = split BY <2>1 DEF AbsPath
  <2>4. inner = EmptyText BY <2>1, <2>2, <2>3 DEF Namespace
  <2>5. NamespaceParts(split) = Tail(EmptyText) BY <2>1, <2>2, RootTakenOff
  <2>6. split.absolute BY <2>1
  <2> HIDE DEF split, inner
  <2>7. Follows(ns, inner, split) BY <2>2, <2>4, <2>5, <2>6 DEF Follows, Proper
  <2> QED BY <2>7 DEF inner, split, name, ns
<1>5. CASE name # EmptyText /\ Len(name) = 1
  <2>1. split.ns = NoNs /\ ~split.absolute
    BY <1>1, <1>5, SplitOf, LongerName
  <2>2. AbsPath(split, ns) = [split EXCEPT !.ns = ns]
    <3>1. CASE ns = EmptyText BY <2>1, <3>1 DEF AbsPath
    <3>2. CASE ns # EmptyText BY <2>1, <3>2 DEF AbsPath
    <3> QED BY <3>1, <3>2
  <2>3. AbsPath(split, ns).ns = ns BY <1>3, <2>2
  <2>4. inner = ns BY <1>1, <2>3 DEF Namespace
  <2>5. NamespaceParts(split) = <<>> BY <2>1 DEF NamespaceParts
  <2>6. Tail(ns) \o <<>> = Tail(ns)
    <3> DEFINE tail == Tail(ns)
    <3>1. tail \in Seq(Identifier) BY <1>1, TextEnds
    <3> HIDE DEF tail
    <3>2. tail \o <<>> = tail BY <3>1, ConcatEmptySeq
    <3> QED BY <3>2 DEF tail
  <2> HIDE DEF split, inner
  <2>7. Follows(ns, inner, split) BY <1>1, <2>1, <2>4, <2>5, <2>6 DEF Follows
  <2> QED BY <2>7 DEF inner, split, name, ns
<1>6. CASE Len(name) > 1 /\ IsRooted(name)
  <2>1. name # EmptyText BY <1>1, <1>6, LongerName
  <2>2. Len(name) # 1 BY <1>1, <1>6, LongerName
  <2>3. /\ split.ns = Front(name) /\ split.absolute /\ Front(name) # NoNs
    BY <1>1, <1>6, <2>1, <2>2, SplitOf
  <2>4. AbsPath(split, ns) = split BY <2>3 DEF AbsPath
  <2>5. inner = Front(name) BY <2>3, <2>4 DEF Namespace
  <2>6. NamespaceParts(split) = Tail(Front(name)) BY <2>3, RootTakenOff
  <2>7. Front(name) \in Texts /\ Proper(Front(name)) BY <1>1, <1>6, ProperFront
  <2> HIDE DEF split, inner
  <2>8. Follows(ns, inner, split) BY <2>3, <2>5, <2>6, <2>7 DEF Follows
  <2> QED BY <2>8 DEF inner, split, name, ns
<1>7. CASE Len(name) > 1 /\ ~IsRooted(name)
  <2> DEFINE front == Front(name)
  <2>1. name # EmptyText BY <1>1, <1>7, LongerName
  <2>2. Len(name) # 1 BY <1>1, <1>7, LongerName
  <2>3. /\ split.ns = front /\ ~split.absolute /\ front # NoNs /\ front \in Texts
        /\ ns = EmptyText
    BY <1>1, <1>7, <2>1, <2>2, SplitOf
  <2>4. Last(front) # E
    <3>1. /\ Len(front) = Len(name) - 1
          /\ \A i \in 1..(Len(name) - 1) : front[i] = name[i]
          /\ Head(name) = name[1] /\ Last(front) = front[Len(front)]
      BY <1>1, <2>3, TextEnds, TextElements
    <3>2. name[1] # E BY <1>7, <3>1 DEF IsRooted
    <3> HIDE DEF front
    <3>3. Len(name) - 1 \in 1..(Len(name) - 1) BY <1>1, <1>7
    <3>4. Last(front) = name[Len(name) - 1] BY <3>1, <3>3
    <3>5. Len(name) = 2 => Len(name) - 1 = 1 OBVIOUS
    <3> QED BY <1>1, <1>7, <3>2, <3>4, <3>5
  <2>5. AbsPath(split, ns) = [split EXCEPT !.ns = Rooted(front)]
    <3> HIDE DEF front
    <3> QED BY <2>3 DEF AbsPath
  <2>6. AbsPath(split, ns).ns = Rooted(front) BY <1>3, <2>5
  <2> HIDE DEF front
  <2>7. Rooted(front) # NoNs /\ Rooted(front) = ns \o front
    BY <2>3, TextsJoined DEF Texts, NoNs, Rooted, EmptyText
  <2>8. inner = ns \o front BY <2>6, <2>7 DEF Namespace
  <2>9. inner \in Texts /\ Proper(inner) /\ Tail(inner) = Tail(ns) \o front
    <3> HIDE DEF inner
    <3> QED BY <1>1, <2>3, <2>4, <2>8, ProperExtended
  <2>10. NamespaceParts(split) = front
    <3> HIDE DEF split
    <3> QED BY <2>3 DEF NamespaceParts
  <2> HIDE DEF split, inner
  <2>11. Follows(ns, inner, split) BY <2>3, <2>9, <2>10 DEF Follows
  <2> QED BY <2>11 DEF inner, split, name, ns
<1> QED BY <1>1, <1>4, <1>5, <1>6, <1>7, LongerName

-----------------------------------------------------------------------------
(* FindNamespace in a table that grows.                                    *)

LEMMA FindChildStays ==
    ASSUME NEW t \in Trees, NEW u \in Trees, Grown(t, u),
           NEW id \in 0..Len(t), NEW part, FindChild(t, id, part) # 0
    PROVE  id # 0 /\ FindChild(u, id, part) = FindChild(t, id, part)
<1>1. id # 0 /\ ChildNamed(t, id, part) # {} BY DEF FindChild
<1>2. id \in 1..Len(t)
  <2>1. Len(t) \in Nat BY RowsOfTree
  <2> QED BY <1>1, <2>1
<1>3. PICK c \in ChildNamed(t, id, part) : TRUE BY <1>1
<1>4. ChildNamed(t, id, part) = {c} BY <1>2, ChildIsUnique
<1>5. ChildNamed(u, id, part) = {c} BY <1>2, ChildStays
<1> QED BY <1>1, <1>4, <1>5 DEF FindChild

LEMMA FindsDescended ==
    ASSUME NEW d \in Places, NEW part \in Identifier, NEW e, e = Descend(d, part),
           NEW u \in Trees, Grown(e.table, u)
    PROVE  FindChild(u, d.id, part) = e.id
<1>1. /\ Descend([table |-> u, id |-> d.id], part) = [table |-> u, id |-> e.id]
      /\ FindChild(u, d.id, part) = e.id
  BY DescendAgain
<1> QED BY <1>1

\* From place to place, by a name at a time.
Down(h, t, N, parts) ==
    /\ h[0] = Global
    /\ \A n \in 0..N : h[n] \in 0..Len(t)
    /\ \A n \in 1..N : h[n] = FindChild(t, h[n - 1], parts[n])

\* What goes down by the same names in both tables comes to the same place.
LEMMA DescentStays ==
    ASSUME NEW t \in Trees, NEW u \in Trees, Grown(t, u), NEW N \in Nat, NEW parts,
           NEW h, Down(h, t, N, parts), NEW g, Down(g, u, N, parts), h[N] # 0
    PROVE  g[N] = h[N]
<1>0. /\ h[0] = Global /\ g[0] = Global
      /\ \A n \in 0..N : h[n] \in 0..Len(t)
      /\ \A n \in 1..N : h[n] = FindChild(t, h[n - 1], parts[n])
      /\ \A n \in 1..N : g[n] = FindChild(u, g[n - 1], parts[n])
  BY DEF Down
<1> DEFINE S == {n \in 0..N : h[n] # 0 => g[n] = h[n]}
<1>1. 0 \in S BY <1>0
<1>2. ASSUME NEW n \in 1..N, n - 1 \in S PROVE n \in S
  <2>1. n \in 0..N /\ n - 1 \in 0..N OBVIOUS
  <2>2. h[n - 1] # 0 => g[n - 1] = h[n - 1] BY <1>2, <2>1
  <2>3. h[n - 1] \in 0..Len(t) BY <1>0, <2>1
  <2>4. h[n] = FindChild(t, h[n - 1], parts[n]) /\ g[n] = FindChild(u, g[n - 1], parts[n])
    BY <1>0
  <2>5. h[n] # 0 => g[n] = h[n] BY <2>2, <2>3, <2>4, FindChildStays
  <2> QED BY <2>1, <2>5
<1> HIDE DEF S
<1>3. \A n \in 0..N : n \in S BY <1>1, <1>2, Stepwise
<1>4. N \in S BY <1>3
<1> QED BY <1>4 DEF S

LEMMA FindNamespaceStays ==
    ASSUME NEW t \in Trees, NEW u \in Trees, Grown(t, u), NEW text,
           Parts(SplitName(text)) \in Seq(Identifier), FindNamespace(t, text) # 0
    PROVE  FindNamespace(u, text) = FindNamespace(t, text)
<1> DEFINE parts == Parts(SplitName(text))
           N == Len(parts)
<1>1. N \in Nat /\ N \in 0..N OBVIOUS
<1>2. PICK h : Descends(h, t, text) /\ FindNamespace(t, text) = h[N]
  BY FindNamespaceDescends
<1>3. PICK g : Descends(g, u, text) /\ FindNamespace(u, text) = g[N]
  BY FindNamespaceDescends
<1>4. Down(h, t, N, parts) BY <1>2 DEF Descends, Down
<1>5. Down(g, u, N, parts) BY <1>3 DEF Descends, Down
<1> HIDE DEF parts, N
<1>6. h[N] # 0 BY <1>2
<1>7. g[N] = h[N] BY <1>1, <1>4, <1>5, <1>6, DescentStays
<1> QED BY <1>2, <1>3, <1>7

\* Where ResolveNamespace goes for a name, FindNamespace comes to for the text
\* that follows.
LEMMA FindsResolved ==
    ASSUME NEW t \in Trees, NEW outer \in Texts, Proper(outer),
           FindNamespace(t, outer) \in 1..Len(t),
           NEW qn, NamespaceParts(qn) \in Seq(Identifier),
           NEW inner, Follows(outer, inner, qn),
           NEW r, r = ResolveNamespace(t, qn, FindNamespace(t, outer)),
           NEW u \in Trees, Grown(r.table, u)
    PROVE  FindNamespace(u, inner) = r.id
<1> DEFINE parts == NamespaceParts(qn)
           N == Len(parts)
           above == IF qn.absolute THEN <<>> ELSE Tail(outer)
           M == Len(above)
           whole == Tail(inner)
           id == FindNamespace(t, outer)
<1>1. /\ Parts(SplitName(outer)) = Tail(outer) /\ Tail(outer) \in Seq(Identifier)
      /\ inner \in Texts /\ Parts(SplitName(inner)) = whole
  BY PartsOfProper, TextEnds DEF Follows
<1>2. above \in Seq(Identifier) /\ parts \in Seq(Identifier)
  BY <1>1, EmptySeq
<1>3. whole = above \o parts
  <2>1. <<>> \o parts = parts BY <1>2, ConcatEmptySeq
  <2> QED BY <2>1 DEF Follows
<1>4. PICK f : Goes(f, t, qn, id) /\ r = f[N] BY ResolveGoes
<1>5. /\ \A n \in 0..N : f[n] \in Places
      /\ \A n \in 0..N : Grown(t, f[n].table) /\ Grown(f[n].table, r.table)
  BY <1>4, GoesGrows
<1>6. /\ f[0].id = IF qn.absolute THEN Global ELSE id
      /\ \A n \in 1..N : f[n] = Descend(f[n - 1], parts[n])
  BY <1>4 DEF Goes, Start
<1>7. whole \in Seq(Identifier)
  <2> HIDE DEF whole, above, parts
  <2> QED BY <1>2, <1>3, JoinedLength
<1>8. PICK g : Descends(g, u, inner) /\ FindNamespace(u, inner) = g[Len(whole)]
  BY <1>1, <1>7, FindNamespaceDescends
<1>9. PICK h : /\ Descends(h, t, outer) /\ id = h[Len(Tail(outer))]
  BY <1>1, FindNamespaceDescends
<1>10. Down(h, t, Len(Tail(outer)), Tail(outer)) /\ id # 0
  <2> DEFINE names == Parts(SplitName(outer))
  <2>1. /\ h \in [0..Len(names) -> 0..Len(t)] /\ h[0] = Global
        /\ \A n \in 1..Len(names) : h[n] = FindChild(t, h[n - 1], names[n])
    BY <1>9 DEF Descends
  <2> HIDE DEF names
  <2>2. Down(h, t, Len(names), names) BY <2>1 DEF Down
  <2> QED BY <1>1, <2>2 DEF names
<1>11. /\ g[0] = Global
       /\ \A n \in 0..Len(whole) : g[n] \in 0..Len(u)
       /\ \A n \in 1..Len(whole) : g[n] = FindChild(u, g[n - 1], whole[n])
  BY <1>1, <1>8 DEF Descends
<1> HIDE DEF id, whole
<1>12. /\ N \in Nat /\ M \in Nat /\ Len(whole) = M + N
       /\ \A n \in 1..M : n \in 1..Len(whole) /\ whole[n] = above[n]
       /\ \A n \in 1..N : M + n \in 1..Len(whole) /\ whole[M + n] = parts[n]
  <2> HIDE DEF above, parts
  <2>1. N \in Nat /\ M \in Nat /\ Len(whole) = M + N BY <1>2, <1>3, JoinedLength
  <2>2. \A i \in 1..(M + N) : whole[i] = IF i <= M THEN above[i] ELSE parts[i - M]
    BY <1>2, <1>3, ConcatProperties
  <2>3. ASSUME NEW n \in 1..M PROVE n \in 1..(M + N) /\ n <= M BY <2>1
  <2>4. ASSUME NEW n \in 1..N
        PROVE  M + n \in 1..(M + N) /\ ~(M + n <= M) /\ (M + n) - M = n
    BY <2>1
  <2> QED BY <2>1, <2>2, <2>3, <2>4
<1>13. Grown(t, u)
  <2>1. N \in 0..N BY <1>12
  <2>2. r.table \in Trees /\ Grown(t, r.table) BY <1>4, <1>5, <2>1 DEF Places
  <2> QED BY <2>2, GrownTransitive
<1>14. g[M] = f[0].id
  <2>1. CASE qn.absolute
    <3>1. M = 0 BY <2>1
    <3> HIDE DEF M
    <3> QED BY <1>6, <1>11, <2>1, <3>1
  <2>2. CASE ~qn.absolute
    <3>1. above = Tail(outer) BY <2>2
    <3>2. h[M] = id BY <1>9, <3>1
    <3> HIDE DEF above, parts
    <3>3. Down(g, u, M, above)
      <4>1. \A n \in 0..M : n \in 0..Len(whole) BY <1>12
      <4> QED BY <1>11, <1>12, <4>1 DEF Down
    <3>4. Down(h, t, M, above) /\ h[M] # 0 BY <1>10, <3>1, <3>2
    <3> HIDE DEF M
    <3>5. g[M] = h[M] BY <1>12, <1>13, <3>3, <3>4, DescentStays
    <3> QED BY <1>6, <2>2, <3>2, <3>5
  <2> QED BY <2>1, <2>2
<1> HIDE DEF above, M, parts, N
<1> DEFINE S == {n \in 0..N : g[M + n] = f[n].id}
<1>15. 0 \in S
  <2>1. M + 0 = M /\ 0 \in 0..N BY <1>12
  <2> QED BY <1>14, <2>1
<1>16. ASSUME NEW n \in 1..N, n - 1 \in S PROVE n \in S
  <2>1. n \in 0..N /\ n - 1 \in 0..N /\ (M + n) - 1 = M + (n - 1) BY <1>12
  <2>2. g[M + n] = FindChild(u, g[M + (n - 1)], parts[n]) BY <1>11, <1>12, <2>1
  <2>3. g[M + (n - 1)] = f[n - 1].id BY <1>16
  <2>4. f[n] = Descend(f[n - 1], parts[n]) /\ f[n - 1] \in Places BY <1>5, <1>6, <2>1
  <2>5. parts[n] \in Identifier BY <1>2 DEF N
  <2>6. Grown(f[n].table, u)
    <3>1. f[n].table \in Trees /\ Grown(f[n].table, r.table) BY <1>5, <2>1 DEF Places
    <3>2. r.table \in Trees
      <4>1. N \in 0..N BY <1>12
      <4> QED BY <1>4, <1>5, <4>1 DEF Places, N, parts
    <3> QED BY <3>1, <3>2, GrownTransitive
  <2>7. FindChild(u, f[n - 1].id, parts[n]) = f[n].id
    <3> DEFINE d == f[n - 1]
               e == f[n]
               part == parts[n]
    <3>1. d \in Places /\ part \in Identifier /\ e = Descend(d, part) /\ Grown(e.table, u)
      BY <2>4, <2>5, <2>6
    <3> HIDE DEF d, e, part
    <3>2. FindChild(u, d.id, part) = e.id BY <3>1, FindsDescended
    <3> QED BY <3>2 DEF d, e, part
  <2> QED BY <2>1, <2>2, <2>3, <2>7
<1> HIDE DEF S
<1>17. \A n \in 0..N : n \in S BY <1>12, <1>15, <1>16, Stepwise
<1>18. N \in S BY <1>12, <1>17
<1>19. g[M + N] = f[N].id BY <1>18 DEF S
<1> QED BY <1>4, <1>8, <1>12, <1>19 DEF N, parts

-----------------------------------------------------------------------------
(* The second walk.                                                        *)

\* Every level of the second walk is in the namespace whose name the parser
\* noted for the calls of that level.
Agrees ==
    \A levels : Levels(levels, script) =>
        /\ Len(nsPath) = Len(levels[at - 1])
        /\ \A k \in 1..Len(nsPath) :
              /\ Proper(levels[at - 1][k])
              /\ FindNamespace(namespaces, levels[at - 1][k]) = nsPath[k]

LevelsInv == RegularScript /\ phase = "index" => Agrees

\* Where the walk is.
LEMMA NamespaceHere ==
    ASSUME IndexInv, Agrees, at \in 1..Len(script), script[at].op # "end"
    PROVE  /\ script[at].ns \in Texts /\ Proper(script[at].ns)
           /\ FindNamespace(namespaces, script[at].ns) = Here
<1>1. PICK levels : Levels(levels, script) BY DEF IndexInv, NestingInv
<1> DEFINE before == levels[at - 1]
<1>2. at - 1 \in 0..Len(script)
  <2>1. Len(script) \in Nat BY DEF IndexInv, ParseInv
  <2> QED BY <2>1
<1>3. before \in Seq(Texts) /\ Len(before) > 0 /\ script[at].ns = Last(before)
  BY <1>1, <1>2 DEF Levels
<1>4. /\ Len(nsPath) = Len(before)
      /\ \A k \in 1..Len(nsPath) : /\ Proper(before[k])
                                   /\ FindNamespace(namespaces, before[k]) = nsPath[k]
  BY <1>1 DEF Agrees
<1> HIDE DEF before
<1>5. /\ Len(before) \in Nat /\ Last(before) = before[Len(before)]
      /\ Last(before) \in Texts
  BY <1>3, FrontAndLast
<1>6. Len(nsPath) \in 1..Len(nsPath) /\ Here = nsPath[Len(nsPath)]
  <2>1. nsPath \in Seq(1..Len(namespaces)) /\ Len(nsPath) > 0
    BY DEF IndexInv, PathInv
  <2>2. Len(nsPath) \in Nat /\ Last(nsPath) = nsPath[Len(nsPath)]
    BY <2>1, FrontAndLast
  <2> QED BY <2>1, <2>2 DEF Here
<1> QED BY <1>3, <1>4, <1>5, <1>6

\* What a command of a script opens is the last of the levels behind it.
LEMMA LevelOpened ==
    ASSUME IndexInv, NEW levels, Levels(levels, script),
           NEW i \in 1..Len(script), script[i].op \in Opens,
           NEW inner, inner = CASE script[i].op = "eval" ->
                                     Path(AbsPath(SplitName(script[i].name), script[i].ns))
                                [] script[i].op = "proc" ->
                                     Namespace(AbsPath(SplitName(script[i].name), script[i].ns))
                                [] OTHER -> script[i].ns
    PROVE  /\ levels[i - 1] \in Seq(Texts)
           /\ levels[i] = Append(levels[i - 1], inner)
<1> DEFINE c == script[i]
           before == levels[i - 1]
<1>1. i - 1 \in 0..Len(script)
  <2>1. Len(script) \in Nat BY DEF IndexInv, ParseInv
  <2> QED BY <2>1
<1>2. before \in Seq(Texts) BY <1>1 DEF Levels
<1>3. levels[i] = Behind(c, before) /\ (c.op # "end" => c.ns = Last(before))
  BY DEF Levels
<1>4. c.ns = Last(before) BY <1>3 DEF Opens
<1> HIDE DEF before
<1>5. levels[i] = Append(before, inner)
  <2>1. CASE c.op = "eval"
    <3>1. inner = Path(AbsPath(SplitName(c.name), c.ns)) BY <2>1
    <3> QED BY <1>3, <1>4, <2>1, <3>1 DEF Behind
  <2>2. CASE c.op = "proc"
    <3>1. inner = Namespace(AbsPath(SplitName(c.name), c.ns)) BY <2>2
    <3> QED BY <1>3, <1>4, <2>2, <3>1 DEF Behind
  <2>3. CASE c.op = "block"
    <3>1. inner = c.ns BY <2>3
    <3> QED BY <1>3, <1>4, <2>3, <3>1 DEF Behind
  <2> QED BY <2>1, <2>2, <2>3 DEF Opens
<1> QED BY <1>2, <1>5 DEF before

\* The namespaces of the path keep their names while the table grows.
LEMMA PathKeepsNames ==
    ASSUME IndexInv, Agrees, namespaces' \in Trees, Grown(namespaces, namespaces'),
           at \in 1..(Len(script) + 1), NEW levels, Levels(levels, script),
           NEW k \in 1..Len(nsPath)
    PROVE  FindNamespace(namespaces', levels[at - 1][k]) = nsPath[k]
<1> DEFINE text == levels[at - 1][k]
<1>1. at - 1 \in 0..Len(script)
  <2>1. Len(script) \in Nat BY DEF IndexInv, ParseInv
  <2> QED BY <2>1
<1>2. levels[at - 1] \in Seq(Texts) BY <1>1 DEF Levels
<1>3. /\ Len(nsPath) = Len(levels[at - 1])
      /\ FindNamespace(namespaces, text) = nsPath[k]
  BY DEF Agrees
<1>4. text \in Texts BY <1>2, <1>3
<1>5. nsPath[k] # 0
  <2>1. nsPath \in Seq(1..Len(namespaces)) BY DEF IndexInv, PathInv
  <2>2. nsPath[k] \in 1..Len(namespaces) BY <2>1
  <2>3. Len(namespaces) \in Nat BY RowsOfTree DEF IndexInv
  <2> QED BY <2>2, <2>3
<1> HIDE DEF text
<1>6. Parts(SplitName(text)) \in Seq(Identifier)
  BY <1>4, SplitNameIsQualified, PartsOfName
<1>7. namespaces \in Trees BY DEF IndexInv
<1>8. FindNamespace(namespaces', text) = FindNamespace(namespaces, text)
  BY <1>3, <1>5, <1>6, <1>7, FindNamespaceStays
<1> QED BY <1>3, <1>8 DEF text

\* Entering a script keeps the agreement if it enters the namespace of the name.
LEMMA EnterAgrees ==
    ASSUME IndexInv, Agrees, namespaces' \in Trees, Grown(namespaces, namespaces'),
           at \in 1..Len(script), Walk, NEW id, Enter(id), NEW inner,
           \A levels : Levels(levels, script) =>
               /\ levels[at - 1] \in Seq(Texts)
               /\ levels[at] = Append(levels[at - 1], inner),
           Proper(inner), FindNamespace(namespaces', inner) = id
    PROVE  Agrees'
<1>1. at' = at + 1 /\ script' = script /\ nsPath' = Append(nsPath, id)
  BY DEF Walk, Enter
<1>2. nsPath \in Seq(1..Len(namespaces)) /\ Len(nsPath) \in Nat
  BY DEF IndexInv, PathInv
<1>3. /\ Len(nsPath') = Len(nsPath) + 1 /\ nsPath'[Len(nsPath) + 1] = id
      /\ \A k \in 1..Len(nsPath) : nsPath'[k] = nsPath[k]
  BY <1>1, <1>2
<1>4. at' - 1 = at BY <1>1
<1>5. ASSUME NEW levels, Levels(levels, script)
      PROVE  /\ Len(nsPath') = Len(levels[at])
             /\ \A k \in 1..Len(nsPath') :
                   /\ Proper(levels[at][k])
                   /\ FindNamespace(namespaces', levels[at][k]) = nsPath'[k]
  <2> DEFINE before == levels[at - 1]
             behind == levels[at]
  <2>1. before \in Seq(Texts) /\ behind = Append(before, inner) BY <1>5
  <2>2. /\ Len(nsPath) = Len(before)
        /\ \A k \in 1..Len(nsPath) : Proper(before[k])
    BY <1>5 DEF Agrees
  <2>3. at \in 1..(Len(script) + 1)
    <3>1. Len(script) \in Nat BY DEF IndexInv, ParseInv
    <3> QED BY <3>1
  <2>4. \A k \in 1..Len(nsPath) : FindNamespace(namespaces', before[k]) = nsPath[k]
    BY <1>5, <2>3, PathKeepsNames
  <2> HIDE DEF before, behind
  <2>5. /\ Len(behind) = Len(before) + 1 /\ behind[Len(before) + 1] = inner
        /\ \A k \in 1..Len(before) : behind[k] = before[k]
    BY <1>2, <2>1, <2>2
  <2>6. ASSUME NEW k \in 1..Len(nsPath')
        PROVE  Proper(behind[k]) /\ FindNamespace(namespaces', behind[k]) = nsPath'[k]
    <3>1. CASE k \in 1..Len(nsPath) BY <1>3, <2>2, <2>4, <2>5, <3>1
    <3>2. CASE k = Len(nsPath) + 1 BY <1>3, <2>2, <2>5, <3>2
    <3>3. k \in 1..Len(nsPath) \/ k = Len(nsPath) + 1 BY <1>2, <1>3
    <3> QED BY <3>1, <3>2, <3>3
  <2> QED BY <1>3, <2>2, <2>5, <2>6 DEF behind
<1> QED BY <1>1, <1>4, <1>5 DEF Agrees

LEMMA FollowAgrees ==
    ASSUME IndexInv, Agrees, at \in 1..Len(script), script[at].op \in Opens, Walk,
           NEW qn, NamespaceParts(qn) \in Seq(Identifier),
           NEW target, target = ResolveNamespace(namespaces, qn, Here),
           namespaces' = target.table, Enter(target.id),
           NEW inner, Follows(script[at].ns, inner, qn),
           \A levels : Levels(levels, script) =>
               /\ levels[at - 1] \in Seq(Texts)
               /\ levels[at] = Append(levels[at - 1], inner)
    PROVE  Agrees'
<1>1. /\ script[at].ns \in Texts /\ Proper(script[at].ns)
      /\ FindNamespace(namespaces, script[at].ns) = Here
  BY NamespaceHere DEF Opens
<1>2. namespaces \in Trees /\ Here \in 1..Len(namespaces) BY HereIsPlace
<1>3. target \in Places /\ Grown(namespaces, target.table)
  BY <1>2, ResolveLeads
<1>4. namespaces' \in Trees /\ Grown(namespaces, namespaces') BY <1>3 DEF Places
<1>5. Grown(target.table, namespaces') BY <1>4, GrownReflexive
<1>6. FindNamespace(namespaces', inner) = target.id
  <2> DEFINE outer == script[at].ns
             u == namespaces'
  <2>1. /\ outer \in Texts /\ Proper(outer) /\ Follows(outer, inner, qn)
        /\ FindNamespace(namespaces, outer) = Here
        /\ u \in Trees /\ Grown(target.table, u)
    BY <1>1, <1>4, <1>5
  <2> HIDE DEF outer, u
  <2>2. FindNamespace(u, inner) = target.id BY <1>2, <2>1, FindsResolved
  <2> QED BY <2>2 DEF u
<1>7. Proper(inner) BY DEF Follows
<1> QED BY <1>4, <1>6, <1>7, EnterAgrees

LEMMA EvalAgrees ==
    ASSUME IndexInv, RegularScript, Agrees, EvalNamespace("index") PROVE Agrees'
<1> DEFINE c == script[at]
           target == ResolveNamespace(namespaces, EvalName(c.name), Here)
           inner == Path(AbsPath(SplitName(c.name), c.ns))
<1>1. /\ at \in 1..Len(script) /\ c.op = "eval" /\ Walk
      /\ Enter(target.id) /\ namespaces' = target.table
  BY DEF EvalNamespace, At, IndexInv, ParseInv
<1>2. c.name \in Texts /\ NamespaceParts(EvalName(c.name)) \in Seq(Identifier)
  BY <1>1, CommandAt
<1>3. c.ns \in Texts /\ Proper(c.ns) BY <1>1, NamespaceHere
<1>4. Follows(c.ns, inner, EvalName(c.name))
  BY <1>1, <1>2, <1>3, EvalFollows DEF RegularScript
<1>5. \A levels : Levels(levels, script) =>
          /\ levels[at - 1] \in Seq(Texts)
          /\ levels[at] = Append(levels[at - 1], inner)
  BY <1>1, LevelOpened DEF Opens
<1>6. c.op \in Opens BY <1>1 DEF Opens
<1> HIDE DEF target, inner
<1>7. target = ResolveNamespace(namespaces, EvalName(c.name), Here) BY DEF target
<1> QED BY <1>1, <1>2, <1>4, <1>5, <1>6, <1>7, FollowAgrees

LEMMA ProcAgrees ==
    ASSUME IndexInv, RegularScript, Agrees, IndexProc PROVE Agrees'
<1> DEFINE c == script[at]
           target == ResolveNamespace(namespaces, SplitName(c.name), Here)
           inner == Namespace(AbsPath(SplitName(c.name), c.ns))
<1>1. /\ at \in 1..Len(script) /\ c.op = "proc" /\ Walk
      /\ Enter(target.id) /\ namespaces' = target.table
  BY DEF IndexProc, At, IndexInv, ParseInv
<1>2. c.name \in Texts /\ NamespaceParts(SplitName(c.name)) \in Seq(Identifier)
  BY <1>1, CommandAt
<1>3. c.ns \in Texts /\ Proper(c.ns) BY <1>1, NamespaceHere
<1>4. Follows(c.ns, inner, SplitName(c.name))
  BY <1>1, <1>2, <1>3, ProcFollows DEF RegularScript
<1>5. \A levels : Levels(levels, script) =>
          /\ levels[at - 1] \in Seq(Texts)
          /\ levels[at] = Append(levels[at - 1], inner)
  BY <1>1, LevelOpened DEF Opens
<1>6. c.op \in Opens BY <1>1 DEF Opens
<1> HIDE DEF target, inner
<1>7. target = ResolveNamespace(namespaces, SplitName(c.name), Here) BY DEF target
<1> QED BY <1>1, <1>2, <1>4, <1>5, <1>6, <1>7, FollowAgrees

LEMMA BlockAgrees ==
    ASSUME IndexInv, Agrees, EnterBlock("index") PROVE Agrees'
<1> DEFINE c == script[at]
           inner == c.ns
<1>1. /\ at \in 1..Len(script) /\ c.op = "block" /\ Walk
      /\ Enter(Here) /\ namespaces' = namespaces
  BY DEF EnterBlock, At, tables, IndexInv, ParseInv
<1>2. /\ Proper(inner) /\ FindNamespace(namespaces, inner) = Here
  BY <1>1, NamespaceHere
<1>3. namespaces' \in Trees /\ Grown(namespaces, namespaces')
  BY <1>1, GrownReflexive DEF IndexInv
<1>4. \A levels : Levels(levels, script) =>
          /\ levels[at - 1] \in Seq(Texts)
          /\ levels[at] = Append(levels[at - 1], inner)
  BY <1>1, LevelOpened DEF Opens
<1>5. FindNamespace(namespaces', inner) = Here BY <1>1, <1>2
<1> HIDE DEF inner
<1> QED BY <1>1, <1>2, <1>3, <1>4, <1>5, EnterAgrees

LEMMA LeaveAgrees ==
    ASSUME IndexInv, Agrees, Leave("index") PROVE Agrees'
<1>1. /\ at \in 1..Len(script) /\ script[at].op = "end" /\ at' = at + 1
      /\ nsPath' = Front(nsPath) /\ namespaces' = namespaces /\ script' = script
  BY DEF Leave, At, Walk, tables, IndexInv, ParseInv
<1>2. at' - 1 = at /\ at - 1 \in 0..Len(script)
  <2>1. Len(script) \in Nat BY DEF IndexInv, ParseInv
  <2> QED BY <1>1, <2>1
<1>3. nsPath \in Seq(1..Len(namespaces)) /\ Len(nsPath) > 0
  BY DEF IndexInv, PathInv
<1>4. /\ Len(nsPath) \in Nat /\ Len(nsPath') = Len(nsPath) - 1
      /\ \A k \in 1..(Len(nsPath) - 1) : nsPath'[k] = nsPath[k]
  BY <1>1, <1>3, FrontAndLast
<1>5. ASSUME NEW levels, Levels(levels, script)
      PROVE  /\ Len(nsPath') = Len(levels[at])
             /\ \A k \in 1..Len(nsPath') :
                   /\ Proper(levels[at][k])
                   /\ FindNamespace(namespaces, levels[at][k]) = nsPath'[k]
  <2> DEFINE before == levels[at - 1]
             behind == levels[at]
  <2>1. before \in Seq(Texts) /\ Len(before) > 0 BY <1>2, <1>5 DEF Levels
  <2>2. behind = Front(before)
    <3>1. behind = Behind(script[at], before) BY <1>1, <1>5 DEF Levels
    <3> HIDE DEF before, behind
    <3> QED BY <1>1, <3>1 DEF Behind
  <2>3. /\ Len(nsPath) = Len(before)
        /\ \A k \in 1..Len(nsPath) : /\ Proper(before[k])
                                     /\ FindNamespace(namespaces, before[k]) = nsPath[k]
    BY <1>5 DEF Agrees
  <2> HIDE DEF before, behind
  <2>4. /\ Len(behind) = Len(before) - 1
        /\ \A k \in 1..(Len(before) - 1) : behind[k] = before[k]
    BY <2>1, <2>2, FrontAndLast
  <2>5. \A k \in 1..Len(nsPath') : k \in 1..(Len(nsPath) - 1) /\ k \in 1..Len(nsPath)
    BY <1>4
  <2>6. \A k \in 1..Len(nsPath') : /\ Proper(behind[k])
                                   /\ FindNamespace(namespaces, behind[k]) = nsPath'[k]
    BY <1>4, <2>3, <2>4, <2>5
  <2> QED BY <1>4, <2>3, <2>4, <2>6 DEF behind
<1> QED BY <1>1, <1>2, <1>5 DEF Agrees

LEMMA CallAgrees ==
    ASSUME IndexInv, Agrees, IndexCall, namespaces' \in Trees,
           Grown(namespaces, namespaces')
    PROVE  Agrees'
<1>1. /\ at \in 1..Len(script) /\ script[at].op = "call" /\ at' = at + 1
      /\ nsPath' = nsPath /\ script' = script
  BY DEF IndexCall, At, Walk, IndexInv, ParseInv
<1>2. at' - 1 = at /\ at - 1 \in 0..Len(script) /\ at \in 1..(Len(script) + 1)
  <2>1. Len(script) \in Nat BY DEF IndexInv, ParseInv
  <2> QED BY <1>1, <2>1
<1>3. ASSUME NEW levels, Levels(levels, script)
      PROVE  /\ Len(nsPath) = Len(levels[at])
             /\ \A k \in 1..Len(nsPath) :
                   /\ Proper(levels[at][k])
                   /\ FindNamespace(namespaces', levels[at][k]) = nsPath[k]
  <2> DEFINE before == levels[at - 1]
             behind == levels[at]
  <2>1. behind = before
    <3>1. behind = Behind(script[at], before) BY <1>1, <1>3 DEF Levels
    <3> HIDE DEF before, behind
    <3> QED BY <1>1, <3>1 DEF Behind
  <2>2. /\ Len(nsPath) = Len(before)
        /\ \A k \in 1..Len(nsPath) : Proper(before[k])
    BY <1>3 DEF Agrees
  <2>3. \A k \in 1..Len(nsPath) : FindNamespace(namespaces', before[k]) = nsPath[k]
    BY <1>2, <1>3, PathKeepsNames
  <2> HIDE DEF before, behind
  <2>4. Len(nsPath) = Len(behind) BY <2>1, <2>2
  <2>5. ASSUME NEW k \in 1..Len(nsPath)
        PROVE  Proper(behind[k]) /\ FindNamespace(namespaces', behind[k]) = nsPath[k]
    <3>1. behind[k] = before[k] BY <2>1
    <3>2. Proper(before[k]) BY <2>2
    <3>3. FindNamespace(namespaces', before[k]) = nsPath[k] BY <2>3
    <3> QED BY <3>1, <3>2, <3>3
  <2> QED BY <2>4, <2>5 DEF behind
<1> QED BY <1>1, <1>2, <1>3 DEF Agrees

\* The walk begins in the global namespace.
LEMMA BeginAgrees ==
    ASSUME IndexInv', at' = 1 PROVE Agrees'
<1>1. ASSUME NEW levels, Levels(levels, script')
      PROVE  /\ Len(nsPath') = Len(levels[0])
             /\ \A k \in 1..Len(nsPath') :
                   /\ Proper(levels[0][k])
                   /\ FindNamespace(namespaces', levels[0][k]) = nsPath'[k]
  <2>1. levels[0] = <<EmptyText>> BY <1>1 DEF Levels
  <2>2. PICK l : Levels(l, script') /\ Len(nsPath') = Len(l[at' - 1])
    BY DEF IndexInv, NestingInv
  <2>3. at' - 1 = 0 /\ l[0] = <<EmptyText>> BY <2>2 DEF Levels
  <2>4. Len(nsPath') = 1 /\ Len(levels[0]) = 1 /\ levels[0][1] = EmptyText
    <3>1. Len(nsPath') = Len(l[0]) BY <2>2, <2>3
    <3>2. Len(<<EmptyText>>) = 1 /\ <<EmptyText>>[1] = EmptyText OBVIOUS
    <3> QED BY <2>1, <2>3, <3>1, <3>2
  <2>5. nsPath'[1] = Global BY DEF IndexInv, PathInv
  <2>6. FindNamespace(namespaces', EmptyText) = Global
    <3> DEFINE t == namespaces'
    <3>1. t \in Trees BY DEF IndexInv
    <3>2. EmptyText \in Texts /\ Proper(EmptyText) BY EmptyTextIsText DEF Proper
    <3>3. Parts(SplitName(EmptyText)) = <<>> BY <3>2, PartsOfProper, EmptyTail
    <3>4. Parts(SplitName(EmptyText)) \in Seq(Identifier) BY <3>3, EmptySeq
    <3> HIDE DEF t
    <3>5. PICK f : /\ Descends(f, t, EmptyText)
                   /\ FindNamespace(t, EmptyText) = f[Len(Parts(SplitName(EmptyText)))]
      BY <3>1, <3>4, FindNamespaceDescends
    <3>6. f[0] = Global BY <3>5 DEF Descends
    <3>7. Len(Parts(SplitName(EmptyText))) = 0 BY <3>3
    <3> QED BY <3>5, <3>6, <3>7 DEF t
  <2>7. \A k \in 1..Len(nsPath') : k = 1 BY <2>4
  <2> QED BY <2>4, <2>5, <2>6, <2>7 DEF Proper
<1>2. at' - 1 = 0 OBVIOUS
<1> QED BY <1>1, <1>2 DEF Agrees

-----------------------------------------------------------------------------
(* What the second walk has found of a call, a request finds again.        *)

NotedNs(i) == FindNamespace(namespaces, script[i].ns)
Found(i) == FindProc(namespaces, procs, NotedNs(i), script[i].name)
BestOf(i) == BestFitProcToCall(procs, Found(i).found, script[i].args)

\* The namespaces that the lookup of a call needs are there.
Settled(i) == NotedNs(i) # 0 /\ Found(i).table = namespaces

CallsInv ==
    RegularScript /\ phase \in {"index", "ready"} =>
        \A i \in 1..(at - 1) : script[i].op = "call" => Settled(i)

UsagesInv ==
    \A r \in ToSet(references) : r.type = "USAGE" =>
        /\ phase \in {"index", "ready"}
        /\ r.location \in 1..(at - 1) /\ script[r.location].op = "call"
        /\ RegularScript => r.id = BestOf(r.location)

\* Every proc has one definition.
DefinitionsInv ==
    \A p \in 1..Len(procs) :
        \E d \in ToSet(references) :
            /\ d.id = p /\ d.type = "DEFINITION"
            /\ \A r \in ToSet(references) : r.id = p /\ r.type = "DEFINITION" => r = d

AnsweredInv ==
    /\ answer.of # 0 => phase = "ready"
    /\ RegularScript => AnswersIncludeTheCall

LexicalInv == LevelsInv /\ CallsInv /\ UsagesInv /\ DefinitionsInv /\ AnsweredInv

LEMMA TextsFound ==
    ASSUME IndexInv, NEW i \in 1..Len(script)
    PROVE  /\ Parts(SplitName(script[i].ns)) \in Seq(Identifier)
           /\ NamespaceParts(SplitName(script[i].name)) \in Seq(Identifier)
           /\ NotedNs(i) \in 0..Len(namespaces)
           /\ NotedNs(i) # 0 => NotedNs(i) \in 1..Len(namespaces)
<1>1. /\ Parts(SplitName(script[i].ns)) \in Seq(Identifier)
      /\ NamespaceParts(SplitName(script[i].name)) \in Seq(Identifier)
  BY CommandAt
<1>2. namespaces \in Trees BY DEF IndexInv
<1>3. NotedNs(i) \in 0..Len(namespaces) BY <1>1, <1>2, FindNamespaceLeads DEF NotedNs
<1>4. Len(namespaces) \in Nat BY <1>2, RowsOfTree
<1> QED BY <1>1, <1>3, <1>4

LEMMA SettledStays ==
    ASSUME IndexInv, NEW i \in 1..Len(script), Settled(i),
           namespaces' \in Trees, Grown(namespaces, namespaces'),
           procs' = procs, script' = script
    PROVE  Settled(i)' /\ BestOf(i)' = BestOf(i)
<1> DEFINE u == namespaces'
           ns == NotedNs(i)
           r == FindProc(namespaces, procs, ns, script[i].name)
<1>1. /\ Parts(SplitName(script[i].ns)) \in Seq(Identifier)
      /\ NamespaceParts(SplitName(script[i].name)) \in Seq(Identifier)
      /\ ns \in 1..Len(namespaces) /\ ns # 0
  BY TextsFound DEF Settled
<1>2. namespaces \in Trees /\ u \in Trees /\ Grown(namespaces, u) BY DEF IndexInv
<1>3. r.table = namespaces BY DEF Settled, Found
<1> HIDE DEF u, r
<1>4. FindNamespace(u, script[i].ns) = ns
  BY <1>1, <1>2, FindNamespaceStays DEF NotedNs
<1>5. FindProc(u, procs, ns, script[i].name) =
          [table |-> u, found |-> r.found, next |-> r.next]
  <2> HIDE DEF ns
  <2>1. r = FindProc(namespaces, procs, ns, script[i].name) BY DEF r
  <2>2. Grown(r.table, u) BY <1>2, <1>3
  <2> QED BY <1>1, <1>2, <2>1, <2>2, FindProcAgain
<1>6. NotedNs(i)' = ns BY <1>4 DEF NotedNs, u
<1>7. Found(i)' = [table |-> u, found |-> r.found, next |-> r.next]
  BY <1>5, <1>6 DEF Found, u
<1>8. Found(i)'.table = u /\ Found(i)'.found = r.found BY <1>7
<1>9. Found(i).found = r.found BY DEF Found, r
<1> HIDE DEF ns
<1> QED BY <1>1, <1>6, <1>8, <1>9 DEF Settled, BestOf, u

\* The call that is indexed now.
LEMMA CallSettles ==
    ASSUME IndexInv, Agrees, NEW lookup,
           at \in 1..Len(script), script[at].op = "call",
           lookup = FindProc(namespaces, procs, Here, script[at].name),
           namespaces' = lookup.table, procs' = procs, script' = script
    PROVE  /\ namespaces' \in Trees /\ Grown(namespaces, namespaces')
           /\ \A i \in 1..Len(script) : i = at =>
                 /\ Settled(i)'
                 /\ BestOf(i)' = BestFitProcToCall(procs, lookup.found, script[at].args)
<1> DEFINE u == namespaces'
           ns == script[at].ns
<1>1. /\ Parts(SplitName(ns)) \in Seq(Identifier)
      /\ NamespaceParts(SplitName(script[at].name)) \in Seq(Identifier)
  BY TextsFound
<1>2. FindNamespace(namespaces, ns) = Here BY NamespaceHere
<1>3. namespaces \in Trees /\ Here \in 1..Len(namespaces) BY HereIsPlace
<1>4. Here # 0
  <2>1. Len(namespaces) \in Nat BY <1>3, RowsOfTree
  <2> QED BY <1>3, <2>1
<1>5. u \in Trees /\ Grown(namespaces, u) BY <1>1, <1>3, FindProcLeads
<1>6. Grown(lookup.table, u) BY <1>5, GrownReflexive
<1> HIDE DEF u, ns
<1>7. FindNamespace(u, ns) = Here
  BY <1>1, <1>2, <1>3, <1>4, <1>5, FindNamespaceStays
<1>8. FindProc(u, procs, Here, script[at].name) =
          [table |-> u, found |-> lookup.found, next |-> lookup.next]
  BY <1>1, <1>3, <1>5, <1>6, FindProcAgain
<1>9. ASSUME NEW i \in 1..Len(script), i = at
      PROVE  /\ Settled(i)'
             /\ BestOf(i)' = BestFitProcToCall(procs, lookup.found, script[at].args)
  <2>1. NotedNs(i)' = Here BY <1>7, <1>9 DEF NotedNs, u, ns
  <2>2. Found(i)' = [table |-> u, found |-> lookup.found, next |-> lookup.next]
    BY <1>8, <1>9, <2>1 DEF Found, u
  <2>3. Found(i)'.table = u /\ Found(i)'.found = lookup.found BY <2>2
  <2> QED BY <1>4, <1>9, <2>1, <2>3 DEF Settled, BestOf, u
<1> QED BY <1>5, <1>9 DEF u

LEMMA MembersOfLonger ==
    ASSUME NEW S, NEW s \in Seq(S), NEW x \in S
    PROVE  ToSet(Append(s, x)) = ToSet(s) \cup {x}
<1>1. /\ Len(s) \in Nat /\ Len(Append(s, x)) = Len(s) + 1
      /\ \A i \in 1..Len(s) : Append(s, x)[i] = s[i]
      /\ Append(s, x)[Len(s) + 1] = x /\ DOMAIN s = 1..Len(s)
      /\ DOMAIN Append(s, x) = 1..(Len(s) + 1)
  OBVIOUS
<1> DEFINE t == Append(s, x)
<1> HIDE DEF t
<1>2. 1..(Len(s) + 1) = 1..Len(s) \cup {Len(s) + 1} BY <1>1
<1>3. {t[i] : i \in 1..(Len(s) + 1)} = {s[i] : i \in 1..Len(s)} \cup {x}
  BY <1>1, <1>2 DEF t
<1> QED BY <1>1, <1>3 DEF ToSet, t

-----------------------------------------------------------------------------
(* The inductive invariant.                                                *)

LEMMA LexicalInit == Init => LexicalInv
<1> SUFFICES ASSUME Init PROVE LexicalInv
  OBVIOUS
<1>1. /\ phase = "parse" /\ references = <<>> /\ procs = <<>> /\ answer = NoAnswer
  BY DEF Init
<1>2. ToSet(references) = {} BY <1>1 DEF ToSet
<1>3. answer.of = 0 BY <1>1 DEF NoAnswer
<1>4. 1..Len(procs) = {} BY <1>1
<1>5. LevelsInv /\ CallsInv BY <1>1 DEF LevelsInv, CallsInv
<1>6. UsagesInv BY <1>2 DEF UsagesInv
<1>7. DefinitionsInv BY <1>4 DEF DefinitionsInv
<1>8. AnsweredInv BY <1>3 DEF AnsweredInv, AnswersIncludeTheCall
<1> QED BY <1>5, <1>6, <1>7, <1>8 DEF LexicalInv

\* Steps before the second walk.
LEMMA NoUsagesYet ==
    ASSUME LexicalInv, phase \notin {"index", "ready"}
    PROVE  \A r \in ToSet(references) : r.type # "USAGE"
BY DEF LexicalInv, UsagesInv

LEMMA UnansweredStays ==
    ASSUME LexicalInv, phase # "ready", answer' = answer
    PROVE  AnsweredInv'
<1>1. answer'.of = 0 BY DEF LexicalInv, AnsweredInv
<1> QED BY <1>1 DEF AnsweredInv, AnswersIncludeTheCall

LEMMA SameDefinitions ==
    ASSUME LexicalInv, procs' = procs, references' = references
    PROVE  DefinitionsInv'
BY DEF LexicalInv, DefinitionsInv

\* A usage is no definition.
LEMMA UsageAdded ==
    ASSUME IndexInv, LexicalInv, procs' = procs, NEW id \in 1..Len(procs),
           at \in 1..Len(script), AddReference(id, "USAGE")
    PROVE  /\ DefinitionsInv'
           /\ ToSet(references') = ToSet(references) \cup
                  {[location |-> at, id |-> id, type |-> "USAGE"]}
<1> DEFINE row == [location |-> at, id |-> id, type |-> "USAGE"]
<1>1. references' = Append(references, row) BY DEF AddReference, NewReference
<1>2. references \in Seq(ReferenceRows) /\ Len(procs) \in Nat /\ Len(script) \in Nat
  BY DEF IndexInv, ReferencesInv, ProcsInv, ParseInv
<1>3. row \in ReferenceRows /\ row.type # "DEFINITION" BY <1>2 DEF ReferenceRows
<1> HIDE DEF row
<1>4. ToSet(references') = ToSet(references) \cup {row}
  BY <1>1, <1>2, <1>3, MembersOfLonger
<1>5. DefinitionsInv'
  BY <1>3, <1>4 DEF LexicalInv, DefinitionsInv
<1> QED BY <1>4, <1>5 DEF row

LEMMA DefinitionAdded ==
    ASSUME IndexInv, LexicalInv, at \in 1..Len(script), NEW row \in ProcRows,
           procs' = Append(procs, row), AddReference(Len(procs) + 1, "DEFINITION")
    PROVE  /\ DefinitionsInv'
           /\ \A r \in ToSet(references') : r.type = "USAGE" => r \in ToSet(references)
<1> DEFINE new == [location |-> at, id |-> Len(procs) + 1, type |-> "DEFINITION"]
<1>1. references' = Append(references, new) BY DEF AddReference, NewReference
<1>2. /\ references \in Seq(ReferenceRows) /\ Len(procs) \in Nat /\ Len(script) \in Nat
      /\ procs \in Seq(ProcRows)
  BY DEF IndexInv, ReferencesInv, ProcsInv, ParseInv
<1>3. new \in ReferenceRows /\ new.type = "DEFINITION" /\ new.id = Len(procs) + 1
  BY <1>2 DEF ReferenceRows
<1> HIDE DEF new
<1>4. ToSet(references') = ToSet(references) \cup {new}
  BY <1>1, <1>2, <1>3, MembersOfLonger
<1>5. Len(procs') = Len(procs) + 1 BY <1>2
<1>6. ASSUME NEW r \in ToSet(references) PROVE r.id \in 1..Len(procs)
  <2>1. PICK k \in 1..Len(references) : r = references[k] BY <1>2 DEF ToSet
  <2> QED BY <2>1 DEF IndexInv, ReferencesInv
<1>7. ASSUME NEW p \in 1..Len(procs')
      PROVE  \E d \in ToSet(references') :
                /\ d.id = p /\ d.type = "DEFINITION"
                /\ \A r \in ToSet(references') :
                      r.id = p /\ r.type = "DEFINITION" => r = d
  <2>1. CASE p \in 1..Len(procs)
    <3>1. PICK d \in ToSet(references) :
             /\ d.id = p /\ d.type = "DEFINITION"
             /\ \A r \in ToSet(references) : r.id = p /\ r.type = "DEFINITION" => r = d
      BY <2>1 DEF LexicalInv, DefinitionsInv
    <3>2. new.id # p BY <1>2, <1>3, <2>1
    <3> QED BY <1>4, <3>1, <3>2
  <2>2. CASE p = Len(procs) + 1
    <3>1. \A r \in ToSet(references) : r.id # p BY <1>2, <1>6, <2>2
    <3> QED BY <1>3, <1>4, <2>2, <3>1
  <2>3. p \in 1..Len(procs) \/ p = Len(procs) + 1 BY <1>2, <1>5
  <2> QED BY <2>1, <2>2, <2>3
<1> QED BY <1>3, <1>4, <1>7 DEF DefinitionsInv

LEMMA ParseStepLexical ==
    ASSUME IndexInv, LexicalInv, ParseStep PROVE LexicalInv'
<1>1. /\ phase = "parse" /\ phase' \in {"parse", "scan"} /\ UNCHANGED tables
      /\ answer' = answer
  BY DEF ParseStep, ParseCall, ParseEval, ParseProc, ParseBlock, ParseEnd, ParsedAll,
         Parse
<1>2. LevelsInv' /\ CallsInv' BY <1>1 DEF LevelsInv, CallsInv
<1>3. procs' = procs /\ references' = references BY <1>1 DEF tables
<1>4. UsagesInv' BY <1>1, <1>3, NoUsagesYet DEF UsagesInv
<1>5. DefinitionsInv' BY <1>3, SameDefinitions
<1>6. AnsweredInv' BY <1>1, UnansweredStays
<1> QED BY <1>2, <1>4, <1>5, <1>6 DEF LexicalInv

LEMMA ScanStepLexical ==
    ASSUME IndexInv, IndexInv', LexicalInv, ScanStep PROVE LexicalInv'
<1>1. /\ phase = "scan" /\ phase' \in {"scan", "index"} /\ answer' = answer
      /\ phase' = "index" => at' = 1
  BY DEF ScanStep, EvalNamespace, EnterBlock, Leave, ScanProc, ScanCall, ScannedAll,
         At, Walk
<1>2. LevelsInv' BY <1>1, BeginAgrees DEF LevelsInv
<1>3. CallsInv'
  <2>1. phase' \in {"index", "ready"} => 1..(at' - 1) = {} BY <1>1
  <2> QED BY <2>1 DEF CallsInv
<1>4. AnsweredInv' BY <1>1, UnansweredStays
<1>5. UsagesInv' /\ DefinitionsInv'
  <2>1. CASE ScanProc
    <3> DEFINE qn == SplitName(script[at].name)
               target == IF HasNamespace(qn) THEN ResolveNamespace(namespaces, qn, Here)
                         ELSE [table |-> namespaces, id |-> Here]
               row == NewProc(qn.name, target.id, script[at].params)
    <3>1. /\ procs' = Append(procs, row) /\ AddReference(Len(procs) + 1, "DEFINITION")
      BY <2>1 DEF ScanProc, Insert, NextId
    <3> HIDE DEF row
    <3>2. at \in 1..Len(script)
      <4>1. At("scan", "proc") BY <2>1 DEF ScanProc
      <4>2. at \in 1..(Len(script) + 1) /\ Len(script) \in Nat
        BY DEF IndexInv, ParseInv
      <4> QED BY <4>1, <4>2 DEF At
    <3>3. /\ procs' \in Seq(ProcRows) /\ procs \in Seq(ProcRows) /\ Len(procs) \in Nat
      BY DEF IndexInv, ProcsInv
    <3>4. row \in ProcRows
      <4>1. Len(procs') = Len(procs) + 1 /\ procs'[Len(procs) + 1] = row
        BY <3>1, <3>3
      <4>2. Len(procs) + 1 \in 1..Len(procs') BY <3>3, <4>1
      <4> QED BY <3>3, <4>1, <4>2
    <3>5. /\ DefinitionsInv'
          /\ \A r \in ToSet(references') : r.type = "USAGE" => r \in ToSet(references)
      BY <3>1, <3>2, <3>4, DefinitionAdded
    <3>6. UsagesInv' BY <1>1, <3>5, NoUsagesYet DEF UsagesInv
    <3> QED BY <3>5, <3>6
  <2>2. CASE ~ScanProc
    <3>1. procs' = procs /\ references' = references
      BY <2>2 DEF ScanStep, EvalNamespace, EnterBlock, Leave, ScanCall, ScannedAll, tables
    <3>2. UsagesInv' BY <1>1, <3>1, NoUsagesYet DEF UsagesInv
    <3> QED BY <3>1, <3>2, SameDefinitions
  <2> QED BY <2>1, <2>2
<1> QED BY <1>2, <1>3, <1>4, <1>5 DEF LexicalInv

\* Of the calls behind the walk, more namespaces change nothing.
LEMMA SettledCalls ==
    ASSUME IndexInv, LexicalInv, RegularScript, phase \in {"index", "ready"},
           namespaces' \in Trees, Grown(namespaces, namespaces'),
           procs' = procs, script' = script
    PROVE  \A i \in 1..(at - 1) : script[i].op = "call" =>
               Settled(i)' /\ BestOf(i)' = BestOf(i)
<1> SUFFICES ASSUME NEW i \in 1..(at - 1), script[i].op = "call"
             PROVE  Settled(i)' /\ BestOf(i)' = BestOf(i)
  OBVIOUS
<1>1. Settled(i) BY DEF LexicalInv, CallsInv
<1>2. i \in 1..Len(script)
  <2>1. at \in 1..(Len(script) + 1) /\ Len(script) \in Nat BY DEF IndexInv, ParseInv
  <2> QED BY <2>1
<1> QED BY <1>1, <1>2, SettledStays

\* A step of the second walk that indexes no call.
LEMMA WalkedOn ==
    ASSUME IndexInv, LexicalInv, phase = "index", phase' = "index",
           script' = script, at \in 1..Len(script), at' = at + 1,
           script[at].op # "call", answer' = answer,
           namespaces' \in Trees, Grown(namespaces, namespaces'),
           procs' = procs, references' = references,
           RegularScript => Agrees'
    PROVE  LexicalInv'
<1>1. RegularScript' <=> RegularScript BY DEF RegularScript
<1>2. LevelsInv' BY <1>1 DEF LevelsInv
<1>3. at' - 1 = at /\ 1..at = 1..(at - 1) \cup {at} BY DEF IndexInv, ParseInv
<1>4. CallsInv'
  <2> SUFFICES ASSUME RegularScript, NEW i \in 1..(at' - 1), script[i].op = "call"
               PROVE  Settled(i)'
    BY <1>1 DEF CallsInv
  <2>1. i \in 1..(at - 1) BY <1>3
  <2> QED BY <2>1, SettledCalls
<1>5. UsagesInv'
  <2> SUFFICES ASSUME NEW r \in ToSet(references), r.type = "USAGE"
               PROVE  /\ r.location \in 1..(at' - 1) /\ script[r.location].op = "call"
                      /\ RegularScript => r.id = BestOf(r.location)'
    BY <1>1 DEF UsagesInv
  <2>1. /\ r.location \in 1..(at - 1) /\ script[r.location].op = "call"
        /\ RegularScript => r.id = BestOf(r.location)
    BY DEF LexicalInv, UsagesInv
  <2>2. RegularScript => BestOf(r.location)' = BestOf(r.location)
    BY <2>1, SettledCalls
  <2>3. r.location \in 1..(at' - 1) BY <1>3, <2>1
  <2> QED BY <2>1, <2>2, <2>3
<1>6. DefinitionsInv' BY SameDefinitions
<1>7. AnsweredInv' BY UnansweredStays
<1> QED BY <1>2, <1>4, <1>5, <1>6, <1>7 DEF LexicalInv

LEMMA IndexCallLexical ==
    ASSUME IndexInv, IndexInv', LexicalInv, IndexCall PROVE LexicalInv'
<1> DEFINE lookup == FindProc(namespaces, procs, Here, script[at].name)
           best == BestFitProcToCall(procs, lookup.found, script[at].args)
<1>1. /\ At("index", "call") /\ Walk /\ namespaces' = lookup.table
      /\ IF best = 0 THEN references' = references ELSE AddReference(best, "USAGE")
      /\ nsPath' = nsPath /\ procs' = procs
  BY DEF IndexCall
<1>2. /\ phase = "index" /\ phase' = "index" /\ script' = script /\ at' = at + 1
      /\ answer' = answer /\ script[at].op = "call" /\ at <= Len(script)
  BY <1>1 DEF At, Walk
<1>3. /\ at \in 1..Len(script) /\ at' - 1 = at /\ 1..at = 1..(at - 1) \cup {at}
      /\ at \in Nat
  <2>1. at \in 1..(Len(script) + 1) /\ Len(script) \in Nat BY DEF IndexInv, ParseInv
  <2> QED BY <1>2, <2>1
<1>4. /\ namespaces' \in Trees /\ Grown(namespaces, namespaces')
      /\ best = 0 \/ best \in 1..Len(procs)
  <2>1. Here \in 1..Len(namespaces) BY HereIsPlace
  <2>2. /\ lookup.table \in Trees /\ Grown(namespaces, lookup.table)
        /\ best = 0 \/ best \in 1..Len(procs)
    BY <1>3, <2>1, CallFinds
  <2> QED BY <1>1, <2>2
<1>5. lookup = FindProc(namespaces, procs, Here, script[at].name) OBVIOUS
<1>6. best = BestFitProcToCall(procs, lookup.found, script[at].args) OBVIOUS
<1> HIDE DEF lookup, best
<1>7. RegularScript' <=> RegularScript BY <1>2 DEF RegularScript
<1>8. RegularScript => Agrees BY <1>2 DEF LexicalInv, LevelsInv
<1>9. LevelsInv' BY <1>4, <1>7, <1>8, CallAgrees DEF LevelsInv
<1>10. ASSUME RegularScript, NEW i \in 1..Len(script), i = at
       PROVE  Settled(i)' /\ BestOf(i)' = best
  BY <1>1, <1>2, <1>3, <1>5, <1>6, <1>8, <1>10, CallSettles
<1>11. ASSUME RegularScript, NEW i \in 1..(at - 1), script[i].op = "call"
       PROVE  Settled(i)' /\ BestOf(i)' = BestOf(i)
  BY <1>1, <1>2, <1>4, <1>11, SettledCalls
<1>12. CallsInv'
  <2> SUFFICES ASSUME RegularScript, NEW i \in 1..(at' - 1), script[i].op = "call"
               PROVE  Settled(i)'
    BY <1>2, <1>7 DEF CallsInv
  <2>1. i \in 1..(at - 1) \/ i = at BY <1>3
  <2>2. i = at => i \in 1..Len(script) BY <1>3
  <2> QED BY <1>10, <1>11, <2>1, <2>2
<1>13. AnsweredInv' BY <1>2, UnansweredStays
<1> DEFINE row == [location |-> at, id |-> best, type |-> "USAGE"]
<1>14. /\ DefinitionsInv'
       /\ \A r \in ToSet(references') : r \in ToSet(references) \/ r = row
  <2>1. CASE best = 0 BY <1>1, <2>1, SameDefinitions
  <2>2. CASE best # 0
    <3>1. best \in 1..Len(procs) /\ AddReference(best, "USAGE") BY <1>1, <1>4, <2>2
    <3>2. DefinitionsInv' /\ ToSet(references') = ToSet(references) \cup {row}
      BY <1>1, <1>3, <3>1, UsageAdded
    <3> QED BY <3>2
  <2> QED BY <2>1, <2>2
<1>15. row.location = at /\ row.id = best OBVIOUS
<1> HIDE DEF row
<1>16. UsagesInv'
  <2> SUFFICES ASSUME NEW r \in ToSet(references'), r.type = "USAGE"
               PROVE  /\ r.location \in 1..(at' - 1) /\ script[r.location].op = "call"
                      /\ RegularScript => r.id = BestOf(r.location)'
    BY <1>2, <1>7 DEF UsagesInv
  <2>1. CASE r \in ToSet(references)
    <3>1. /\ r.location \in 1..(at - 1) /\ script[r.location].op = "call"
          /\ RegularScript => r.id = BestOf(r.location)
      BY <2>1 DEF LexicalInv, UsagesInv
    <3>2. RegularScript => BestOf(r.location)' = BestOf(r.location) BY <1>11, <3>1
    <3>3. r.location \in 1..(at' - 1) BY <1>3, <3>1
    <3> QED BY <3>1, <3>2, <3>3
  <2>2. CASE r = row
    <3>1. r.location = at /\ r.id = best BY <1>15, <2>2
    <3>2. RegularScript => BestOf(r.location)' = best BY <1>3, <1>10, <3>1
    <3>3. r.location \in 1..(at' - 1) BY <1>3, <3>1
    <3> QED BY <1>2, <3>1, <3>2, <3>3
  <2> QED BY <1>14, <2>1, <2>2
<1> QED BY <1>9, <1>12, <1>13, <1>14, <1>16 DEF LexicalInv

\* What a walk finds in the tables when it enters a namespace.
LEMMA EntersGrown ==
    ASSUME IndexInv, NEW qn, NamespaceParts(qn) \in Seq(Identifier),
           namespaces' = ResolveNamespace(namespaces, qn, Here).table
    PROVE  namespaces' \in Trees /\ Grown(namespaces, namespaces')
<1> DEFINE target == ResolveNamespace(namespaces, qn, Here)
<1>1. namespaces \in Trees /\ Here \in 1..Len(namespaces) BY HereIsPlace
<1>2. target = ResolveNamespace(namespaces, qn, Here) OBVIOUS
<1> HIDE DEF target
<1>3. target \in Places /\ Grown(namespaces, target.table)
  BY <1>1, <1>2, ResolveLeads
<1> QED BY <1>2, <1>3 DEF Places

LEMMA IndexStepLexical ==
    ASSUME IndexInv, IndexInv', LexicalInv, IndexStep PROVE LexicalInv'
<1>1. at \in 1..(Len(script) + 1) /\ Len(script) \in Nat BY DEF IndexInv, ParseInv
<1>2. namespaces \in Trees BY DEF IndexInv
<1>3. phase = "index" /\ RegularScript => Agrees BY DEF LexicalInv, LevelsInv
<1>4. CASE EvalNamespace("index")
  <2>1. /\ phase = "index" /\ phase' = "index" /\ script' = script /\ at' = at + 1
        /\ at <= Len(script) /\ script[at].op = "eval" /\ answer' = answer
        /\ procs' = procs /\ references' = references
        /\ namespaces' =
               ResolveNamespace(namespaces, EvalName(script[at].name), Here).table
    BY <1>4 DEF EvalNamespace, At, Walk
  <2>2. at \in 1..Len(script) BY <1>1, <2>1
  <2>3. namespaces' \in Trees /\ Grown(namespaces, namespaces')
    BY <2>1, <2>2, CommandAt, EntersGrown
  <2>4. RegularScript => Agrees' BY <1>3, <1>4, <2>1, EvalAgrees
  <2>5. script[at].op # "call" BY <2>1
  <2> QED BY <2>1, <2>2, <2>3, <2>4, <2>5, WalkedOn
<1>5. CASE IndexProc
  <2>1. /\ phase = "index" /\ phase' = "index" /\ script' = script /\ at' = at + 1
        /\ at <= Len(script) /\ script[at].op = "proc" /\ answer' = answer
        /\ procs' = procs /\ references' = references
        /\ namespaces' =
               ResolveNamespace(namespaces, SplitName(script[at].name), Here).table
    BY <1>5 DEF IndexProc, At, Walk
  <2>2. at \in 1..Len(script) BY <1>1, <2>1
  <2>3. namespaces' \in Trees /\ Grown(namespaces, namespaces')
    BY <2>1, <2>2, CommandAt, EntersGrown
  <2>4. RegularScript => Agrees' BY <1>3, <1>5, <2>1, ProcAgrees
  <2>5. script[at].op # "call" BY <2>1
  <2> QED BY <2>1, <2>2, <2>3, <2>4, <2>5, WalkedOn
<1>6. CASE EnterBlock("index") \/ Leave("index")
  <2>1. /\ phase = "index" /\ phase' = "index" /\ script' = script /\ at' = at + 1
        /\ at <= Len(script) /\ script[at].op \in {"block", "end"} /\ answer' = answer
        /\ procs' = procs /\ references' = references /\ namespaces' = namespaces
    BY <1>6 DEF EnterBlock, Leave, At, Walk, tables
  <2>2. at \in 1..Len(script) BY <1>1, <2>1
  <2>3. namespaces' \in Trees /\ Grown(namespaces, namespaces')
    BY <1>2, <2>1, GrownReflexive
  <2>4. RegularScript => Agrees' BY <1>3, <1>6, <2>1, BlockAgrees, LeaveAgrees
  <2>5. script[at].op # "call" BY <2>1
  <2> QED BY <2>1, <2>2, <2>3, <2>4, <2>5, WalkedOn
<1>7. CASE IndexCall BY <1>7, IndexCallLexical
<1>8. CASE IndexedAll
  <2>1. /\ phase = "index" /\ phase' = "ready" /\ script' = script /\ at' = at
        /\ answer' = answer /\ procs' = procs /\ references' = references
        /\ namespaces' = namespaces
    BY <1>8 DEF IndexedAll, tables
  <2>2. LevelsInv' BY <2>1 DEF LevelsInv
  <2>3. RegularScript' <=> RegularScript BY <2>1 DEF RegularScript
  <2>4. RegularScript =>
            \A i \in 1..(at - 1) : script[i].op = "call" =>
                Settled(i)' /\ BestOf(i)' = BestOf(i)
    BY <1>2, <2>1, GrownReflexive, SettledCalls
  <2>5. CallsInv' BY <2>1, <2>3, <2>4 DEF CallsInv
  <2>6. UsagesInv' BY <2>1, <2>3, <2>4 DEF LexicalInv, UsagesInv
  <2>7. DefinitionsInv' /\ AnsweredInv'
    BY <2>1, SameDefinitions, UnansweredStays
  <2> QED BY <2>2, <2>5, <2>6, <2>7 DEF LexicalInv
<1> QED BY <1>4, <1>5, <1>6, <1>7, <1>8 DEF IndexStep

-----------------------------------------------------------------------------
(* Requests.                                                               *)

\* The definition of a proc is where its reference is.
LEMMA DefinitionFound ==
    ASSUME IndexInv, LexicalInv, NEW id \in 1..Len(procs)
    PROVE  {r.location : r \in ReferencesTo(id, {"DEFINITION"})} = {DefinitionOf(id)}
<1> DEFINE Entry(l) == [location |-> l, id |-> id, type |-> "DEFINITION"]
<1>1. PICK d \in ToSet(references) :
         /\ d.id = id /\ d.type = "DEFINITION"
         /\ \A r \in ToSet(references) : r.id = id /\ r.type = "DEFINITION" => r = d
  BY DEF LexicalInv, DefinitionsInv
<1>2. references \in Seq(ReferenceRows) BY DEF IndexInv, ReferencesInv
<1>3. PICK k \in 1..Len(references) : d = references[k] BY <1>2 DEF ToSet
<1>4. d \in ReferenceRows /\ d.location \in 1..Len(script)
  BY <1>2, <1>3 DEF IndexInv, ReferencesInv
<1>5. d = Entry(d.location) BY <1>1, <1>4 DEF ReferenceRows
<1>6. ASSUME NEW l \in 1..Len(script), Entry(l) \in ToSet(references)
      PROVE  l = d.location
  <2>1. Entry(l).id = id /\ Entry(l).type = "DEFINITION" /\ Entry(l).location = l OBVIOUS
  <2> HIDE DEF Entry
  <2>2. Entry(l) = d BY <1>1, <1>6, <2>1
  <2> QED BY <2>1, <2>2
<1>7. DefinitionOf(id) = d.location
  <2>1. \E l \in 1..Len(script) : Entry(l) \in ToSet(references) BY <1>4, <1>5
  <2>2. DefinitionOf(id) = CHOOSE l \in 1..Len(script) : Entry(l) \in ToSet(references)
    BY DEF DefinitionOf
  <2> HIDE DEF Entry
  <2> QED BY <1>6, <2>1, <2>2
<1>8. ReferencesTo(id, {"DEFINITION"}) = {d}
  BY <1>1 DEF ReferencesTo
<1> QED BY <1>7, <1>8

\* A request about an indexed call looks up what the second walk looked up.
LEMMA AskReads ==
    ASSUME IndexInv, LexicalInv, RegularScript, NEW i \in 1..Len(script), NEW text,
           NEW args, NEW types, Ask(i, text, args, types), WasIndexed(i, text, args)
    PROVE  /\ namespaces' = namespaces
           /\ answer' = [of |-> i, types |-> types, locations |->
                             {r.location : r \in ReferencesTo(BestOf(i), types)}]
<1>1. /\ phase = "ready" /\ script[i].op = "call"
      /\ text = script[i].name /\ args = script[i].args
  BY DEF Ask, WasIndexed
<1>2. at - 1 = Len(script)
  <2>1. at = Len(script) + 1 /\ Len(script) \in Nat BY <1>1 DEF IndexInv, ParseInv
  <2> QED BY <2>1
<1>3. NotedNs(i) # 0 /\ Found(i).table = namespaces
  BY <1>1, <1>2 DEF LexicalInv, CallsInv, Settled
<1> DEFINE ns == FindNamespace(namespaces, script[i].ns)
           lookup == IF ns = 0 THEN [table |-> namespaces, found |-> {}]
                     ELSE FindProc(namespaces, procs, ns, text)
           best == BestFitProcToCall(procs, lookup.found, args)
<1>4. /\ namespaces' = lookup.table
      /\ answer' = [of |-> i, types |-> types, locations |->
                        {r.location : r \in ReferencesTo(best, types)}]
  BY DEF Ask
<1>5. lookup = Found(i) BY <1>1, <1>3 DEF Found, NotedNs
<1> HIDE DEF lookup
<1>6. best = BestOf(i) BY <1>1, <1>5 DEF BestOf
<1> QED BY <1>3, <1>4, <1>5, <1>6

\* What is answered about an indexed call.
LEMMA AskIncludes ==
    ASSUME IndexInv, LexicalInv, RegularScript, NEW i \in 1..Len(script), NEW text,
           NEW args, NEW types \in {{"USAGE", "DEFINITION"}, {"DEFINITION"}},
           Ask(i, text, args, types), WasIndexed(i, text, args)
    PROVE  AnswersIncludeTheCall'
<1> DEFINE best == BestOf(i)
           places == {r.location : r \in ReferencesTo(best, types)}
<1>1. /\ answer' = [of |-> i, types |-> types, locations |-> places]
      /\ script' = script /\ references' = references
  BY AskReads DEF Ask
<1>2. answer'.of = i /\ answer'.types = types /\ answer'.locations = places BY <1>1
<1> HIDE DEF best, places
<1>3. ASSUME NEW r \in ToSet(references), r.location = i, r.type = "USAGE"
      PROVE  /\ DefinitionOf(r.id) \in places
             /\ "USAGE" \in types => i \in places
             /\ "USAGE" \notin types => places = {DefinitionOf(r.id)}
  <2>1. r.id = best BY <1>3 DEF LexicalInv, UsagesInv, best
  <2>2. r.id \in 1..Len(procs)
    <3>1. references \in Seq(ReferenceRows) BY DEF IndexInv, ReferencesInv
    <3>2. PICK k \in 1..Len(references) : r = references[k] BY <3>1 DEF ToSet
    <3> QED BY <3>2 DEF IndexInv, ReferencesInv
  <2>3. {u.location : u \in ReferencesTo(best, {"DEFINITION"})} = {DefinitionOf(best)}
    BY <2>1, <2>2, DefinitionFound
  <2>4. DefinitionOf(best) \in places
    <3>1. ReferencesTo(best, {"DEFINITION"}) \subseteq ReferencesTo(best, types)
      BY DEF ReferencesTo
    <3> QED BY <2>3, <3>1 DEF places
  <2>5. "USAGE" \in types => r \in ReferencesTo(best, types)
    BY <1>3, <2>1 DEF ReferencesTo
  <2>6. "USAGE" \notin types => types = {"DEFINITION"} OBVIOUS
  <2> QED BY <1>3, <2>1, <2>3, <2>4, <2>5, <2>6 DEF places
<1>4. ASSUME NEW r \in Usages(i)'
      PROVE  /\ DefinitionOf(r.id)' \in places
             /\ "USAGE" \in types => i \in places
             /\ "USAGE" \notin types => places = {DefinitionOf(r.id)'}
  <2>1. r \in ToSet(references) /\ r.location = i /\ r.type = "USAGE"
    BY <1>1, <1>4 DEF Usages
  <2>2. DefinitionOf(r.id)' = DefinitionOf(r.id) BY <1>1 DEF DefinitionOf
  <2> QED BY <1>3, <2>1, <2>2
<1>5. Usages(answer.of)' = Usages(i)' BY <1>2 DEF Usages
<1> QED BY <1>2, <1>4, <1>5 DEF AnswersIncludeTheCall

LEMMA AskLexical ==
    ASSUME IndexInv, LexicalInv, NEW i \in 1..Len(script), NEW text \in Texts, NEW args,
           NEW types \in {{"USAGE", "DEFINITION"}, {"DEFINITION"}},
           Ask(i, text, args, types)
    PROVE  LexicalInv'
<1>1. /\ phase = "ready" /\ phase' = "ready" /\ script' = script /\ at' = at
      /\ procs' = procs /\ references' = references
      /\ namespaces' \in Trees /\ Grown(namespaces, namespaces')
  BY AskGrows
<1>2. RegularScript' <=> RegularScript BY <1>1 DEF RegularScript
<1>3. LevelsInv' BY <1>1 DEF LevelsInv
<1>4. RegularScript =>
          \A j \in 1..(at - 1) : script[j].op = "call" =>
              Settled(j)' /\ BestOf(j)' = BestOf(j)
  BY <1>1, SettledCalls
<1>5. CallsInv' BY <1>1, <1>2, <1>4 DEF CallsInv
<1>6. UsagesInv' BY <1>1, <1>2, <1>4 DEF LexicalInv, UsagesInv
<1>7. DefinitionsInv' BY <1>1, SameDefinitions
<1>8. ASSUME RegularScript PROVE AnswersIncludeTheCall'
  <2>1. CASE WasIndexed(i, text, args) BY <1>8, <2>1, AskIncludes
  <2>2. CASE ~WasIndexed(i, text, args)
    <3>1. PICK places : answer' = [of |-> 0, types |-> types, locations |-> places]
      BY <2>2 DEF Ask
    <3> QED BY <3>1 DEF AnswersIncludeTheCall
  <2> QED BY <2>1, <2>2
<1>9. AnsweredInv' BY <1>1, <1>2, <1>8 DEF AnsweredInv
<1> QED BY <1>3, <1>5, <1>6, <1>7, <1>9 DEF LexicalInv

-----------------------------------------------------------------------------
(* The theorems.                                                           *)

\* What a request asks.
LEMMA Asked ==
    ASSUME IndexInv, AskReferences \/ AskDefinition
    PROVE  \E types \in {{"USAGE", "DEFINITION"}, {"DEFINITION"}}, i \in 1..Len(script),
              text \in Texts, args \in Nat :
               Ask(i, text, args, types)
<1>1. PICK types \in {{"USAGE", "DEFINITION"}, {"DEFINITION"}} : AskFor(types)
  BY DEF AskReferences, AskDefinition
<1>2. PICK i \in 1..Len(script), text \in words.calls, args \in 0..words.args :
         Ask(i, text, args, types)
  BY <1>1 DEF AskFor
<1>3. text \in Texts /\ args \in Nat BY VocabularyOfScript
<1> QED BY <1>2, <1>3

LEMMA LexicalNext == IndexInv /\ LexicalInv /\ [Next]_vars => LexicalInv'
<1> SUFFICES ASSUME IndexInv, LexicalInv, [Next]_vars PROVE LexicalInv'
  OBVIOUS
<1>1. IndexInv' BY IndexNext
<1>2. CASE AskReferences \/ AskDefinition
  <2>1. PICK types \in {{"USAGE", "DEFINITION"}, {"DEFINITION"}}, i \in 1..Len(script),
             text \in Texts, args \in Nat :
           Ask(i, text, args, types)
    BY <1>2, Asked
  <2> QED BY <2>1, AskLexical
<1>4. CASE UNCHANGED vars
  <2>1. /\ script' = script /\ phase' = phase /\ at' = at /\ nsPath' = nsPath
        /\ namespaces' = namespaces /\ procs' = procs /\ references' = references
        /\ answer' = answer
    BY <1>4 DEF vars, tables
  <2>2. LevelsInv' BY <2>1 DEF LexicalInv, LevelsInv, Agrees, RegularScript
  <2>3. CallsInv'
    BY <2>1 DEF LexicalInv, CallsInv, RegularScript, Settled, Found, NotedNs
  <2>4. UsagesInv'
    BY <2>1 DEF LexicalInv, UsagesInv, RegularScript, BestOf, Found, NotedNs
  <2>5. DefinitionsInv' BY <2>1, SameDefinitions
  <2>6. AnsweredInv'
    BY <2>1 DEF LexicalInv, AnsweredInv, RegularScript, AnswersIncludeTheCall, Usages,
                DefinitionOf
  <2> QED BY <2>2, <2>3, <2>4, <2>5, <2>6 DEF LexicalInv
<1> QED
  BY <1>1, <1>2, <1>4, ParseStepLexical, ScanStepLexical, IndexStepLexical
  DEF Next, Idle

\* In every regular script the namespace the parser notes in a call is that in
\* which the call is indexed (script.cpp:228, index.cpp:642-645).
THEOREM CallsKnowTheirNamespace == Spec => [](RegularScript => LexicalAgreement)
<1>1. IndexInv /\ LexicalInv => (RegularScript => LexicalAgreement)
  <2> SUFFICES ASSUME IndexInv, LexicalInv, RegularScript, At("index", "call")
               PROVE  FindNamespace(namespaces, script[at].ns) = Here
    BY DEF LexicalAgreement
  <2>1. Agrees BY DEF LexicalInv, LevelsInv, At
  <2>2. at \in 1..(Len(script) + 1) /\ Len(script) \in Nat BY DEF IndexInv, ParseInv
  <2>3. at \in 1..Len(script) /\ script[at].op # "end" BY <2>2 DEF At
  <2> QED BY <2>1, <2>3, NamespaceHere
<1> QED BY <1>1, IndexInit, IndexNext, LexicalInit, LexicalNext, PTL DEF Spec

\* In every regular script a request about an indexed call finds what the second
\* walk found, whatever other texts were looked up before, and the namespaces it
\* needs are in the index: it changes no table while it holds the lock shared
\* (handlers.cpp:191, 209; index.cpp:526-540).
THEOREM IndexedCallsAreRead == Spec /\ []RegularScript => IndexedCallsOnlyRead
<1>1. IndexInv /\ LexicalInv /\ RegularScript /\ [Next]_vars =>
          [phase = "ready" /\ answer'.of # 0 => UNCHANGED tables]_vars
  <2> SUFFICES ASSUME IndexInv, LexicalInv, RegularScript, Next, phase = "ready",
                      answer'.of # 0
               PROVE  UNCHANGED tables
    OBVIOUS
  <2>1. ~ParseStep
    BY DEF ParseStep, ParseCall, ParseEval, ParseProc, ParseBlock, ParseEnd, ParsedAll,
           Parse
  <2>2. ~ScanStep /\ ~IndexStep
    BY DEF ScanStep, IndexStep, EvalNamespace, EnterBlock, Leave, ScanProc, ScanCall,
           ScannedAll, IndexProc, IndexCall, IndexedAll, At
  <2>3. CASE AskReferences \/ AskDefinition
    <3>1. PICK types \in {{"USAGE", "DEFINITION"}, {"DEFINITION"}},
               i \in 1..Len(script), text \in Texts, args \in Nat :
             Ask(i, text, args, types)
      BY <2>3, Asked
    <3>2. WasIndexed(i, text, args)
      <4> SUFFICES ASSUME ~WasIndexed(i, text, args) PROVE FALSE
        OBVIOUS
      <4>1. PICK places : answer' = [of |-> 0, types |-> types, locations |-> places]
        BY <3>1 DEF Ask
      <4> QED BY <4>1
    <3>3. namespaces' = namespaces BY <3>1, <3>2, AskReads
    <3>4. procs' = procs /\ references' = references BY <3>1 DEF Ask
    <3> QED BY <3>3, <3>4 DEF tables
  <2>4. CASE Idle BY <2>4 DEF Idle, vars
  <2> QED BY <2>1, <2>2, <2>3, <2>4 DEF Next
<1> QED
  BY <1>1, IndexInit, IndexNext, LexicalInit, LexicalNext, PTL
  DEF Spec, IndexedCallsOnlyRead

\* In every regular script the references that are answered about a call that
\* refers to a proc are the call itself and the definition found for it among
\* others, and the definition that is answered is that one alone
\* (handlers.cpp:199-236, 276-317).
THEOREM AnswersInclude == Spec => [](RegularScript => AnswersIncludeTheCall)
<1>1. LexicalInv => (RegularScript => AnswersIncludeTheCall)
  BY DEF LexicalInv, AnsweredInv
<1> QED BY <1>1, IndexInit, IndexNext, LexicalInit, LexicalNext, PTL DEF Spec

-----------------------------------------------------------------------------
(* The way from the global namespace to another.                           *)

\* What is done for every namespace after it was done for its parent.
Climbs(f, D, t, start, step) ==
    /\ f \in [1..Len(t) -> D]
    /\ f[1] = start
    /\ \A n \in 2..Len(t) : f[n] = step[n][f[t[n].parent]]

LEMMA FromParents ==
    ASSUME NEW t \in Trees, NEW D, NEW start \in D, NEW step,
           StaysIn(D, Len(t), step)
    PROVE  \E f : Climbs(f, D, t, start, step)
<1> USE DEF StaysIn, Climbs
<1> DEFINE N == Len(t)
           Done(f, k) == \A n \in 1..k :
                            f[n] = IF n = 1 THEN start ELSE step[n][f[t[n].parent]]
           S == {k \in 0..N : \E f \in [1..k -> D] : Done(f, k)}
<1>1. N \in Nat /\ N > 0 /\ \A n \in 2..N : t[n].parent \in 1..(n - 1)
  <2>1. N \in Nat /\ Global \in 1..N /\ Tree(t) BY RowsOfTree
  <2> QED BY <2>1 DEF Tree
<1>2. 0 \in S
  <2> DEFINE f == [n \in 1..0 |-> start]
  <2>1. f \in [1..0 -> D] /\ Done(f, 0) OBVIOUS
  <2> HIDE DEF f
  <2>2. \E g \in [1..0 -> D] : Done(g, 0) BY <2>1
  <2>3. 0 \in 0..N BY <1>1
  <2> QED BY <2>2, <2>3
<1>3. ASSUME NEW k \in 1..N, k - 1 \in S PROVE k \in S
  <2>1. PICK f \in [1..(k - 1) -> D] : Done(f, k - 1) BY <1>3
  <2> DEFINE last == IF k = 1 THEN start ELSE step[k][f[t[k].parent]]
             h == [n \in 1..k |-> IF n = k THEN last ELSE f[n]]
  <2>2. last \in D
    <3>1. CASE k = 1 BY <3>1
    <3>2. CASE k # 1
      <4>1. k \in 2..N BY <1>1, <3>2
      <4>2. t[k].parent \in 1..(k - 1) BY <1>1, <4>1
      <4>3. f[t[k].parent] \in D BY <4>2
      <4> QED BY <3>2, <4>1, <4>3
    <3> QED BY <3>1, <3>2
  <2>3. \A n \in 1..k : n = k \/ n \in 1..(k - 1) BY <1>1
  <2> HIDE DEF last
  <2>4. h \in [1..k -> D] BY <2>2, <2>3
  <2>5. \A n \in 1..(k - 1) : h[n] = f[n] BY <1>1
  <2>6. h[k] = last BY <1>1
  <2> HIDE DEF h
  <2>7. ASSUME NEW n \in 1..k
        PROVE  h[n] = IF n = 1 THEN start ELSE step[n][h[t[n].parent]]
    <3>1. n # 1 => h[t[n].parent] = f[t[n].parent]
      <4> SUFFICES ASSUME n # 1 PROVE h[t[n].parent] = f[t[n].parent]
        OBVIOUS
      <4>1. n \in 2..N BY <1>1
      <4>2. t[n].parent \in 1..(n - 1) BY <1>1, <4>1
      <4>3. t[n].parent \in 1..(k - 1) BY <1>1, <4>2
      <4> QED BY <2>5, <4>3
    <3>2. CASE n = k BY <2>6, <3>1, <3>2 DEF last
    <3>3. CASE n \in 1..(k - 1) BY <2>1, <2>5, <3>1, <3>3
    <3> QED BY <2>3, <3>2, <3>3
  <2>8. k \in 0..N BY <1>1
  <2> QED BY <2>4, <2>7, <2>8
<1> HIDE DEF S
<1>4. \A k \in 0..N : k \in S BY <1>1, <1>2, <1>3, Stepwise
<1>5. N \in S BY <1>1, <1>4
<1>6. PICK f \in [1..N -> D] : Done(f, N) BY <1>5 DEF S
<1>7. f[1] = start BY <1>1, <1>6
<1>8. ASSUME NEW n \in 2..N PROVE f[n] = step[n][f[t[n].parent]]
  <2>1. n \in 1..N /\ n # 1 BY <1>1
  <2> QED BY <1>6, <2>1
<1> QED BY <1>6, <1>7, <1>8

\* What is so of the global namespace and, if of its parent, of another, is so of all.
LEMMA OfAllBelow ==
    ASSUME NEW t \in Trees, NEW S, Global \in S,
           \A n \in 2..Len(t) : t[n].parent \in S => n \in S
    PROVE  \A n \in 1..Len(t) : n \in S
<1> DEFINE N == Len(t)
           R == {k \in 0..N : \A n \in 1..k : n \in S}
<1>1. N \in Nat /\ \A n \in 2..N : t[n].parent \in 1..(n - 1)
  BY RowsOfTree DEF Tree
<1>2. 0 \in R BY <1>1
<1>3. ASSUME NEW k \in 1..N, k - 1 \in R PROVE k \in R
  <2>1. \A n \in 1..(k - 1) : n \in S BY <1>3
  <2>2. k \in S
    <3>1. CASE k = 1 BY <3>1 DEF Global
    <3>2. CASE k # 1
      <4>1. k \in 2..N BY <1>1, <3>2
      <4>2. t[k].parent \in 1..(k - 1) BY <1>1, <4>1
      <4> QED BY <2>1, <4>1, <4>2
    <3> QED BY <3>1, <3>2
  <2>3. \A n \in 1..k : n = k \/ n \in 1..(k - 1) BY <1>1
  <2>4. k \in 0..N BY <1>1
  <2> QED BY <2>1, <2>2, <2>3, <2>4
<1> HIDE DEF R
<1>4. \A k \in 0..N : k \in R BY <1>1, <1>2, <1>3, Stepwise
<1>5. N \in R BY <1>1, <1>4
<1> QED BY <1>5 DEF R

\* The identifiers that lead to every namespace from the global one.
Paths(P, t) ==
    /\ P \in [1..Len(t) -> Seq(Identifier)]
    /\ P[Global] = <<>>
    /\ \A n \in 2..Len(t) : P[n] = Append(P[t[n].parent], t[n].name)

PathsOf(t) == CHOOSE P : Paths(P, t)

LEMMA PathsOfTree == ASSUME NEW t \in Trees PROVE Paths(PathsOf(t), t)
<1> DEFINE D == Seq(Identifier)
           step == [n \in 1..Len(t) |-> [d \in D |-> Append(d, t[n].name)]]
<1>1. <<>> \in D BY EmptySeq
<1>2. /\ \A n \in 1..Len(t) : t[n].name \in Identifier
      /\ \A n \in 2..Len(t) : n \in 1..Len(t)
  <2>1. \A n \in 2..Len(t) : n \in 1..Len(t) BY RowsOfTree
  <2> QED BY <2>1, RowsOfTree
<1>3. \A n \in 1..Len(t) : \A d \in D : step[n][d] = Append(d, t[n].name)
  OBVIOUS
<1>4. StaysIn(D, Len(t), step) BY <1>2, <1>3 DEF StaysIn
<1>5. \A n \in 2..Len(t) : t[n].parent \in 1..Len(t) BY RowsOfTree DEF Tree
<1> HIDE DEF step
<1>6. PICK f : Climbs(f, D, t, <<>>, step) BY <1>1, <1>4, FromParents
<1>7. ASSUME NEW n \in 2..Len(t) PROVE f[n] = Append(f[t[n].parent], t[n].name)
  <2>1. f[t[n].parent] \in D BY <1>5, <1>6 DEF Climbs
  <2> QED BY <1>2, <1>3, <1>6, <2>1 DEF Climbs
<1>8. Paths(f, t) BY <1>6, <1>7 DEF Paths, Climbs, Global
<1> QED BY <1>8 DEF PathsOf

LEMMA PathOfRow ==
    ASSUME NEW t \in Trees
    PROVE  /\ \A n \in 1..Len(t) : PathsOf(t)[n] \in Seq(Identifier)
           /\ PathsOf(t)[Global] = <<>>
           /\ \A n \in 2..Len(t) :
                 PathsOf(t)[n] = Append(PathsOf(t)[t[n].parent], t[n].name)
BY PathsOfTree DEF Paths

\* More namespaces change no path.
LEMMA PathsStay ==
    ASSUME NEW t \in Trees, NEW u \in Trees, Grown(t, u)
    PROVE  \A n \in 1..Len(t) : n \in 1..Len(u) /\ PathsOf(u)[n] = PathsOf(t)[n]
<1> DEFINE S == {n \in 1..Len(t) : PathsOf(u)[n] = PathsOf(t)[n]}
<1>1. /\ Len(t) \in Nat /\ Len(u) \in Nat /\ Len(t) <= Len(u) /\ Global \in 1..Len(t)
  BY RowsOfTree DEF Grown
<1>2. Global \in S BY <1>1, PathOfRow
<1>3. ASSUME NEW n \in 2..Len(t), t[n].parent \in S PROVE n \in S
  <2>1. n \in 1..Len(t) /\ n \in 2..Len(u) BY <1>1
  <2>2. u[n].name = t[n].name /\ u[n].parent = t[n].parent BY <2>1 DEF Grown
  <2>3. PathsOf(u)[t[n].parent] = PathsOf(t)[t[n].parent] BY <1>3
  <2>4. PathsOf(t)[n] = Append(PathsOf(t)[t[n].parent], t[n].name) BY PathOfRow
  <2>5. PathsOf(u)[n] = Append(PathsOf(u)[u[n].parent], u[n].name) BY <2>1, PathOfRow
  <2> QED BY <2>1, <2>2, <2>3, <2>4, <2>5
<1> HIDE DEF S
<1>4. \A n \in 1..Len(t) : n \in S BY <1>2, <1>3, OfAllBelow
<1>5. \A n \in 1..Len(t) : n \in 1..Len(u) BY <1>1
<1> QED BY <1>4, <1>5 DEF S

LEMMA ChildsPath ==
    ASSUME NEW t \in Trees, NEW id \in 1..Len(t), NEW part, NEW c \in ChildNamed(t, id, part)
    PROVE  PathsOf(t)[c] = Append(PathsOf(t)[id], part)
<1>1. c \in 1..Len(t) /\ t[c].parent = id /\ t[c].name = part
  BY ChildrenAreMembers DEF ChildNamed
<1>2. c # Global
  <2>1. t[Global].parent = 0 /\ Len(t) \in Nat BY RowsOfTree DEF Tree
  <2> QED BY <1>1, <2>1
<1>3. c \in 2..Len(t)
  <2>1. Len(t) \in Nat BY RowsOfTree
  <2> QED BY <1>1, <1>2, <2>1 DEF Global
<1> QED BY <1>1, <1>3, PathOfRow

\* Where ResolveNamespace goes for a name.
LEMMA PathResolved ==
    ASSUME NEW t \in Trees, NEW id \in 1..Len(t), NEW qn,
           NamespaceParts(qn) \in Seq(Identifier),
           NEW r, r = ResolveNamespace(t, qn, id)
    PROVE  PathsOf(r.table)[r.id] =
               (IF qn.absolute THEN <<>> ELSE PathsOf(t)[id]) \o NamespaceParts(qn)
<1> DEFINE parts == NamespaceParts(qn)
           N == Len(parts)
           above == IF qn.absolute THEN <<>> ELSE PathsOf(t)[id]
           Went(f, n) == PathsOf(f[n].table)[f[n].id] = above \o SubSeq(parts, 1, n)
<1>1. PICK f : Goes(f, t, qn, id) /\ r = f[N] BY ResolveGoes
<1>2. N \in Nat /\ \A n \in 0..N : f[n] \in Places BY <1>1, GoesGrows
<1>3. /\ f[0] = [table |-> t, id |-> IF qn.absolute THEN Global ELSE id]
      /\ \A n \in 1..N : f[n] = Descend(f[n - 1], parts[n])
  BY <1>1 DEF Goes, Start
<1>4. above \in Seq(Identifier) /\ PathsOf(f[0].table)[f[0].id] = above
  <2>1. <<>> \in Seq(Identifier) BY EmptySeq
  <2> QED BY <1>3, <2>1, PathOfRow
<1>5. parts \in Seq(Identifier) OBVIOUS
<1> HIDE DEF above, parts, N
<1> DEFINE S == {n \in 0..N : Went(f, n)}
<1>6. 0 \in S
  <2>1. SubSeq(parts, 1, 0) = <<>> BY <1>5
  <2>2. above \o <<>> = above BY <1>4, ConcatEmptySeq
  <2> QED BY <1>2, <1>4, <2>1, <2>2
<1>7. ASSUME NEW n \in 1..N, n - 1 \in S PROVE n \in S
  <2> DEFINE d == f[n - 1]
             e == f[n]
             part == parts[n]
             before == SubSeq(parts, 1, n - 1)
  <2>1. n \in 0..N /\ n - 1 \in 0..N BY <1>2
  <2>2. d \in Places /\ e = Descend(d, part) /\ e \in Places BY <1>2, <1>3, <2>1
  <2>3. part \in Identifier BY <1>5 DEF N
  <2>4. PathsOf(d.table)[d.id] = above \o before BY <1>7
  <2>5. before \in Seq(Identifier) /\ SubSeq(parts, 1, n) = Append(before, part)
    <3>1. n \in 1..Len(parts) /\ Len(parts) \in Nat BY <1>2 DEF N
    <3> QED BY <1>5, <3>1
  <2>6. above \o Append(before, part) = Append(above \o before, part)
    <3> HIDE DEF before, part
    <3> QED BY <1>4, <2>3, <2>5
  <2> HIDE DEF d, e, part
  <2>7. /\ Grown(d.table, e.table) /\ d.id \in 1..Len(e.table)
        /\ e.id \in ChildNamed(e.table, d.id, part)
    <3>1. d \in Places /\ part \in Identifier /\ e = Descend(d, part) BY <2>2, <2>3
    <3>2. /\ Grown(d.table, e.table) /\ d.id \in 1..Len(e.table)
          /\ ChildNamed(e.table, d.id, part) = {e.id}
      BY <3>1, DescendLeads
    <3> QED BY <3>2
  <2>8. /\ d.table \in Trees /\ e.table \in Trees /\ d.id \in 1..Len(d.table)
    BY <2>2 DEF Places
  <2>9. PathsOf(e.table)[e.id] = Append(PathsOf(e.table)[d.id], part)
    <3> DEFINE u == e.table
               a == d.id
    <3>1. u \in Trees /\ a \in 1..Len(u) /\ e.id \in ChildNamed(u, a, part)
      BY <2>7, <2>8
    <3> HIDE DEF u, a
    <3>2. PathsOf(u)[e.id] = Append(PathsOf(u)[a], part) BY <3>1, ChildsPath
    <3> QED BY <3>2 DEF u, a
  <2>10. PathsOf(e.table)[d.id] = PathsOf(d.table)[d.id] BY <2>7, <2>8, PathsStay
  <2>11. PathsOf(e.table)[e.id] = above \o SubSeq(parts, 1, n)
    BY <2>4, <2>5, <2>6, <2>9, <2>10
  <2> QED BY <2>1, <2>11 DEF e
<1> HIDE DEF S
<1>8. \A n \in 0..N : n \in S BY <1>2, <1>6, <1>7, Stepwise
<1>9. Went(f, N) BY <1>2, <1>8 DEF S
<1>10. SubSeq(parts, 1, N) = parts BY <1>5 DEF N
<1> QED BY <1>1, <1>9, <1>10 DEF above, parts

\* What Ancestry finds on the way up, the names of the way down in reverse.
LEMMA AncestryNames ==
    ASSUME NEW t \in Trees, NEW id \in 1..Len(t), NEW above, above = Ancestry(t, id),
           NEW path, path = PathsOf(t)[id]
    PROVE  /\ Len(path) \in Nat /\ Len(above) = Len(path) + 1
           /\ t[above[Len(above)]].name = t[Global].name
           /\ \A i \in 1..Len(path) : t[above[Len(above) - i]].name = path[i]
<1> DEFINE N == Len(t)
           D == Seq(Nat)
           Loop(f) == f = [n \in 1..N |-> IF t[n].parent = 0 THEN <<n>>
                                          ELSE <<n>> \o f[t[n].parent]]
           up == CHOOSE f : Loop(f)
           step == [n \in 1..N |-> [d \in D |-> <<n>> \o d]]
<1>1. /\ N \in Nat /\ t[1].parent = 0 /\ 1 \in 1..N
      /\ \A n \in 2..N : t[n].parent \in 1..(n - 1)
  <2>1. N \in Nat /\ Global \in 1..N /\ Tree(t) BY RowsOfTree
  <2> QED BY <2>1 DEF Tree, Global
<1>2. \A n \in 2..N : t[n].parent # 0 /\ t[n].parent \in 1..N /\ n \in 1..N BY <1>1
<1>3. \A n \in 1..N : \A d \in D : step[n][d] = <<n>> \o d OBVIOUS
<1>4. <<1>> \in D /\ StaysIn(D, N, step)
  <2>1. ASSUME NEW n \in 1..N, NEW d \in D PROVE <<n>> \o d \in D
    <3>1. <<n>> \in Seq(Nat) BY <1>1
    <3> QED BY <3>1, JoinedLength
  <2>2. \A n \in 1..N : \A d \in D : <<n>> \o d \in D BY <2>1
  <2> HIDE DEF step, D
  <2>3. StaysIn(D, N, step) BY <1>3, <2>2 DEF StaysIn
  <2>4. <<1>> \in Seq(Nat) OBVIOUS
  <2> QED BY <2>3, <2>4 DEF D
<1>5. \E f : f \in [1..N -> D] /\ Loop(f)
  <2>1. PICK f : Climbs(f, D, t, <<1>>, step) BY <1>4, FromParents
  <2> HIDE DEF step
  <2>2. /\ f \in [1..N -> D] /\ f[1] = <<1>>
        /\ \A n \in 2..N : f[n] = step[n][f[t[n].parent]]
    BY <2>1 DEF Climbs
  <2>3. ASSUME NEW n \in 1..N
        PROVE  f[n] = IF t[n].parent = 0 THEN <<n>> ELSE <<n>> \o f[t[n].parent]
    <3>1. CASE n = 1 BY <1>1, <2>2, <3>1
    <3>2. CASE n \in 2..N
      <4>1. f[t[n].parent] \in D BY <1>2, <2>2, <3>2
      <4> QED BY <1>2, <1>3, <2>2, <3>2, <4>1
    <3>3. n = 1 \/ n \in 2..N BY <1>1
    <3> QED BY <3>1, <3>2, <3>3
  <2>4. f = [n \in 1..N |-> f[n]] BY <2>2
  <2>5. Loop(f) BY <2>3, <2>4
  <2> QED BY <2>2, <2>5
<1>6. Loop(up) BY <1>5
<1>7. above = up[id] BY DEF Ancestry
<1> HIDE DEF up
<1>8. up[1] = <<1>> /\ \A n \in 2..N : up[n] = <<n>> \o up[t[n].parent]
  BY <1>1, <1>2, <1>6
<1> HIDE DEF Loop
<1> DEFINE P == PathsOf(t)
           Named(n) == /\ up[n] \in D /\ Len(up[n]) = Len(P[n]) + 1
                       /\ t[up[n][Len(up[n])]].name = t[1].name
                       /\ \A i \in 1..Len(P[n]) : t[up[n][Len(up[n]) - i]].name = P[n][i]
           S == {n \in 1..N : Named(n)}
<1>9. /\ \A n \in 1..N : P[n] \in Seq(Identifier)
      /\ P[1] = <<>>
      /\ \A n \in 2..N : P[n] = Append(P[t[n].parent], t[n].name)
  BY PathOfRow DEF Global
<1> HIDE DEF P
<1>10. 1 \in S
  <2>1. Len(<<1>>) = 1 /\ <<1>>[1] = 1 /\ Len(<<>>) = 0 OBVIOUS
  <2>2. up[1] \in D /\ Len(up[1]) = 1 /\ up[1][1] = 1 /\ Len(P[1]) = 0
    BY <1>4, <1>8, <1>9, <2>1
  <2> QED BY <1>1, <2>2
<1>11. ASSUME NEW n \in 2..N, t[n].parent \in S PROVE n \in S
  <2> DEFINE a == up[t[n].parent]
             p == P[t[n].parent]
             w == <<n>> \o a
             q == Append(p, t[n].name)
  <2>1. /\ a \in D /\ Len(a) = Len(p) + 1 /\ t[a[Len(a)]].name = t[1].name
        /\ \A i \in 1..Len(p) : t[a[Len(a) - i]].name = p[i]
    BY <1>11
  <2>2. up[n] = w /\ P[n] = q /\ p \in Seq(Identifier) BY <1>2, <1>8, <1>9
  <2> HIDE DEF a, p
  <2>3. Len(p) \in Nat /\ Len(a) \in Nat BY <2>1, <2>2
  <2>4. /\ w \in D /\ Len(w) = Len(a) + 1 /\ w[1] = n
        /\ \A i \in 1..Len(a) : w[i + 1] = a[i]
    <3> DEFINE e == <<n>>
    <3>1. e \in Seq(Nat) /\ Len(e) = 1 /\ e[1] = n BY <1>2
    <3> HIDE DEF e
    <3>2. w = e \o a BY DEF e
    <3> HIDE DEF w
    <3>3. w \in Seq(Nat) /\ Len(w) = 1 + Len(a) BY <2>1, <3>1, <3>2, JoinedLength
    <3>4. \A i \in 1..(1 + Len(a)) : w[i] = IF i <= 1 THEN e[i] ELSE a[i - 1]
      <4>1. \A i \in 1..(Len(e) + Len(a)) :
               w[i] = IF i <= Len(e) THEN e[i] ELSE a[i - Len(e)]
        BY <2>1, <3>1, <3>2, ConcatProperties
      <4> QED BY <3>1, <4>1
    <3>5. w[1] = n BY <2>3, <3>1, <3>4
    <3>6. ASSUME NEW i \in 1..Len(a) PROVE w[i + 1] = a[i]
      <4>1. i + 1 \in 1..(1 + Len(a)) /\ ~(i + 1 <= 1) /\ (i + 1) - 1 = i BY <2>3
      <4> QED BY <3>4, <4>1
    <3> QED BY <2>3, <3>3, <3>5, <3>6
  <2>5. /\ Len(q) = Len(p) + 1 /\ q[Len(p) + 1] = t[n].name
        /\ \A i \in 1..Len(p) : q[i] = p[i]
    <3>1. t[n].name \in Identifier BY <1>2, RowsOfTree
    <3> QED BY <2>2, <3>1
  <2> HIDE DEF w, q
  <2>6. t[w[Len(w)]].name = t[1].name
    <3>1. Len(a) \in 1..Len(a) BY <2>1, <2>3
    <3>2. w[Len(w)] = a[Len(a)] BY <2>4, <3>1
    <3> QED BY <2>1, <3>2
  <2>7. ASSUME NEW i \in 1..Len(q) PROVE t[w[Len(w) - i]].name = q[i]
    <3>1. CASE i \in 1..Len(p)
      <4>1. Len(a) - i \in 1..Len(a) /\ Len(w) - i = (Len(a) - i) + 1
        BY <2>1, <2>3, <2>4, <3>1
      <4>2. w[Len(w) - i] = a[Len(a) - i] BY <2>4, <4>1
      <4> QED BY <2>1, <2>5, <3>1, <4>2
    <3>2. CASE i = Len(p) + 1
      <4>1. Len(w) - i = 1 BY <2>1, <2>3, <2>4, <3>2
      <4> QED BY <2>4, <2>5, <3>2, <4>1
    <3>3. i \in 1..Len(p) \/ i = Len(p) + 1 BY <2>3, <2>5
    <3> QED BY <3>1, <3>2, <3>3
  <2>8. Named(n)
    <3>1. Len(w) = Len(q) + 1 BY <2>1, <2>3, <2>4, <2>5
    <3> QED BY <2>2, <2>4, <2>6, <2>7, <3>1
  <2> QED BY <1>2, <2>8
<1> HIDE DEF S
<1>12. \A n \in 1..N : n \in S
  <2>1. Global \in S BY <1>10 DEF Global
  <2> QED BY <1>11, <2>1, OfAllBelow
<1>13. Named(id) BY <1>12 DEF S
<1>14. Len(P[id]) \in Nat BY <1>9
<1> QED BY <1>7, <1>13, <1>14 DEF P, Global

-----------------------------------------------------------------------------
(* What Tcl makes of the script.                                           *)

TclOpened(c, here) ==
    CASE c.op = "eval" -> TclPath(here, c.name)
      [] c.op = "proc" -> Front(TclPath(here, c.name))
      [] c.op = "block" -> here

TclBehind(c, before) ==
    CASE c.op = "eval"  -> Append(before, TclPath(Last(before), c.name))
      [] c.op = "proc"  -> Append(before, Front(TclPath(Last(before), c.name)))
      [] c.op = "block" -> Append(before, Last(before))
      [] c.op = "end"   -> Front(before)
      [] c.op = "call"  -> before

TclStacks == Seq(Seq(Identifier)) \ {<<>>}

\* The namespaces of the open levels between the commands.
TclNesting(l) ==
    /\ l \in [0..Len(script) -> TclStacks]
    /\ l[0] = <<(<<>>)>>
    /\ \A i \in 1..Len(script) : l[i] = TclBehind(script[i], l[i - 1])

LEMMA TclPathIsPath ==
    ASSUME NEW here \in Seq(Identifier), NEW name \in Texts
    PROVE  /\ TclPath(here, name) \in Seq(Identifier) /\ Len(TclPath(here, name)) > 0
           /\ Last(TclPath(here, name)) = Last(name)
           /\ Front(TclPath(here, name)) \in Seq(Identifier)
<1> DEFINE path == TclPath(here, name)
<1>1. name \in Seq(Identifier) /\ Len(name) \in Nat /\ Len(name) > 0 /\ Len(here) \in Nat
      /\ Last(name) = name[Len(name)]
  BY TextEnds, TextElements
<1>2. path \in Seq(Identifier) /\ Len(path) \in Nat /\ Len(path) > 0
      /\ path[Len(path)] = name[Len(name)]
  <2>1. CASE IsRooted(name)
    <3>1. path = Tail(name) BY <2>1 DEF TclPath
    <3>2. /\ Tail(name) \in Seq(Identifier) /\ Len(Tail(name)) = Len(name) - 1
          /\ \A i \in 1..(Len(name) - 1) : Tail(name)[i] = name[i + 1]
      BY TextEnds, TextElements
    <3>3. Len(name) > 1 BY <2>1 DEF IsRooted
    <3> HIDE DEF path
    <3>4. Len(name) - 1 \in 1..(Len(name) - 1) /\ (Len(name) - 1) + 1 = Len(name)
      BY <1>1, <3>3
    <3> QED BY <1>1, <3>1, <3>2, <3>3, <3>4
  <2>2. CASE ~IsRooted(name)
    <3>1. path = here \o name BY <2>2 DEF TclPath
    <3> HIDE DEF path
    <3>2. path \in Seq(Identifier) /\ Len(path) = Len(here) + Len(name)
      BY <1>1, <3>1, JoinedLength
    <3>3. \A i \in 1..(Len(here) + Len(name)) :
             path[i] = IF i <= Len(here) THEN here[i] ELSE name[i - Len(here)]
      BY <1>1, <3>1, ConcatProperties
    <3>4. /\ Len(path) \in 1..(Len(here) + Len(name)) /\ ~(Len(path) <= Len(here))
          /\ Len(path) - Len(here) = Len(name)
      BY <1>1, <3>2
    <3> QED BY <1>1, <3>2, <3>3, <3>4
  <2> QED BY <2>1, <2>2
<1> HIDE DEF path
<1>3. Last(path) = path[Len(path)] /\ Front(path) \in Seq(Identifier)
  BY <1>2, FrontAndLast
<1> QED BY <1>1, <1>2, <1>3 DEF path

\* What a command makes of the open levels.
LEMMA TclStep ==
    ASSUME NEW c \in Commands, NEW before \in TclStacks
    PROVE  /\ Len(before) \in Nat /\ Len(before) > 0 /\ Last(before) \in Seq(Identifier)
           /\ Last(before) = before[Len(before)]
           /\ c.op \in Opens =>
                 /\ TclOpened(c, Last(before)) \in Seq(Identifier)
                 /\ TclBehind(c, before) = Append(before, TclOpened(c, Last(before)))
                 /\ TclBehind(c, before) \in TclStacks
                 /\ Len(TclBehind(c, before)) = Len(before) + 1
                 /\ TclBehind(c, before)[Len(before) + 1] = TclOpened(c, Last(before))
                 /\ \A k \in 1..Len(before) : TclBehind(c, before)[k] = before[k]
           /\ c.op = "end" =>
                 /\ Len(TclBehind(c, before)) = Len(before) - 1
                 /\ Len(before) > 1 => TclBehind(c, before) \in TclStacks
                 /\ \A k \in 1..(Len(before) - 1) : TclBehind(c, before)[k] = before[k]
           /\ c.op = "call" => TclBehind(c, before) = before
<1> DEFINE here == Last(before)
           opened == TclOpened(c, here)
           behind == TclBehind(c, before)
<1>1. before \in Seq(Seq(Identifier)) /\ before # <<>> BY DEF TclStacks
<1>2. Len(before) \in Nat /\ Len(before) > 0 BY <1>1, EmptySeq
<1>3. here \in Seq(Identifier) /\ here = before[Len(before)]
  BY <1>1, <1>2, FrontAndLast
<1>4. c.name \in Texts BY DEF Commands
<1>5. c.op \in Opens => opened \in Seq(Identifier) /\ behind = Append(before, opened)
  <2> HIDE DEF here
  <2>1. CASE c.op = "eval"
    <3>1. opened = TclPath(here, c.name) BY <2>1 DEF TclOpened
    <3>2. behind = Append(before, TclPath(here, c.name)) BY <2>1 DEF TclBehind, here
    <3> QED BY <1>3, <1>4, <3>1, <3>2, TclPathIsPath
  <2>2. CASE c.op = "proc"
    <3>1. opened = Front(TclPath(here, c.name)) BY <2>2 DEF TclOpened
    <3>2. behind = Append(before, Front(TclPath(here, c.name)))
      BY <2>2 DEF TclBehind, here
    <3> QED BY <1>3, <1>4, <3>1, <3>2, TclPathIsPath
  <2>3. CASE c.op = "block"
    <3>1. opened = here BY <2>3 DEF TclOpened
    <3>2. behind = Append(before, here) BY <2>3 DEF TclBehind, here
    <3> QED BY <1>3, <3>1, <3>2
  <2> QED BY <2>1, <2>2, <2>3 DEF Opens
<1>6. c.op = "end" => behind = Front(before) BY DEF TclBehind
<1>7. c.op = "call" => behind = before BY DEF TclBehind
<1> HIDE DEF here, opened, behind
<1>8. c.op \in Opens => /\ behind \in TclStacks /\ Len(behind) = Len(before) + 1
                        /\ behind[Len(before) + 1] = opened
                        /\ \A k \in 1..Len(before) : behind[k] = before[k]
  <2> SUFFICES ASSUME c.op \in Opens
               PROVE  /\ behind \in TclStacks /\ Len(behind) = Len(before) + 1
                      /\ behind[Len(before) + 1] = opened
                      /\ \A k \in 1..Len(before) : behind[k] = before[k]
    OBVIOUS
  <2>1. /\ behind \in Seq(Seq(Identifier)) /\ Len(behind) = Len(before) + 1
        /\ behind[Len(before) + 1] = opened
        /\ \A k \in 1..Len(before) : behind[k] = before[k]
    <3> DEFINE D == Seq(Identifier)
    <3>1. before \in Seq(D) /\ opened \in D /\ behind = Append(before, opened)
      BY <1>1, <1>5
    <3> HIDE DEF D
    <3>2. /\ behind \in Seq(D) /\ Len(behind) = Len(before) + 1
          /\ behind[Len(before) + 1] = opened
          /\ \A k \in 1..Len(before) : behind[k] = before[k]
      BY <1>2, <3>1
    <3> QED BY <3>2 DEF D
  <2>2. behind # <<>> BY <1>2, <2>1, EmptySeq
  <2> QED BY <2>1, <2>2 DEF TclStacks
<1>9. c.op = "end" => /\ Len(behind) = Len(before) - 1
                      /\ Len(before) > 1 => behind \in TclStacks
                      /\ \A k \in 1..(Len(before) - 1) : behind[k] = before[k]
  <2> SUFFICES ASSUME c.op = "end"
               PROVE  /\ Len(behind) = Len(before) - 1
                      /\ Len(before) > 1 => behind \in TclStacks
                      /\ \A k \in 1..(Len(before) - 1) : behind[k] = before[k]
    OBVIOUS
  <2>1. /\ behind \in Seq(Seq(Identifier)) /\ Len(behind) = Len(before) - 1
        /\ \A k \in 1..(Len(before) - 1) : behind[k] = before[k]
    BY <1>1, <1>2, <1>6, FrontAndLast
  <2>2. Len(before) > 1 => behind # <<>> BY <1>2, <2>1, EmptySeq
  <2> QED BY <2>1, <2>2 DEF TclStacks
<1> QED BY <1>2, <1>3, <1>5, <1>7, <1>8, <1>9 DEF here, opened, behind

\* The nesting is as deep as that of the parser.
LEMMA TclNests ==
    ASSUME IndexInv, NEW levels, Levels(levels, script)
    PROVE  \E l : TclNesting(l) /\ \A i \in 0..Len(script) : Len(l[i]) = Len(levels[i])
<1> DEFINE N == Len(script)
           start == <<(<<>>)>>
           Step(command, before) ==
               IF command.op = "end" /\ Len(before) = 1 THEN before
               ELSE TclBehind(command, before)
           step == [n \in 1..N |-> [d \in TclStacks |-> Step(script[n], d)]]
<1>1. N \in Nat /\ script \in Seq(Commands) BY DEF IndexInv, ParseInv
<1>2. \A n \in 1..N : script[n] \in Commands BY <1>1
<1>3. start \in TclStacks /\ Len(start) = 1
  <2>1. <<>> \in Seq(Identifier) BY EmptySeq
  <2>2. start \in Seq(Seq(Identifier)) /\ Len(start) = 1 BY <2>1
  <2> HIDE DEF start
  <2> QED BY <2>2, EmptySeq DEF TclStacks
<1>4. \A n \in 1..N : \A d \in TclStacks : step[n][d] = Step(script[n], d) OBVIOUS
<1>5. ASSUME NEW c \in Commands, NEW d \in TclStacks PROVE Step(c, d) \in TclStacks
  <2>1. c.op \in Opens \/ c.op = "end" \/ c.op = "call" BY DEF Commands, Opens
  <2>2. CASE c.op \in Opens
    <3>1. TclBehind(c, d) \in TclStacks BY <2>2, TclStep
    <3> QED BY <2>2, <3>1 DEF Opens
  <2>3. CASE c.op = "end"
    <3>1. CASE Len(d) = 1 BY <2>3, <3>1
    <3>2. CASE Len(d) # 1
      <4>1. Len(d) \in Nat /\ Len(d) > 0 BY TclStep
      <4>2. Len(d) > 1
        <5> DEFINE depth == Len(d)
        <5>1. depth \in Nat /\ depth > 0 /\ depth # 1 BY <3>2, <4>1
        <5> HIDE DEF depth, Step, N, start
        <5>2. depth > 1 BY <5>1
        <5> QED BY <5>2 DEF depth
      <4>3. TclBehind(c, d) \in TclStacks BY <2>3, <4>2, TclStep
      <4> QED BY <3>2, <4>3
    <3> QED BY <3>1, <3>2
  <2>4. CASE c.op = "call"
    <3>1. TclBehind(c, d) = d BY <2>4, TclStep
    <3> QED BY <2>4, <3>1
  <2> QED BY <2>1, <2>2, <2>3, <2>4
<1> HIDE DEF step, start
<1>6. StaysIn(TclStacks, N, step)
  <2> HIDE DEF Step
  <2>1. \A n \in 1..N : \A d \in TclStacks : Step(script[n], d) \in TclStacks
    BY <1>2, <1>5
  <2> QED BY <1>4, <2>1 DEF StaysIn
<1>7. PICK l : Loops(l, TclStacks, N, start, step) BY <1>1, <1>3, <1>6, LoopExists
<1>8. /\ l \in [0..N -> TclStacks] /\ l[0] = start
      /\ \A n \in 1..N : l[n] = step[n][l[n - 1]]
  BY <1>7 DEF Loops
<1>9. ASSUME NEW n \in 1..N
      PROVE  /\ n \in 0..N /\ n - 1 \in 0..N /\ l[n - 1] \in TclStacks
             /\ l[n] = Step(script[n], l[n - 1])
  <2>1. n \in 0..N /\ n - 1 \in 0..N BY <1>1
  <2>2. l[n - 1] \in TclStacks BY <1>8, <2>1
  <2> QED BY <1>4, <1>8, <2>1, <2>2
<1> DEFINE S == {n \in 0..N : Len(l[n]) = Len(levels[n])}
<1>10. 0 \in S
  <2>1. Len(levels[0]) = 1
    <3>1. levels[0] = <<EmptyText>> BY DEF Levels
    <3> QED BY <3>1
  <2> QED BY <1>1, <1>3, <1>8, <2>1
<1>11. ASSUME NEW n \in 1..N, Len(l[n - 1]) = Len(levels[n - 1])
       PROVE  Len(l[n]) = Len(levels[n]) /\ l[n] = TclBehind(script[n], l[n - 1])
  <2> DEFINE c == script[n]
             d == l[n - 1]
  <2>1. c \in Commands /\ d \in TclStacks /\ l[n] = Step(c, d) BY <1>2, <1>9
  <2>2. /\ Len(levels[n - 1]) \in Nat /\ Len(levels[n]) \in Nat
        /\ Len(levels[n]) > 0
        /\ c.op \in Opens => Len(levels[n]) = Len(levels[n - 1]) + 1
        /\ c.op = "end" => Len(levels[n]) = Len(levels[n - 1]) - 1
        /\ c.op = "call" => Len(levels[n]) = Len(levels[n - 1])
    BY <1>1, DepthBehind
  <2>3. Len(d) = Len(levels[n - 1]) BY <1>11
  <2>4. c.op = "end" => Len(d) # 1
    <3> DEFINE above == Len(levels[n - 1])
               below == Len(levels[n])
    <3>1. /\ above \in Nat /\ below \in Nat /\ below > 0
          /\ c.op = "end" => below = above - 1
      BY <2>2
    <3> HIDE DEF above, below, c, d
    <3>2. c.op = "end" => above # 1 BY <3>1
    <3> QED BY <2>3, <3>2 DEF above
  <2>5. l[n] = TclBehind(c, d) BY <2>1, <2>4
  <2> HIDE DEF c, d
  <2>6. /\ c.op \in Opens => Len(TclBehind(c, d)) = Len(d) + 1
        /\ c.op = "end" => Len(TclBehind(c, d)) = Len(d) - 1
        /\ c.op = "call" => Len(TclBehind(c, d)) = Len(d)
    BY <2>1, TclStep
  <2>7. c.op \in Opens \/ c.op = "end" \/ c.op = "call" BY <2>1 DEF Commands, Opens
  <2>8. Len(l[n]) = Len(levels[n]) BY <2>2, <2>3, <2>5, <2>6, <2>7
  <2> QED BY <2>5, <2>8 DEF c, d
<1>12. ASSUME NEW n \in 1..N, n - 1 \in S PROVE n \in S
  BY <1>9, <1>11, <1>12
<1>13. \A n \in 0..N : n \in S
  <2> HIDE DEF S
  <2> QED BY <1>1, <1>10, <1>12, Stepwise
<1>14. ASSUME NEW n \in 1..N PROVE l[n] = TclBehind(script[n], l[n - 1])
  <2>1. n - 1 \in S BY <1>9, <1>13
  <2> QED BY <1>11, <2>1
<1>15. TclNesting(l) BY <1>8, <1>14 DEF TclNesting, start
<1> QED BY <1>13, <1>15

\* TclLevels has the nesting before every command.
LEMMA TclLevelsAre ==
    ASSUME Len(script) \in Nat, NEW l, TclNesting(l)
    PROVE  \A i \in 1..Len(script) : TclLevels[i] = l[i - 1]
<1> DEFINE N == Len(script)
           Loop(f) == f = [i \in 1..N |->
                              IF i = 1 THEN <<(<<>>)>>
                              ELSE TclBehind(script[i - 1], f[i - 1])]
           levels == CHOOSE f : Loop(f)
           g == [i \in 1..N |-> l[i - 1]]
<1>1. l[0] = <<(<<>>)>> /\ \A i \in 1..N : l[i] = TclBehind(script[i], l[i - 1])
  BY DEF TclNesting
<1>2. TclLevels = levels BY DEF TclLevels, TclBehind
<1>3. Loop(g)
  <2>1. ASSUME NEW i \in 1..N
        PROVE  g[i] = IF i = 1 THEN <<(<<>>)>> ELSE TclBehind(script[i - 1], g[i - 1])
    <3>1. CASE i = 1 BY <1>1, <3>1
    <3>2. CASE i # 1
      <4>1. i - 1 \in 1..N BY <3>2
      <4>2. g[i] = l[i - 1] /\ g[i - 1] = l[(i - 1) - 1] BY <4>1
      <4> HIDE DEF g
      <4> QED BY <1>1, <3>2, <4>1, <4>2
    <3> QED BY <3>1, <3>2
  <2>2. g = [i \in 1..N |-> g[i]] OBVIOUS
  <2> HIDE DEF g
  <2> QED BY <2>1, <2>2
<1>4. Loop(levels)
  <2> HIDE DEF g
  <2>1. \E f : Loop(f) BY <1>3
  <2> QED BY <2>1
<1> HIDE DEF levels
<1>5. \A i \in 1..N : levels[i] = IF i = 1 THEN <<(<<>>)>>
                                 ELSE TclBehind(script[i - 1], levels[i - 1])
  BY <1>4
<1> HIDE DEF Loop, N
<1> DEFINE S == {i \in 0..N : i > 0 => levels[i] = l[i - 1]}
<1>6. N \in Nat BY DEF N
<1>7. 0 \in S BY <1>6
<1>8. ASSUME NEW i \in 1..N, i - 1 \in S PROVE i \in S
  <2>1. CASE i = 1 BY <1>1, <1>5, <1>6, <2>1
  <2>2. CASE i # 1
    <3>1. i - 1 \in 1..N /\ i - 1 > 0 BY <1>6, <2>2
    <3>2. levels[i - 1] = l[(i - 1) - 1] BY <1>8, <3>1
    <3>3. l[i - 1] = TclBehind(script[i - 1], l[(i - 1) - 1]) BY <1>1, <3>1
    <3>4. levels[i] = l[i - 1] BY <1>5, <2>2, <3>2, <3>3
    <3> QED BY <1>6, <3>4
  <2> QED BY <2>1, <2>2
<1> HIDE DEF S
<1>9. \A i \in 0..N : i \in S BY <1>6, <1>7, <1>8, Stepwise
<1>10. ASSUME NEW i \in 1..N PROVE levels[i] = l[i - 1]
  <2>1. i \in 0..N /\ i > 0 BY <1>6
  <2> QED BY <1>9, <2>1 DEF S
<1> QED BY <1>2, <1>10 DEF N

\* There is one such nesting.
LEMMA TclNestingIsUnique ==
    ASSUME Len(script) \in Nat, NEW l, TclNesting(l), NEW m, TclNesting(m)
    PROVE  \A n \in 0..Len(script) : l[n] = m[n]
<1> DEFINE S == {n \in 0..Len(script) : l[n] = m[n]}
<1>1. /\ l[0] = m[0]
      /\ \A i \in 1..Len(script) : l[i] = TclBehind(script[i], l[i - 1])
      /\ \A i \in 1..Len(script) : m[i] = TclBehind(script[i], m[i - 1])
  BY DEF TclNesting
<1>2. 0 \in S BY <1>1
<1>3. ASSUME NEW n \in 1..Len(script), n - 1 \in S PROVE n \in S
  <2>1. l[n - 1] = m[n - 1] /\ n \in 0..Len(script) BY <1>3
  <2> QED BY <1>1, <2>1
<1> HIDE DEF S
<1>4. \A n \in 0..Len(script) : n \in S BY <1>2, <1>3, Stepwise
<1> QED BY <1>4 DEF S

LEMMA SameDepth ==
    ASSUME IndexInv, NEW levels, Levels(levels, script), NEW l, TclNesting(l)
    PROVE  \A i \in 0..Len(script) : Len(l[i]) = Len(levels[i])
<1>1. PICK m : TclNesting(m) /\ \A i \in 0..Len(script) : Len(m[i]) = Len(levels[i])
  BY TclNests
<1>2. Len(script) \in Nat BY DEF IndexInv, ParseInv
<1> QED BY <1>1, <1>2, TclNestingIsUnique

\* A walk has as many namespaces on its path as Tcl has levels.
LEMMA DepthOfWalk ==
    ASSUME IndexInv, NEW l, TclNesting(l)
    PROVE  /\ Len(script) \in Nat /\ script \in Seq(Commands) /\ at - 1 \in 0..Len(script)
           /\ l[at - 1] \in TclStacks
           /\ Len(nsPath) \in Nat /\ Len(nsPath) > 0 /\ Len(nsPath) = Len(l[at - 1])
           /\ Here = nsPath[Len(nsPath)]
           /\ Last(l[at - 1]) = l[at - 1][Len(nsPath)]
           /\ Last(l[at - 1]) \in Seq(Identifier)
<1>1. /\ Len(script) \in Nat /\ script \in Seq(Commands) /\ at - 1 \in 0..Len(script)
  <2>1. /\ script \in Seq(Commands) /\ at \in 1..(Len(script) + 1)
    BY DEF IndexInv, ParseInv
  <2> QED BY <2>1
<1>2. PICK levels : Levels(levels, script) /\ Len(nsPath) = Len(levels[at - 1])
  BY DEF IndexInv, NestingInv
<1>5. Len(nsPath) = Len(l[at - 1]) BY <1>1, <1>2, SameDepth
<1>6. l[at - 1] \in TclStacks BY <1>1 DEF TclNesting
<1>7. /\ Len(nsPath) \in Nat /\ Len(nsPath) > 0 /\ Here = nsPath[Len(nsPath)]
  <2>1. nsPath \in Seq(1..Len(namespaces)) /\ Len(nsPath) > 0
    BY DEF IndexInv, PathInv
  <2> QED BY <2>1, FrontAndLast DEF Here
<1> DEFINE D == Seq(Identifier)
           stack == l[at - 1]
<1>8. stack \in Seq(D) /\ Len(stack) > 0 BY <1>5, <1>6, <1>7 DEF TclStacks
<1> HIDE DEF D, stack
<1>9. Last(stack) = stack[Len(stack)] /\ Last(stack) \in D BY <1>8, FrontAndLast
<1> QED BY <1>1, <1>5, <1>6, <1>7, <1>9 DEF D, stack

-----------------------------------------------------------------------------
(* The path of a walk.                                                     *)

\* The first walk does not enter the namespace of the name of a proc.
Misled(i) == phase = "scan" /\ script[i].op = "proc" /\ Len(script[i].name) # 1

\* Levels that are not inside such a body.
Open(l, i, a) == \A k \in i..a : Len(l[k]) > Len(l[i - 1])

Trusted(l, a, k) ==
    \A i \in 1..a : Misled(i) /\ Open(l, i, a) => k <= Len(l[i - 1])

\* Those levels of a walk are in the namespaces that Tcl is in.
Followed ==
    \A l : TclNesting(l) =>
        \A k \in 1..Len(nsPath) :
            Trusted(l, at - 1, k) =>
                PathsOf(namespaces)[nsPath[k]] = l[at - 1][k]

LEMMA TrustStays ==
    ASSUME Len(script) \in Nat, NEW l, NEW a \in Nat, NEW k \in Nat,
           Len(l[a + 1]) \in Nat, \A i \in 0..a : Len(l[i]) \in Nat,
           k <= Len(l[a + 1]), Trusted(l, a + 1, k)
    PROVE  Trusted(l, a, k)
<1> SUFFICES ASSUME NEW i \in 1..a, Misled(i), Open(l, i, a)
             PROVE  k <= Len(l[i - 1])
  BY DEF Trusted
<1>1. i \in 1..(a + 1) /\ i - 1 \in 0..a OBVIOUS
<1>2. CASE Open(l, i, a + 1) BY <1>1, <1>2 DEF Trusted
<1>3. CASE ~Open(l, i, a + 1)
  <2>1. PICK m \in i..(a + 1) : ~(Len(l[m]) > Len(l[i - 1])) BY <1>3 DEF Open
  <2>2. m = a + 1
    <3>1. m \notin i..a BY <2>1 DEF Open
    <3> QED BY <3>1
  <2>3. Len(l[i - 1]) \in Nat BY <1>1
  <2>4. ~(Len(l[a + 1]) > Len(l[i - 1])) BY <2>1, <2>2
  <2> DEFINE inner == Len(l[a + 1])
             outer == Len(l[i - 1])
  <2>5. inner \in Nat /\ outer \in Nat /\ ~(inner > outer) /\ k <= inner BY <2>3, <2>4
  <2> HIDE DEF inner, outer
  <2>6. k <= outer BY <2>5
  <2> QED BY <2>6 DEF outer
<1> QED BY <1>2, <1>3

\* A level that is opened is as good as that around it and the way it is opened.
LEMMA TrustOpened ==
    ASSUME Len(script) \in Nat, NEW l, NEW a \in Nat,
           \A i \in 0..a : Len(l[i]) \in Nat,
           Len(l[a + 1]) = Len(l[a]) + 1, Trusted(l, a + 1, Len(l[a + 1]))
    PROVE  ~Misled(a + 1) /\ Trusted(l, a, Len(l[a]))
<1>1. a \in 0..a /\ Len(l[a]) \in Nat OBVIOUS
<1>2. ~Misled(a + 1)
  <2> SUFFICES ASSUME Misled(a + 1) PROVE FALSE
    OBVIOUS
  <2>1. (a + 1) - 1 = a /\ a + 1 \in 1..(a + 1) OBVIOUS
  <2>2. Open(l, a + 1, a + 1)
    <3>1. \A k \in (a + 1)..(a + 1) : k = a + 1 OBVIOUS
    <3>2. Len(l[a + 1]) > Len(l[a]) BY <1>1
    <3> QED BY <2>1, <3>1, <3>2 DEF Open
  <2>3. Len(l[a + 1]) <= Len(l[(a + 1) - 1]) BY <2>1, <2>2 DEF Trusted
  <2> QED BY <1>1, <2>1, <2>3
<1>3. ASSUME NEW i \in 1..a, Misled(i), Open(l, i, a) PROVE FALSE
  <2>1. i \in 1..(a + 1) /\ i - 1 \in 0..a /\ a \in i..a OBVIOUS
  <2> DEFINE outer == Len(l[i - 1])
             here == Len(l[a])
             inner == Len(l[a + 1])
  <2>2. outer \in Nat /\ here \in Nat /\ here > outer /\ inner = here + 1
    BY <1>1, <1>3, <2>1 DEF Open
  <2>3. Open(l, i, a + 1)
    <3>1. \A k \in i..(a + 1) : k = a + 1 \/ k \in i..a OBVIOUS
    <3>2. inner > outer
      <4> HIDE DEF inner, outer, here
      <4> QED BY <2>2
    <3> QED BY <1>3, <3>1, <3>2 DEF Open
  <2>4. inner <= outer BY <1>3, <2>1, <2>3 DEF Trusted
  <2> HIDE DEF inner, outer, here
  <2> QED BY <2>2, <2>4
<1> QED BY <1>2, <1>3 DEF Trusted

\* One step of a walk.
LEMMA FollowOn ==
    ASSUME IndexInv, IndexInv', Followed, Grown(namespaces, namespaces'),
           at \in 1..Len(script), Walk,
           \A k \in 1..Len(nsPath') : k <= Len(nsPath) => nsPath'[k] = nsPath[k],
           script[at].op \in Opens =>
               \A l : /\ TclNesting(l) /\ ~Misled(at)
                      /\ PathsOf(namespaces)[Here] = Last(l[at - 1])
                      => PathsOf(namespaces')[Here'] =
                             TclOpened(script[at], Last(l[at - 1]))
    PROVE  Followed'
<1>1. at' = at + 1 /\ script' = script /\ phase' = phase /\ at' - 1 = at BY DEF Walk
<1>2. ASSUME NEW l, TclNesting(l), NEW k \in 1..Len(nsPath'), Trusted(l, at, k)
      PROVE  PathsOf(namespaces')[nsPath'[k]] = l[at][k]
  <2> DEFINE a == at - 1
             c == script[at]
             before == l[at - 1]
             behind == l[at]
             P == PathsOf(namespaces)
             Q == PathsOf(namespaces')
  <2>1. /\ Len(script) \in Nat /\ script \in Seq(Commands) /\ a \in 0..Len(script)
        /\ before \in TclStacks /\ Len(nsPath) \in Nat /\ Len(nsPath) > 0
        /\ Len(nsPath) = Len(before)
        /\ Here = nsPath[Len(nsPath)] /\ Last(before) = before[Len(nsPath)]
    BY <1>2, DepthOfWalk
  <2>2. PICK levels : Levels(levels, script) /\ Len(nsPath') = Len(levels[at])
    BY <1>1 DEF IndexInv, NestingInv
  <2>3. /\ Len(nsPath') \in Nat /\ Len(nsPath') = Len(behind)
        /\ Here' = nsPath'[Len(nsPath')]
    <3>1. nsPath' \in Seq(1..Len(namespaces')) /\ Len(nsPath') > 0
      BY DEF IndexInv, PathInv
    <3>2. Len(nsPath') \in Nat /\ Here' = nsPath'[Len(nsPath')]
      BY <3>1, FrontAndLast DEF Here
    <3>3. at \in 0..Len(script) BY <2>1
    <3>4. Len(nsPath') = Len(behind) BY <1>2, <2>2, <3>3, SameDepth
    <3> QED BY <3>2, <3>4
  <2>4. a + 1 = at /\ a \in Nat BY <2>1
  <2>5. c \in Commands /\ behind = TclBehind(c, before)
    BY <1>2, <2>1 DEF TclNesting
  <2>6. ASSUME NEW i \in 0..a PROVE Len(l[i]) \in Nat
    <3>1. i \in 0..Len(script) BY <2>1
    <3>2. l[i] \in TclStacks BY <1>2, <3>1 DEF TclNesting
    <3> QED BY <2>5, <3>2, TclStep
  <2>7. /\ namespaces \in Trees /\ namespaces' \in Trees
        /\ nsPath \in Seq(1..Len(namespaces))
    BY DEF IndexInv, PathInv
  <2>8. ASSUME NEW j \in 1..Len(nsPath) PROVE Q[nsPath[j]] = P[nsPath[j]]
    <3>1. nsPath[j] \in 1..Len(namespaces) BY <2>7
    <3> QED BY <2>7, <3>1, PathsStay
  <2>9. \A j \in 1..Len(nsPath) : Trusted(l, a, j) => P[nsPath[j]] = before[j]
    BY <1>2 DEF Followed
  <2>10. CASE k <= Len(nsPath)
    <3>1. k \in Nat /\ k \in 1..Len(nsPath) BY <2>1, <2>3, <2>10
    <3>2. nsPath'[k] = nsPath[k] BY <2>10
    <3>3. k <= Len(l[a + 1]) /\ Len(l[a + 1]) \in Nat BY <2>3, <2>4
    <3>4. Trusted(l, a + 1, k) BY <1>2, <2>4
    <3>5. Trusted(l, a, k)
      <4> HIDE DEF a
      <4> QED BY <2>1, <2>4, <2>6, <3>1, <3>3, <3>4, TrustStays
    <3>6. Q[nsPath'[k]] = before[k] BY <2>8, <2>9, <3>1, <3>2, <3>5
    <3>7. behind[k] = before[k]
      <4> HIDE DEF before, behind, c
      <4>1. c.op \in Opens \/ c.op = "end" \/ c.op = "call"
        BY <2>5 DEF Commands, Opens
      <4>2. CASE c.op \in Opens
        <5>1. \A j \in 1..Len(before) : behind[j] = before[j]
          BY <2>1, <2>5, <4>2, TclStep
        <5> QED BY <2>1, <3>1, <5>1
      <4>3. CASE c.op = "end"
        <5>1. Len(behind) = Len(before) - 1 BY <2>1, <2>5, <4>3, TclStep
        <5>2. k \in 1..(Len(before) - 1) BY <2>3, <5>1
        <5> QED BY <2>1, <2>5, <4>3, <5>2, TclStep
      <4>4. CASE c.op = "call" BY <2>1, <2>5, <4>4, TclStep
      <4> QED BY <4>1, <4>2, <4>3, <4>4
    <3> QED BY <3>6, <3>7
  <2>11. CASE ~(k <= Len(nsPath))
    <3>1. c.op \in Opens /\ k = Len(before) + 1 /\ Len(behind) = Len(before) + 1
      <4> HIDE DEF before, behind, c
      <4>1. c.op \in Opens \/ c.op = "end" \/ c.op = "call"
        BY <2>5 DEF Commands, Opens
      <4>2. Len(behind) > Len(before) BY <2>1, <2>3, <2>11
      <4>3. c.op # "end"
        <5>1. c.op = "end" => Len(behind) = Len(before) - 1
          BY <2>1, <2>5, TclStep
        <5> QED BY <2>1, <4>2, <5>1
      <4>4. c.op # "call"
        <5>1. c.op = "call" => Len(behind) = Len(before) BY <2>1, <2>5, TclStep
        <5> QED BY <2>1, <4>2, <5>1
      <4>5. Len(behind) = Len(before) + 1 BY <2>1, <2>5, <4>1, <4>3, <4>4, TclStep
      <4> QED BY <2>1, <2>3, <2>11, <4>1, <4>3, <4>4, <4>5
    <3>2. ~Misled(at) /\ Trusted(l, a, Len(l[a]))
      <4>1. Len(l[a + 1]) = Len(l[a]) + 1 /\ k = Len(l[a + 1]) BY <2>4, <3>1
      <4>2. Trusted(l, a + 1, Len(l[a + 1])) BY <1>2, <2>4, <4>1
      <4> HIDE DEF a
      <4>3. ~Misled(a + 1) /\ Trusted(l, a, Len(l[a]))
        BY <2>1, <2>4, <2>6, <4>1, <4>2, TrustOpened
      <4> QED BY <2>4, <4>3
    <3>3. P[Here] = Last(before)
      <4>1. Len(nsPath) \in 1..Len(nsPath) BY <2>1
      <4>2. Trusted(l, a, Len(nsPath)) BY <2>1, <3>2
      <4> QED BY <2>1, <2>9, <4>1, <4>2
    <3>4. Q[Here'] = TclOpened(c, Last(before)) BY <1>2, <3>1, <3>2, <3>3
    <3>5. nsPath'[k] = Here' BY <2>3, <3>1
    <3>6. behind[k] = TclOpened(c, Last(before))
      <4> HIDE DEF before, behind, c
      <4> QED BY <2>1, <2>5, <3>1, TclStep
    <3> QED BY <3>4, <3>5, <3>6
  <2> QED BY <2>10, <2>11
<1>3. ASSUME NEW l, TclNesting(l)' PROVE TclNesting(l) BY <1>1, <1>3 DEF TclNesting
<1> QED BY <1>1, <1>2, <1>3 DEF Followed, Trusted, Misled

-----------------------------------------------------------------------------
(* The namespaces of the names.                                            *)

\* A rooted text behind "namespace eval" is taken for a relative one, and an
\* empty name of a proc for an absolute one (index.cpp:380-383,
\* script.cpp:137-143).
PlainNames ==
    \A i \in 1..Len(script) :
        /\ script[i].op = "eval" => ~IsRooted(script[i].name)
        /\ script[i].op = "proc" => script[i].name # EmptyText

LEMMA FrontOfAppend ==
    ASSUME NEW S, NEW s \in Seq(S), NEW x \in S
    PROVE  Front(Append(s, x)) = s
<1> DEFINE w == Append(s, x)
           f == Front(w)
<1>1. /\ Len(s) \in Nat /\ w \in Seq(S) /\ Len(w) = Len(s) + 1
      /\ \A i \in 1..Len(s) : w[i] = s[i]
  OBVIOUS
<1> HIDE DEF w
<1>2. /\ f \in Seq(S) /\ Len(f) = Len(w) - 1
      /\ \A i \in 1..(Len(w) - 1) : f[i] = w[i]
  <2>1. Len(w) > 0 BY <1>1
  <2> QED BY <1>1, <2>1, FrontAndLast
<1> HIDE DEF f
<1>3. Len(f) = Len(s) /\ Len(w) - 1 = Len(s) BY <1>1, <1>2
<1>4. \A i \in 1..Len(f) : f[i] = s[i] BY <1>1, <1>2, <1>3
<1>5. f = s BY <1>2, <1>3, <1>4, SeqEqual
<1> QED BY <1>5 DEF f, w

LEMMA NameInTwo ==
    ASSUME NEW t \in Texts
    PROVE  t = Append(Front(t), Last(t))
<1> DEFINE front == Front(t)
           last == Last(t)
           w == Append(front, last)
<1>1. /\ t \in Seq(Identifier) /\ Len(t) \in Nat /\ Len(t) > 0
      /\ front \in Seq(Identifier) /\ Len(front) = Len(t) - 1
      /\ last \in Identifier /\ last = t[Len(t)]
      /\ \A i \in 1..(Len(t) - 1) : front[i] = t[i]
  BY TextEnds, TextElements
<1> HIDE DEF front, last
<1>2. /\ w \in Seq(Identifier) /\ Len(w) = Len(front) + 1
      /\ \A i \in 1..Len(front) : w[i] = front[i]
      /\ w[Len(front) + 1] = last
  BY <1>1
<1> HIDE DEF w
<1>3. ASSUME NEW i \in 1..Len(t) PROVE t[i] = w[i]
  <2>1. CASE i \in 1..(Len(t) - 1) BY <1>1, <1>2, <2>1
  <2>2. CASE i = Len(t)
    <3>1. Len(front) + 1 = Len(t) BY <1>1
    <3> QED BY <1>1, <1>2, <2>2, <3>1
  <2> QED BY <1>1, <2>1, <2>2
<1>4. Len(t) = Len(w) BY <1>1, <1>2
<1>5. t = w BY <1>1, <1>2, <1>3, <1>4, SeqEqual
<1> QED BY <1>5 DEF w, front, last

\* Where a proc is, and where the walks look for it.
LEMMA ProcsPath ==
    ASSUME NEW here \in Seq(Identifier), NEW name \in Texts, name # EmptyText,
           NEW qn, qn = SplitName(name)
    PROVE  /\ qn.name = Last(name)
           /\ Front(TclPath(here, name)) =
                  (IF qn.absolute THEN <<>> ELSE here) \o NamespaceParts(qn)
           /\ ~HasNamespace(qn) => Front(TclPath(here, name)) = here
           /\ Len(name) = 1 => ~HasNamespace(qn)
<1> DEFINE front == Front(name)
           last == Last(name)
<1>1. /\ name \in Seq(Identifier) /\ Len(name) \in Nat /\ Len(name) > 0
      /\ front \in Seq(Identifier) /\ Len(front) = Len(name) - 1
      /\ last \in Identifier /\ name = Append(front, last)
  BY TextEnds, NameInTwo
<1>2. /\ qn.ns = IF Len(name) = 1 THEN NoNs ELSE front
      /\ qn.name = last /\ qn.absolute = IsRooted(name)
  BY SplitOf
<1>3. here \o <<>> = here BY ConcatEmptySeq
<1>4. CASE IsRooted(name)
  <2>1. Len(name) > 1 /\ qn.absolute BY <1>2, <1>4 DEF IsRooted
  <2>2. Len(name) # 1 BY <1>1, <2>1
  <2>3. qn.ns = front /\ qn.ns # NoNs
    <3>1. front # NoNs BY <1>1, <2>1, EmptySeq DEF NoNs
    <3> QED BY <1>2, <2>2, <3>1
  <2>4. NamespaceParts(qn) = Tail(front) BY <2>1, <2>3, RootTakenOff
  <2>5. Append(Tail(front), last) = Tail(name) BY <2>1, TailOfName
  <2>6. Tail(front) \in Seq(Identifier)
    <3>1. front \in Texts BY <1>1, <2>3 DEF Texts, NoNs
    <3> HIDE DEF front
    <3> QED BY <3>1, TextEnds
  <2>7. TclPath(here, name) = Tail(name) BY <1>4 DEF TclPath
  <2> DEFINE tail == Tail(front)
  <2> HIDE DEF tail
  <2>8. tail \in Seq(Identifier) /\ Append(tail, last) = Tail(name) BY <2>5, <2>6 DEF tail
  <2>9. Front(Append(tail, last)) = tail
    <3> HIDE DEF last
    <3> QED BY <1>1, <2>8, FrontOfAppend
  <2>10. Front(TclPath(here, name)) = tail BY <2>7, <2>8, <2>9
  <2>11. <<>> \o tail = tail BY <2>8, ConcatEmptySeq
  <2>12. HasNamespace(qn) BY <2>1 DEF HasNamespace
  <2> QED BY <1>2, <2>1, <2>2, <2>4, <2>10, <2>11, <2>12 DEF tail
<1>5. CASE ~IsRooted(name)
  <2>1. ~qn.absolute BY <1>2, <1>5
  <2>2. NamespaceParts(qn) = front
    <3>1. CASE Len(name) = 1
      <4>1. qn.ns = NoNs BY <1>2, <3>1
      <4>2. front = <<>> BY <1>1, <3>1, EmptySeq
      <4> QED BY <2>1, <4>1, <4>2 DEF NamespaceParts
    <3>2. CASE Len(name) # 1
      <4>1. qn.ns = front BY <1>2, <3>2
      <4>2. front # NoNs BY <1>1, <3>2, EmptySeq DEF NoNs
      <4> QED BY <2>1, <4>1, <4>2 DEF NamespaceParts
    <3> QED BY <3>1, <3>2
  <2>3. TclPath(here, name) = here \o name BY <1>5 DEF TclPath
  <2> HIDE DEF front, last
  <2> DEFINE s == here \o front
  <2>4. here \o Append(front, last) = Append(s, last) BY <1>1
  <2>5. s \in Seq(Identifier) BY <1>1, JoinedLength
  <2>6. Front(Append(s, last)) = s
    <3> HIDE DEF s
    <3> QED BY <1>1, <2>5, FrontOfAppend
  <2>7. Front(TclPath(here, name)) = s BY <1>1, <2>3, <2>4, <2>6
  <2>8. ~HasNamespace(qn) => front = <<>>
    <3>1. ~HasNamespace(qn) => NamespaceParts(qn) = <<>>
      BY DEF HasNamespace, NamespaceParts
    <3> QED BY <2>2, <3>1
  <2>9. Len(name) = 1 => ~HasNamespace(qn) BY <1>2, <2>1 DEF HasNamespace
  <2>10. ~HasNamespace(qn) => s = here BY <1>3, <2>8
  <2>11. qn.name = Last(name) BY <1>2 DEF last
  <2> HIDE DEF s
  <2> QED BY <2>1, <2>2, <2>7, <2>9, <2>10, <2>11 DEF s
<1> QED BY <1>4, <1>5

-----------------------------------------------------------------------------
(* The places of the procs.                                                *)

PathHere == PathsOf(namespaces)[Here]

RootInv == namespaces[Global].name = E

FollowedInv == PlainNames /\ phase \in {"scan", "index"} => Followed

\* The proc is the one that the command at its definition names.
DefinedAt(l, r) ==
    LET c == script[r.location]
    IN  /\ c.op = "proc"
        /\ procs[r.id].name = Last(c.name)
        /\ PathsOf(namespaces)[procs[r.id].parent] =
               Front(TclPath(Last(l[r.location - 1]), c.name))

PlacesInv ==
    \A r \in ToSet(references) : r.type = "DEFINITION" =>
        /\ phase # "parse"
        /\ PlainNames /\ BodiesKeepNamespace =>
              \A l : TclNesting(l) => DefinedAt(l, r)

NameInv == RootInv /\ FollowedInv /\ PlacesInv

LEMMA NameInit == Init => NameInv
<1> SUFFICES ASSUME Init PROVE NameInv
  OBVIOUS
<1>1. RootInv BY DEF Init, RootInv, Global
<1>2. FollowedInv BY DEF Init, FollowedInv
<1>3. PlacesInv
  <2>1. references = <<>> BY DEF Init
  <2>2. ToSet(references) = {} BY <2>1 DEF ToSet
  <2> QED BY <2>2 DEF PlacesInv
<1> QED BY <1>1, <1>2, <1>3 DEF NameInv

LEMMA RootStays ==
    ASSUME IndexInv, RootInv, Grown(namespaces, namespaces') PROVE RootInv'
<1>1. Global \in 1..Len(namespaces) BY RowsOfTree DEF IndexInv
<1> QED BY <1>1 DEF RootInv, Grown

\* A walk begins in the global namespace.
LEMMA BeginsFollowed == ASSUME IndexInv', at' = 1 PROVE Followed'
<1>1. ASSUME NEW l, TclNesting(l)', NEW k \in 1..Len(nsPath')
      PROVE  PathsOf(namespaces')[nsPath'[k]] = l[0][k]
  <2>1. l[0] = <<(<<>>)>> BY <1>1 DEF TclNesting
  <2>2. PICK levels : Levels(levels, script') /\ Len(nsPath') = Len(levels[at' - 1])
    BY DEF IndexInv, NestingInv
  <2>3. at' - 1 = 0 /\ levels[0] = <<EmptyText>> BY <2>2 DEF Levels
  <2>4. Len(nsPath') = 1
    <3>1. Len(<<EmptyText>>) = 1 OBVIOUS
    <3> QED BY <2>2, <2>3, <3>1
  <2>5. k = 1 BY <2>4
  <2>6. nsPath'[1] = Global BY DEF IndexInv, PathInv
  <2>7. PathsOf(namespaces')[Global] = <<>> BY PathOfRow DEF IndexInv
  <2>8. l[0][1] = <<>> BY <2>1
  <2> QED BY <2>5, <2>6, <2>7, <2>8
<1>2. at' - 1 = 0 OBVIOUS
<1> QED BY <1>1, <1>2 DEF Followed

\* Outside the bodies the first walk is misled in, a walk is where Tcl is.
LEMMA HereFollowed ==
    ASSUME IndexInv, Followed, NEW l, TclNesting(l), Trusted(l, at - 1, Len(nsPath))
    PROVE  PathHere = Last(l[at - 1])
<1>1. /\ Len(nsPath) \in 1..Len(nsPath) /\ Here = nsPath[Len(nsPath)]
      /\ Last(l[at - 1]) = l[at - 1][Len(nsPath)]
  <2>1. Len(nsPath) \in Nat /\ Len(nsPath) > 0 BY DepthOfWalk
  <2> QED BY <2>1, DepthOfWalk
<1> QED BY <1>1 DEF Followed, PathHere

\* A definition that counts is outside of them.
LEMMA DefinitionTrusted ==
    ASSUME IndexInv, BodiesKeepNamespace, NEW l, TclNesting(l),
           at \in 1..Len(script), script[at].op = "proc", NEW k
    PROVE  Trusted(l, at - 1, k)
<1> SUFFICES ASSUME NEW i \in 1..(at - 1), Misled(i), Open(l, i, at - 1)
             PROVE  FALSE
  BY DEF Trusted
<1>1. Len(script) \in Nat /\ at \in Nat BY DepthOfWalk
<1>2. i \in 1..Len(script) /\ i < at BY <1>1
<1>3. \A j \in 1..Len(script) : TclLevels[j] = l[j - 1] BY <1>1, TclLevelsAre
<1>4. ASSUME NEW j \in (i + 1)..at PROVE Len(TclLevels[j]) > Len(TclLevels[i])
  <2>1. j - 1 \in i..(at - 1) /\ j \in 1..Len(script) BY <1>1, <1>2
  <2> QED BY <1>2, <1>3, <2>1 DEF Open
<1>5. script[i].op = "proc" /\ Len(script[i].name) # 1 BY DEF Misled
<1>6. /\ i \in {d \in 1..Len(script) : script[d].op = "proc"}
      /\ at \in {d \in 1..Len(script) : script[d].op = "proc"}
  BY <1>2, <1>5
<1>7. Len(script[i].name) = 1
  BY <1>2, <1>4, <1>6 DEF BodiesKeepNamespace
<1> QED BY <1>5, <1>7

LEMMA SameScript ==
    ASSUME script' = script
    PROVE  /\ PlainNames' = PlainNames /\ BodiesKeepNamespace' = BodiesKeepNamespace
           /\ \A l : TclNesting(l)' => TclNesting(l)
<1>1. PlainNames' = PlainNames /\ BodiesKeepNamespace' = BodiesKeepNamespace
  BY DEF PlainNames, BodiesKeepNamespace, TclLevels
<1>2. ASSUME NEW l, TclNesting(l)' PROVE TclNesting(l) BY <1>2 DEF TclNesting
<1> QED BY <1>1, <1>2

\* What is defined stays where it is.
LEMMA DefinitionStays ==
    ASSUME IndexInv, PlacesInv, namespaces' \in Trees, Grown(namespaces, namespaces'),
           \A p \in 1..Len(procs) : procs'[p] = procs[p], script' = script,
           PlainNames, BodiesKeepNamespace, NEW l, TclNesting(l),
           NEW r \in ToSet(references), r.type = "DEFINITION"
    PROVE  DefinedAt(l, r)'
<1>1. DefinedAt(l, r) BY DEF PlacesInv
<1>2. r.id \in 1..Len(procs)
  <2>1. PICK i \in 1..Len(references) : r = references[i]
    BY DEF ToSet, IndexInv, ReferencesInv
  <2> QED BY <2>1 DEF IndexInv, ReferencesInv
<1>3. procs[r.id].parent \in 1..Len(namespaces) BY <1>2 DEF IndexInv, ProcsInv
<1>4. PathsOf(namespaces')[procs[r.id].parent] = PathsOf(namespaces)[procs[r.id].parent]
  BY <1>3, PathsStay DEF IndexInv
<1>5. procs'[r.id] = procs[r.id] BY <1>2
<1> QED BY <1>1, <1>4, <1>5 DEF DefinedAt

\* The namespaces grow and nothing is defined.
LEMMA PlacesStay ==
    ASSUME IndexInv, PlacesInv, namespaces' \in Trees, Grown(namespaces, namespaces'),
           procs' = procs, script' = script, phase' # "parse",
           \A r \in ToSet(references') : r.type = "DEFINITION" => r \in ToSet(references)
    PROVE  PlacesInv'
<1>1. ASSUME NEW r \in ToSet(references'), r.type = "DEFINITION",
             PlainNames, BodiesKeepNamespace, NEW l, TclNesting(l)
      PROVE  DefinedAt(l, r)'
  BY <1>1, DefinitionStays
<1> QED BY <1>1, SameScript DEF PlacesInv

-----------------------------------------------------------------------------
(* The steps of the walks.                                                 *)

LEMMA Entered ==
    ASSUME IndexInv, NEW id, Enter(id)
    PROVE  /\ Here' = id
           /\ \A k \in 1..Len(nsPath') : k <= Len(nsPath) => nsPath'[k] = nsPath[k]
<1>1. /\ nsPath \in Seq(1..Len(namespaces)) /\ Len(nsPath) \in Nat
      /\ nsPath' = Append(nsPath, id)
  BY DEF IndexInv, PathInv, Enter
<1>2. /\ Len(nsPath') = Len(nsPath) + 1 /\ nsPath'[Len(nsPath) + 1] = id
      /\ \A k \in 1..Len(nsPath) : nsPath'[k] = nsPath[k]
  BY <1>1
<1>3. Last(nsPath') = id BY <1>2 DEF Last
<1>4. \A k \in 1..Len(nsPath') : k <= Len(nsPath) => k \in 1..Len(nsPath)
  BY <1>1, <1>2
<1> QED BY <1>2, <1>3, <1>4 DEF Here

LEMMA EvalNames ==
    ASSUME IndexInv, IndexInv', NameInv, NEW walk \in {"scan", "index"},
           EvalNamespace(walk)
    PROVE  NameInv'
<1> DEFINE c == script[at]
           qn == EvalName(c.name)
           target == ResolveNamespace(namespaces, qn, Here)
<1>1. /\ phase = walk /\ at \in 1..Len(script) /\ c.op = "eval" /\ Walk
      /\ Enter(target.id) /\ namespaces' = target.table
      /\ procs' = procs /\ references' = references
      /\ script' = script /\ phase' = phase
  BY DEF EvalNamespace, At, Walk, IndexInv, ParseInv
<1>2. c.name \in Texts /\ NamespaceParts(qn) \in Seq(Identifier) BY <1>1, CommandAt
<1>3. namespaces \in Trees /\ Here \in 1..Len(namespaces) BY HereIsPlace
<1>4. target = ResolveNamespace(namespaces, qn, Here) OBVIOUS
<1> HIDE DEF target
<1>5. /\ namespaces' \in Trees /\ Grown(namespaces, namespaces')
  BY <1>1, <1>2, <1>4, EntersGrown
<1>6. PathsOf(target.table)[target.id] =
          (IF qn.absolute THEN <<>> ELSE PathHere) \o NamespaceParts(qn)
  BY <1>2, <1>3, <1>4, PathResolved DEF PathHere
<1>7. ~qn.absolute /\ NamespaceParts(qn) = c.name
  <2>1. c.name # NoNs BY <1>2 DEF Texts, NoNs
  <2>2. qn.ns = c.name /\ ~qn.absolute BY DEF EvalName
  <2> QED BY <2>1, <2>2 DEF NamespaceParts
<1>8. PathsOf(namespaces')[target.id] = PathHere \o c.name BY <1>1, <1>6, <1>7
<1>9. /\ Here' = target.id
      /\ \A k \in 1..Len(nsPath') : k <= Len(nsPath) => nsPath'[k] = nsPath[k]
  BY <1>1, Entered
<1>10. PlainNames /\ Followed => Followed'
  <2> SUFFICES ASSUME PlainNames, Followed PROVE Followed'
    OBVIOUS
  <2>1. ASSUME NEW l, PathHere = Last(l[at - 1])
        PROVE  PathsOf(namespaces')[Here'] = TclOpened(c, Last(l[at - 1]))
    <3>1. ~IsRooted(c.name) BY <1>1 DEF PlainNames
    <3>2. TclOpened(c, PathHere) = PathHere \o c.name
      BY <1>1, <3>1 DEF TclOpened, TclPath
    <3> QED BY <1>8, <1>9, <2>1, <3>2
  <2> QED BY <1>1, <1>5, <1>9, <2>1, FollowOn DEF PathHere
<1>11. FollowedInv' BY <1>1, <1>10 DEF NameInv, FollowedInv, PlainNames
<1>12. PlacesInv' BY <1>1, <1>5, PlacesStay DEF NameInv
<1> QED BY <1>5, <1>11, <1>12, RootStays DEF NameInv

LEMMA BlockNames ==
    ASSUME IndexInv, IndexInv', NameInv, NEW walk \in {"scan", "index"}, EnterBlock(walk)
    PROVE  NameInv'
<1> DEFINE c == script[at]
<1>1. /\ phase = walk /\ at \in 1..Len(script) /\ c.op = "block" /\ Walk
      /\ Enter(Here) /\ namespaces' = namespaces
      /\ procs' = procs /\ references' = references
      /\ script' = script /\ phase' = phase
  BY DEF EnterBlock, At, Walk, tables, IndexInv, ParseInv
<1>2. namespaces' \in Trees /\ Grown(namespaces, namespaces')
  BY <1>1, GrownReflexive DEF IndexInv
<1>3. /\ Here' = Here
      /\ \A k \in 1..Len(nsPath') : k <= Len(nsPath) => nsPath'[k] = nsPath[k]
  <2> DEFINE h == Here
  <2>1. Enter(h) BY <1>1
  <2> HIDE DEF h
  <2>2. /\ Here' = h
        /\ \A k \in 1..Len(nsPath') : k <= Len(nsPath) => nsPath'[k] = nsPath[k]
    BY <2>1, Entered
  <2> QED BY <2>2 DEF h
<1>4. Followed => Followed'
  <2>1. ASSUME NEW l, PathHere = Last(l[at - 1])
        PROVE  PathsOf(namespaces')[Here'] = TclOpened(c, Last(l[at - 1]))
    <3>1. TclOpened(c, PathHere) = PathHere BY <1>1 DEF TclOpened
    <3> QED BY <1>1, <1>3, <2>1, <3>1 DEF PathHere
  <2> QED BY <1>1, <1>2, <1>3, <2>1, FollowOn DEF PathHere
<1>5. FollowedInv' BY <1>1, <1>4 DEF NameInv, FollowedInv, PlainNames
<1>6. PlacesInv' BY <1>1, <1>2, PlacesStay DEF NameInv
<1> QED BY <1>2, <1>5, <1>6, RootStays DEF NameInv

LEMMA LeaveNames ==
    ASSUME IndexInv, IndexInv', NameInv, NEW walk \in {"scan", "index"}, Leave(walk)
    PROVE  NameInv'
<1>1. /\ phase = walk /\ at \in 1..Len(script) /\ script[at].op = "end" /\ Walk
      /\ nsPath' = Front(nsPath) /\ namespaces' = namespaces
      /\ procs' = procs /\ references' = references
      /\ script' = script /\ phase' = phase
  BY DEF Leave, At, Walk, tables, IndexInv, ParseInv
<1>2. namespaces' \in Trees /\ Grown(namespaces, namespaces')
  BY <1>1, GrownReflexive DEF IndexInv
<1>3. \A k \in 1..Len(nsPath') : nsPath'[k] = nsPath[k]
  <2>1. nsPath \in Seq(1..Len(namespaces)) /\ Len(nsPath) > 0
    BY DEF IndexInv, PathInv
  <2>2. /\ Len(nsPath') = Len(nsPath) - 1
        /\ \A k \in 1..(Len(nsPath) - 1) : nsPath'[k] = nsPath[k]
    BY <1>1, <2>1, FrontAndLast
  <2> QED BY <2>2
<1>4. script[at].op \notin Opens BY <1>1 DEF Opens
<1>5. Followed => Followed' BY <1>1, <1>2, <1>3, <1>4, FollowOn
<1>6. FollowedInv' BY <1>1, <1>5 DEF NameInv, FollowedInv, PlainNames
<1>7. PlacesInv' BY <1>1, <1>2, PlacesStay DEF NameInv
<1> QED BY <1>2, <1>6, <1>7, RootStays DEF NameInv

\* A call, in either walk.
LEMMA CallNames ==
    ASSUME IndexInv, IndexInv', NameInv, phase \in {"scan", "index"},
           at \in 1..Len(script), script[at].op = "call", Walk, nsPath' = nsPath,
           Grown(namespaces, namespaces'), procs' = procs,
           \A r \in ToSet(references') : r.type = "DEFINITION" => r \in ToSet(references)
    PROVE  NameInv'
<1>1. script' = script /\ phase' = phase BY DEF Walk
<1>2. namespaces' \in Trees BY DEF IndexInv
<1>3. script[at].op \notin Opens BY DEF Opens
<1>4. \A k \in 1..Len(nsPath') : nsPath'[k] = nsPath[k] OBVIOUS
<1>5. Followed => Followed' BY <1>3, <1>4, FollowOn
<1>6. FollowedInv' BY <1>1, <1>5 DEF NameInv, FollowedInv, PlainNames
<1>7. PlacesInv' BY <1>1, <1>2, PlacesStay DEF NameInv
<1> QED BY <1>6, <1>7, RootStays DEF NameInv

LEMMA IndexProcNames ==
    ASSUME IndexInv, IndexInv', NameInv, IndexProc PROVE NameInv'
<1> DEFINE c == script[at]
           qn == SplitName(c.name)
           target == ResolveNamespace(namespaces, qn, Here)
<1>1. /\ phase = "index" /\ at \in 1..Len(script) /\ c.op = "proc" /\ Walk
      /\ Enter(target.id) /\ namespaces' = target.table
      /\ procs' = procs /\ references' = references
      /\ script' = script /\ phase' = phase
  BY DEF IndexProc, At, Walk, IndexInv, ParseInv
<1>2. c.name \in Texts /\ NamespaceParts(qn) \in Seq(Identifier) BY <1>1, CommandAt
<1>3. namespaces \in Trees /\ Here \in 1..Len(namespaces) BY HereIsPlace
<1>4. target = ResolveNamespace(namespaces, qn, Here) OBVIOUS
<1> HIDE DEF target
<1>5. namespaces' \in Trees /\ Grown(namespaces, namespaces')
  BY <1>1, <1>2, <1>4, EntersGrown
<1>6. PathsOf(namespaces')[target.id] =
          (IF qn.absolute THEN <<>> ELSE PathHere) \o NamespaceParts(qn)
  BY <1>1, <1>2, <1>3, <1>4, PathResolved DEF PathHere
<1>7. /\ Here' = target.id
      /\ \A k \in 1..Len(nsPath') : k <= Len(nsPath) => nsPath'[k] = nsPath[k]
  BY <1>1, Entered
<1>8. PathHere \in Seq(Identifier) BY <1>3, PathOfRow DEF PathHere
<1>9. PlainNames /\ Followed => Followed'
  <2> SUFFICES ASSUME PlainNames, Followed PROVE Followed'
    OBVIOUS
  <2>1. c.name # EmptyText BY <1>1 DEF PlainNames
  <2>2. Front(TclPath(PathHere, c.name)) =
            (IF qn.absolute THEN <<>> ELSE PathHere) \o NamespaceParts(qn)
    BY <1>2, <1>8, <2>1, ProcsPath
  <2>3. TclOpened(c, PathHere) = Front(TclPath(PathHere, c.name))
    BY <1>1 DEF TclOpened
  <2>4. ASSUME NEW l, PathHere = Last(l[at - 1])
        PROVE  PathsOf(namespaces')[Here'] = TclOpened(c, Last(l[at - 1]))
    BY <1>6, <1>7, <2>2, <2>3, <2>4
  <2> QED BY <1>1, <1>5, <1>7, <2>4, FollowOn DEF PathHere
<1>10. FollowedInv' BY <1>1, <1>9 DEF NameInv, FollowedInv, PlainNames
<1>11. PlacesInv' BY <1>1, <1>5, PlacesStay DEF NameInv
<1> QED BY <1>5, <1>10, <1>11, RootStays DEF NameInv

LEMMA ScanProcNames ==
    ASSUME IndexInv, IndexInv', NameInv, ScanProc PROVE NameInv'
<1> DEFINE c == script[at]
           qn == SplitName(c.name)
           target == IF HasNamespace(qn) THEN ResolveNamespace(namespaces, qn, Here)
                     ELSE [table |-> namespaces, id |-> Here]
           row == NewProc(qn.name, target.id, c.params)
           new == [location |-> at, id |-> Len(procs) + 1, type |-> "DEFINITION"]
<1>1. /\ phase = "scan" /\ at \in 1..Len(script) /\ c.op = "proc"
      /\ Walk /\ Enter(Here) /\ script' = script /\ phase' = phase
      /\ namespaces' = [target.table EXCEPT ![target.id].procs = Append(@, 0)]
      /\ procs' = Append(procs, row) /\ references' = Append(references, new)
  <2>1. At("scan", "proc") /\ Walk /\ Enter(Here) BY DEF ScanProc
  <2>2. /\ namespaces' = [target.table EXCEPT ![target.id].procs = Append(@, 0)]
        /\ procs' = Append(procs, row) /\ references' = Append(references, new)
    BY DEF ScanProc, Insert, NextId, AddReference, NewReference
  <2>3. at \in 1..(Len(script) + 1) /\ Len(script) \in Nat
    BY DEF IndexInv, ParseInv
  <2>4. /\ phase = "scan" /\ at <= Len(script) /\ c.op = "proc" /\ script' = script
        /\ phase' = phase
    BY <2>1 DEF At, Walk
  <2>5. at \in 1..Len(script) BY <2>3, <2>4
  <2> HIDE DEF row, target, new
  <2> QED BY <2>1, <2>2, <2>4, <2>5
<1>2. c.name \in Texts /\ NamespaceParts(qn) \in Seq(Identifier) BY <1>1, CommandAt
<1>3. namespaces \in Trees /\ Here \in 1..Len(namespaces) /\ Here \in Nat
  BY HereIsPlace, RowsOfTree
<1>4. /\ target \in Places /\ Grown(namespaces, target.table)
      /\ HasNamespace(qn) => PathsOf(target.table)[target.id] =
             (IF qn.absolute THEN <<>> ELSE PathHere) \o NamespaceParts(qn)
      /\ ~HasNamespace(qn) => PathsOf(target.table)[target.id] = PathHere
  <2>1. CASE HasNamespace(qn)
    <3> DEFINE found == ResolveNamespace(namespaces, qn, Here)
    <3>1. target = found BY <2>1
    <3>2. found = ResolveNamespace(namespaces, qn, Here) OBVIOUS
    <3> HIDE DEF found, target
    <3> QED BY <1>2, <1>3, <2>1, <3>1, <3>2, ResolveLeads, PathResolved DEF PathHere
  <2>2. CASE ~HasNamespace(qn)
    <3>1. target = [table |-> namespaces, id |-> Here] BY <2>2
    <3>2. target.table = namespaces /\ target.id = Here /\ target \in Places
      BY <1>3, <3>1 DEF Places
    <3> HIDE DEF target
    <3> QED BY <1>3, <2>2, <3>2, GrownReflexive DEF PathHere
  <2> QED BY <2>1, <2>2
<1>5. row.name = qn.name /\ row.parent = target.id BY DEF NewProc
<1> HIDE DEF target
<1>6. target.table \in Trees /\ target.id \in 1..Len(target.table) BY <1>4 DEF Places
<1>7. namespaces' \in Trees /\ Grown(target.table, namespaces')
  BY <1>1, <1>6, OneMoreProc
<1>8. Grown(namespaces, namespaces') BY <1>3, <1>4, <1>6, <1>7, GrownTransitive
<1>9. PathHere \in Seq(Identifier) BY <1>3, PathOfRow DEF PathHere
<1>10. PlainNames => PathsOf(namespaces')[target.id] = Front(TclPath(PathHere, c.name))
  <2> SUFFICES ASSUME PlainNames
               PROVE  PathsOf(namespaces')[target.id] = Front(TclPath(PathHere, c.name))
    OBVIOUS
  <2>1. c.name # EmptyText BY <1>1 DEF PlainNames
  <2>2. PathsOf(target.table)[target.id] = Front(TclPath(PathHere, c.name))
    <3> HIDE DEF qn
    <3>1. qn = SplitName(c.name) BY DEF qn
    <3> QED BY <1>2, <1>4, <1>9, <2>1, <3>1, ProcsPath
  <2>3. PathsOf(namespaces')[target.id] = PathsOf(target.table)[target.id]
    BY <1>6, <1>7, PathsStay
  <2> QED BY <2>2, <2>3
<1>11. /\ Here' = Here
       /\ \A k \in 1..Len(nsPath') : k <= Len(nsPath) => nsPath'[k] = nsPath[k]
  <2> DEFINE h == Here
  <2>1. Enter(h) BY <1>1
  <2> HIDE DEF h
  <2>2. /\ Here' = h
        /\ \A k \in 1..Len(nsPath') : k <= Len(nsPath) => nsPath'[k] = nsPath[k]
    BY <2>1, Entered
  <2> QED BY <2>2 DEF h
<1>12. PathsOf(namespaces')[Here'] = PathHere BY <1>3, <1>7, <1>8, <1>11, PathsStay DEF PathHere
<1>13. PlainNames /\ Followed => Followed'
  <2> SUFFICES ASSUME PlainNames, Followed PROVE Followed'
    OBVIOUS
  <2>1. c.name # EmptyText BY <1>1 DEF PlainNames
  <2>2. ~Misled(at) => TclOpened(c, PathHere) = PathHere
    <3> SUFFICES ASSUME ~Misled(at) PROVE TclOpened(c, PathHere) = PathHere
      OBVIOUS
    <3>1. Len(c.name) = 1 BY <1>1 DEF Misled
    <3>2. Front(TclPath(PathHere, c.name)) = PathHere
      BY <1>2, <1>9, <2>1, <3>1, ProcsPath
    <3> QED BY <1>1, <3>2 DEF TclOpened
  <2>3. ASSUME NEW l, ~Misled(at), PathHere = Last(l[at - 1])
        PROVE  PathsOf(namespaces')[Here'] = TclOpened(c, Last(l[at - 1]))
    BY <1>12, <2>2, <2>3
  <2> QED BY <1>1, <1>8, <1>11, <2>3, FollowOn DEF PathHere
<1>14. FollowedInv' BY <1>1, <1>13 DEF NameInv, FollowedInv, PlainNames
<1>15. /\ procs \in Seq(ProcRows) /\ procs' \in Seq(ProcRows) /\ Len(procs) \in Nat
       /\ references \in Seq(ReferenceRows) /\ Len(script) \in Nat
  BY DEF IndexInv, ProcsInv, ReferencesInv, ParseInv
<1> HIDE DEF row, new
<1>16. /\ \A p \in 1..Len(procs) : procs'[p] = procs[p]
       /\ procs'[Len(procs) + 1] = row
  BY <1>1, <1>15
<1>17. /\ new.location = at /\ new.id = Len(procs) + 1 /\ new \in ReferenceRows
  BY <1>1, <1>15 DEF new, ReferenceRows
<1>18. ToSet(references') = ToSet(references) \cup {new}
  BY <1>1, <1>15, <1>17, MembersOfLonger
<1>19. ASSUME NEW r \in ToSet(references'), r.type = "DEFINITION",
              PlainNames, BodiesKeepNamespace, NEW l, TclNesting(l)
       PROVE  DefinedAt(l, r)'
  <2>1. CASE r \in ToSet(references)
    BY <1>1, <1>7, <1>8, <1>16, <1>19, <2>1, DefinitionStays DEF NameInv
  <2>2. CASE r = new
    <3>1. Followed BY <1>1, <1>19 DEF NameInv, FollowedInv
    <3>2. Trusted(l, at - 1, Len(nsPath)) BY <1>1, <1>19, DefinitionTrusted
    <3>3. PathHere = Last(l[at - 1]) BY <1>19, <3>1, <3>2, HereFollowed
    <3>4. c.name # EmptyText BY <1>1, <1>19 DEF PlainNames
    <3>5. qn.name = Last(c.name) BY <1>2, <3>4, SplitOf
    <3>6. procs'[r.id].name = Last(c.name) /\ procs'[r.id].parent = target.id
      BY <1>5, <1>16, <1>17, <2>2, <3>5
    <3>7. PathsOf(namespaces')[procs'[r.id].parent] =
              Front(TclPath(Last(l[at - 1]), c.name))
      BY <1>10, <1>19, <3>3, <3>6
    <3> QED BY <1>1, <1>17, <2>2, <3>6, <3>7 DEF DefinedAt
  <2> QED BY <1>18, <2>1, <2>2
<1>20. PlacesInv' BY <1>1, <1>19, SameScript DEF PlacesInv
<1> QED BY <1>8, <1>14, <1>20, RootStays DEF NameInv

LEMMA ScanCallNames ==
    ASSUME IndexInv, IndexInv', NameInv, ScanCall PROVE NameInv'
<1>1. /\ phase = "scan" /\ at <= Len(script) /\ script[at].op = "call" /\ Walk
      /\ nsPath' = nsPath /\ namespaces' = namespaces /\ procs' = procs
      /\ references' = references
  BY DEF ScanCall, At, tables
<1>2. at \in 1..(Len(script) + 1) /\ Len(script) \in Nat BY DEF IndexInv, ParseInv
<1>3. at \in 1..Len(script) BY <1>1, <1>2
<1>4. Grown(namespaces, namespaces') BY <1>1, GrownReflexive DEF IndexInv
<1> QED BY <1>1, <1>3, <1>4, CallNames

LEMMA IndexCallNames ==
    ASSUME IndexInv, IndexInv', NameInv, IndexCall PROVE NameInv'
<1> DEFINE lookup == FindProc(namespaces, procs, Here, script[at].name)
           best == BestFitProcToCall(procs, lookup.found, script[at].args)
           new == [location |-> at, id |-> best, type |-> "USAGE"]
<1>1. /\ phase = "index" /\ at <= Len(script) /\ script[at].op = "call" /\ Walk
      /\ nsPath' = nsPath /\ namespaces' = lookup.table /\ procs' = procs
      /\ references' = references \/ references' = Append(references, new)
  BY DEF IndexCall, At, AddReference, NewReference
<1> HIDE DEF new
<1>2. at \in 1..(Len(script) + 1) /\ Len(script) \in Nat BY DEF IndexInv, ParseInv
<1>3. at \in 1..Len(script) BY <1>1, <1>2
<1>4. Grown(namespaces, namespaces')
  <2>1. Here \in 1..Len(namespaces) BY HereIsPlace
  <2> DEFINE i == at
  <2>2. Grown(namespaces, lookup.table) BY <1>3, <2>1, CallFinds
  <2> QED BY <1>1, <2>2
<1> HIDE DEF lookup, best
<1>5. ASSUME NEW r \in ToSet(references'), r.type = "DEFINITION"
      PROVE  r \in ToSet(references)
  <2>1. CASE references' = references BY <1>5, <2>1
  <2>2. CASE references' = Append(references, new)
    <3>1. references \in Seq(ReferenceRows) /\ references' \in Seq(ReferenceRows)
      BY DEF IndexInv, ReferencesInv
    <3>2. new \in ReferenceRows
      <4>1. Len(references) \in Nat /\ Len(references') = Len(references) + 1
            /\ references'[Len(references) + 1] = new
        BY <2>2, <3>1
      <4>2. Len(references) + 1 \in 1..Len(references') BY <4>1
      <4> QED BY <3>1, <4>1, <4>2
    <3>3. ToSet(references') = ToSet(references) \cup {new}
      BY <2>2, <3>1, <3>2, MembersOfLonger
    <3>4. new.type = "USAGE" BY DEF new
    <3> QED BY <1>5, <3>3, <3>4
  <2> QED BY <1>1, <2>1, <2>2
<1> QED BY <1>1, <1>3, <1>4, <1>5, CallNames

LEMMA ParseStepNames ==
    ASSUME IndexInv, IndexInv', NameInv, ParseStep PROVE NameInv'
<1>1. /\ phase = "parse" /\ phase' \in {"parse", "scan"} /\ at' = at
      /\ namespaces' = namespaces /\ references' = references
  BY DEF ParseStep, ParseCall, ParseEval, ParseProc, ParseBlock, ParseEnd, ParsedAll,
         Parse, tables
<1>2. at' = 1 BY <1>1 DEF IndexInv, ParseInv
<1>3. FollowedInv' BY <1>2, BeginsFollowed DEF FollowedInv
<1>4. PlacesInv' BY <1>1 DEF NameInv, PlacesInv
<1> QED BY <1>1, <1>3, <1>4 DEF NameInv, RootInv

\* A walk is over.
LEMMA WalkedNames ==
    ASSUME IndexInv, IndexInv', NameInv, ScannedAll \/ IndexedAll PROVE NameInv'
<1>1. /\ namespaces' = namespaces /\ procs' = procs /\ references' = references
      /\ script' = script /\ phase' \in {"index", "ready"}
      /\ phase' = "index" => at' = 1
  BY DEF ScannedAll, IndexedAll, tables
<1>2. namespaces' \in Trees /\ Grown(namespaces, namespaces')
  BY <1>1, GrownReflexive DEF IndexInv
<1>3. FollowedInv' BY <1>1, BeginsFollowed DEF FollowedInv
<1>4. PlacesInv' BY <1>1, <1>2, PlacesStay DEF NameInv
<1> QED BY <1>1, <1>3, <1>4 DEF NameInv, RootInv

LEMMA AskNames ==
    ASSUME IndexInv, NameInv, NEW i \in 1..Len(script), NEW text \in Texts, NEW args,
           NEW types, Ask(i, text, args, types)
    PROVE  NameInv'
<1>1. /\ phase = "ready" /\ phase' = "ready" /\ script' = script
      /\ procs' = procs /\ references' = references
      /\ namespaces' \in Trees /\ Grown(namespaces, namespaces')
  BY AskGrows
<1>2. FollowedInv' BY <1>1 DEF FollowedInv
<1>3. PlacesInv' BY <1>1, PlacesStay DEF NameInv
<1> QED BY <1>1, <1>2, <1>3, RootStays DEF NameInv

LEMMA NameNext == IndexInv /\ NameInv /\ [Next]_vars => NameInv'
<1> SUFFICES ASSUME IndexInv, NameInv, [Next]_vars PROVE NameInv'
  OBVIOUS
<1>1. IndexInv' BY IndexNext
<1>2. CASE ParseStep BY <1>1, <1>2, ParseStepNames
<1>3. CASE ScanStep
  BY <1>1, <1>3, EvalNames, BlockNames, LeaveNames, ScanProcNames, ScanCallNames,
     WalkedNames
  DEF ScanStep
<1>4. CASE IndexStep
  BY <1>1, <1>4, EvalNames, BlockNames, LeaveNames, IndexProcNames, IndexCallNames,
     WalkedNames
  DEF IndexStep
<1>5. CASE AskReferences \/ AskDefinition BY <1>5, Asked, AskNames
<1>7. CASE UNCHANGED vars
  <2>1. /\ script' = script /\ phase' = phase /\ at' = at /\ nsPath' = nsPath
        /\ namespaces' = namespaces /\ procs' = procs /\ references' = references
    BY <1>7 DEF vars, tables
  <2>2. FollowedInv'
    BY <2>1, SameScript DEF NameInv, FollowedInv, Followed, Trusted, Misled, Open
  <2>3. PlacesInv' BY <2>1, SameScript DEF NameInv, PlacesInv, DefinedAt
  <2> QED BY <2>1, <2>2, <2>3 DEF NameInv, RootInv
<1> QED BY <1>2, <1>3, <1>4, <1>5, <1>7 DEF Next, Idle

\* The absolute name of a proc.
ProcPath(t, rows, p) == Append(PathsOf(t)[rows[p].parent], rows[p].name)

\* The path of a proc is that of its definition.
LEMMA DefinitionsPath ==
    ASSUME IndexInv, NameInv, PlainNames, BodiesKeepNamespace,
           NEW r \in ToSet(references), r.type = "DEFINITION"
    PROVE  /\ r.location \in 1..Len(script) /\ r.id \in 1..Len(procs)
           /\ script[r.location].op = "proc"
           /\ Last(TclLevels[r.location]) \in Seq(Identifier)
           /\ script[r.location].name \in Texts
           /\ ProcPath(namespaces, procs, r.id) =
                  TclPath(Last(TclLevels[r.location]), script[r.location].name)
<1> DEFINE d == r.location
           p == r.id
           c == script[d]
           here == Last(TclLevels[d])
           path == TclPath(here, c.name)
<1>1. d \in 1..Len(script) /\ p \in 1..Len(procs)
  <2>1. references \in Seq(ReferenceRows) BY DEF IndexInv, ReferencesInv
  <2>2. PICK k \in 1..Len(references) : r = references[k] BY <2>1 DEF ToSet
  <2> QED BY <2>2 DEF IndexInv, ReferencesInv
<1>2. Len(script) \in Nat /\ script \in Seq(Commands) BY DEF IndexInv, ParseInv
<1>3. PICK l : TclNesting(l)
  <2>1. PICK levels : Levels(levels, script) BY DEF IndexInv, NestingInv
  <2> QED BY <2>1, TclNests
<1>4. TclLevels[d] = l[d - 1] BY <1>1, <1>2, <1>3, TclLevelsAre
<1>5. /\ c.op = "proc" /\ procs[p].name = Last(c.name)
      /\ PathsOf(namespaces)[procs[p].parent] = Front(path)
  BY <1>3, <1>4 DEF NameInv, PlacesInv, DefinedAt
<1>6. c \in Commands /\ c.name \in Texts
  <2>1. c \in Commands BY <1>1, <1>2
  <2> HIDE DEF c
  <2> QED BY <2>1 DEF Commands
<1>7. here \in Seq(Identifier)
  <2>1. d - 1 \in 0..Len(script) BY <1>1, <1>2
  <2>2. l[d - 1] \in TclStacks BY <1>3, <2>1 DEF TclNesting
  <2> QED BY <1>4, <1>6, <2>2, TclStep
<1> HIDE DEF c, here
<1>8. path = Append(Front(path), Last(c.name))
  <2>1. /\ path \in Seq(Identifier) /\ Len(path) > 0 /\ Last(path) = Last(c.name)
    BY <1>6, <1>7, TclPathIsPath
  <2> HIDE DEF path
  <2>2. path \in Texts BY <2>1, EmptySeq DEF Texts
  <2> QED BY <2>1, <2>2, NameInTwo
<1>9. ProcPath(namespaces, procs, p) = path BY <1>5, <1>8 DEF ProcPath
<1> QED BY <1>1, <1>5, <1>6, <1>7, <1>9 DEF c, here, d

\* In every script whose names are plain the name printed for a proc is that by
\* which Tcl knows it, unless a body it is defined in is that of a qualified proc
\* (index.cpp:178-214, analyzer.cpp:147-151).
THEOREM ProcsAreNamed == Spec => [](PlainNames => PrintedNames)
<1>1. IndexInv /\ LexicalInv /\ NameInv => (PlainNames => PrintedNames)
  <2> SUFFICES ASSUME IndexInv, LexicalInv, NameInv, PlainNames, BodiesKeepNamespace,
                      NEW p \in 1..Len(procs)
               PROVE  LET definition == DefinitionOf(p)
                      IN  GetPrintName(p) =
                              <<E>> \o TclPath(Last(TclLevels[definition]),
                                               script[definition].name)
    BY DEF PrintedNames
  <2> DEFINE d == DefinitionOf(p)
             c == script[d]
             here == Last(TclLevels[d])
             path == TclPath(here, c.name)
             parent == procs[p].parent
             front == PathsOf(namespaces)[parent]
             last == procs[p].name
             above == Ancestry(namespaces, parent)
             names == [i \in 1..Len(above) |->
                          namespaces[above[Len(above) + 1 - i]].name]
  <2>1. PICK r \in ToSet(references) : r.location = d /\ r.id = p /\ r.type = "DEFINITION"
    <3>1. d \in {r.location : r \in ReferencesTo(p, {"DEFINITION"})}
      BY DefinitionFound
    <3> HIDE DEF d
    <3> QED BY <3>1 DEF ReferencesTo
  <2>2. path = Append(front, last)
    <3>1. ProcPath(namespaces, procs, r.id) =
              TclPath(Last(TclLevels[r.location]), script[r.location].name)
      BY <2>1, DefinitionsPath
    <3> HIDE DEF d
    <3> QED BY <2>1, <3>1 DEF ProcPath
  <2> HIDE DEF path
  <2>3. namespaces \in Trees /\ parent \in 1..Len(namespaces) /\ last \in Identifier
    <3>1. procs \in Seq(ProcRows) BY DEF IndexInv, ProcsInv
    <3>2. procs[p] \in ProcRows BY <3>1
    <3>3. last \in Identifier BY <3>2 DEF ProcRows
    <3> QED BY <3>3 DEF IndexInv, ProcsInv
  <2>4. front \in Seq(Identifier) BY <2>3, PathOfRow
  <2>5. /\ Len(front) \in Nat /\ Len(above) = Len(front) + 1
        /\ namespaces[above[Len(above)]].name = E
        /\ \A i \in 1..Len(front) : namespaces[above[Len(above) - i]].name = front[i]
    <3>1. above = Ancestry(namespaces, parent) /\ front = PathsOf(namespaces)[parent]
      OBVIOUS
    <3>2. namespaces \in Trees /\ parent \in 1..Len(namespaces) BY <2>3
    <3>3. namespaces[Global].name = E BY DEF NameInv, RootInv
    <3> HIDE DEF above, parent, front
    <3>4. /\ Len(front) \in Nat /\ Len(above) = Len(front) + 1
          /\ namespaces[above[Len(above)]].name = namespaces[Global].name
          /\ \A i \in 1..Len(front) : namespaces[above[Len(above) - i]].name = front[i]
      BY <3>1, <3>2, AncestryNames
    <3> QED BY <3>3, <3>4
  <2> HIDE DEF above, parent, front, last
  <2>6. GetPrintName(p) = Append(names, last)
    BY DEF GetPrintName, above, parent, last
  <2>7. \A i \in 1..(Len(front) + 1) : names[i] = IF i = 1 THEN E ELSE front[i - 1]
    <3> SUFFICES ASSUME NEW i \in 1..(Len(front) + 1)
                 PROVE  names[i] = IF i = 1 THEN E ELSE front[i - 1]
      OBVIOUS
    <3>1. names[i] = namespaces[above[Len(above) + 1 - i]].name BY <2>5
    <3>2. CASE i = 1
      <4>1. Len(above) + 1 - i = Len(above) BY <2>5, <3>2
      <4> QED BY <2>5, <3>1, <3>2, <4>1
    <3>3. CASE i # 1
      <4>1. i - 1 \in 1..Len(front) /\ Len(above) + 1 - i = Len(above) - (i - 1)
        BY <2>5, <3>3
      <4> QED BY <2>5, <3>1, <3>3, <4>1
    <3> QED BY <3>2, <3>3
  <2>8. E \in Identifier BY EmptyTextIsText
  <2> DEFINE root == <<E>>
             all == root \o front
  <2>9. root \in Seq(Identifier) /\ Len(root) = 1 /\ root[1] = E BY <2>8
  <2> HIDE DEF root
  <2>10. /\ all \in Seq(Identifier) /\ Len(all) = Len(front) + 1
         /\ \A i \in 1..(Len(front) + 1) : all[i] = IF i = 1 THEN E ELSE front[i - 1]
    <3>1. all \in Seq(Identifier) /\ Len(all) = 1 + Len(front)
      BY <2>4, <2>9, JoinedLength
    <3>2. \A i \in 1..(Len(root) + Len(front)) :
             all[i] = IF i <= Len(root) THEN root[i] ELSE front[i - Len(root)]
      BY <2>4, <2>9, ConcatProperties
    <3>3. ASSUME NEW i \in 1..(Len(front) + 1)
          PROVE  all[i] = IF i = 1 THEN E ELSE front[i - 1]
      <4>1. i \in 1..(Len(root) + Len(front)) BY <2>5, <2>9
      <4>2. i = 1 <=> i <= Len(root) BY <2>5, <2>9
      <4> HIDE DEF all
      <4> QED BY <2>9, <3>2, <4>1, <4>2
    <3> QED BY <2>5, <3>1, <3>3
  <2>11. names \in Seq(Identifier) /\ Len(names) = Len(front) + 1
    <3>1. \A i \in 1..(Len(front) + 1) : names[i] \in Identifier
      <4> SUFFICES ASSUME NEW i \in 1..(Len(front) + 1) PROVE names[i] \in Identifier
        OBVIOUS
      <4>1. all[i] \in Identifier /\ names[i] = all[i]
        <5> HIDE DEF names, all
        <5> QED BY <2>7, <2>10
      <4> QED BY <4>1
    <3>2. 1..Len(above) = 1..(Len(front) + 1) BY <2>5
    <3>3. names \in [1..(Len(front) + 1) -> Identifier]
      BY <3>1, <3>2
    <3> HIDE DEF names
    <3> QED BY <2>5, <3>3
  <2> HIDE DEF names, all
  <2>12. names = all
    <3>1. Len(names) = Len(all) BY <2>10, <2>11
    <3>2. \A i \in 1..Len(names) : names[i] = all[i] BY <2>7, <2>10, <2>11
    <3> QED BY <2>10, <2>11, <3>1, <3>2, SeqEqual
  <2>13. root \o Append(front, last) = Append(all, last)
    BY <2>3, <2>4, <2>9 DEF all, last
  <2> QED BY <2>2, <2>6, <2>12, <2>13 DEF root, path
<1> QED
  BY <1>1, IndexInit, IndexNext, LexicalInit, LexicalNext, NameInit, NameNext, PTL
  DEF Spec

-----------------------------------------------------------------------------
(* What FindProc finds.                                                    *)

LEMMA AppendedEqual ==
    ASSUME NEW S, NEW s \in Seq(S), NEW u \in Seq(S), NEW x \in S, NEW y \in S,
           Append(s, x) = Append(u, y)
    PROVE  s = u /\ x = y
<1>1. s = u
  <2>1. Front(Append(s, x)) = s /\ Front(Append(u, y)) = u BY FrontOfAppend
  <2> QED BY <2>1
<1>2. /\ Append(s, x)[Len(s) + 1] = x /\ Append(u, y)[Len(u) + 1] = y
  OBVIOUS
<1> QED BY <1>1, <1>2

\* Different namespaces have different paths.
LEMMA PathIsUnique ==
    ASSUME NEW t \in Trees, NEW m \in 1..Len(t), NEW n \in 1..Len(t),
           PathsOf(t)[m] = PathsOf(t)[n]
    PROVE  m = n
<1> DEFINE P == PathsOf(t)
           S == {k \in 1..Len(t) : \A j \in 1..Len(t) : P[j] = P[k] => j = k}
<1>1. /\ \A k \in 1..Len(t) : P[k] \in Seq(Identifier) /\ t[k].name \in Identifier
      /\ P[Global] = <<>>
      /\ \A k \in 2..Len(t) : P[k] = Append(P[t[k].parent], t[k].name)
  BY PathOfRow, RowsOfTree
<1>2. /\ Len(t) \in Nat /\ Global \in 1..Len(t)
      /\ \A k \in 2..Len(t) : /\ t[k].parent \in 1..Len(t) /\ k \in 1..Len(t)
                              /\ k \in ToSet(t[t[k].parent].children)
  <2>1. Len(t) \in Nat /\ Global \in 1..Len(t) /\ Tree(t) BY RowsOfTree
  <2>2. \A k \in 2..Len(t) : /\ t[k].parent \in 1..(k - 1) /\ k \in 1..Len(t)
                             /\ k \in ToSet(t[t[k].parent].children)
    BY <2>1 DEF Tree
  <2> QED BY <2>1, <2>2
<1> HIDE DEF P
<1>3. ASSUME NEW k \in 2..Len(t) PROVE P[k] # <<>>
  <2>1. P[t[k].parent] \in Seq(Identifier) /\ t[k].name \in Identifier
    BY <1>1, <1>2
  <2>2. Append(P[t[k].parent], t[k].name) # <<>> BY <2>1
  <2> QED BY <1>1, <2>2
<1>4. \A j \in 1..Len(t) : j = Global \/ j \in 2..Len(t) BY <1>2 DEF Global
<1>5. Global \in S BY <1>1, <1>2, <1>3, <1>4
<1>6. ASSUME NEW k \in 2..Len(t), t[k].parent \in S PROVE k \in S
  <2>1. k \in 1..Len(t) BY <1>2
  <2>2. ASSUME NEW j \in 1..Len(t), P[j] = P[k] PROVE j = k
    <3>1. j \in 2..Len(t) BY <1>1, <1>3, <1>4, <2>2
    <3> DEFINE a == t[j].parent
               b == t[k].parent
    <3>2. /\ P[a] \in Seq(Identifier) /\ t[j].name \in Identifier
          /\ P[b] \in Seq(Identifier) /\ t[k].name \in Identifier
          /\ a \in 1..Len(t) /\ b \in 1..Len(t)
      BY <1>1, <1>2, <2>1, <3>1
    <3>3. Append(P[a], t[j].name) = Append(P[b], t[k].name) BY <1>1, <2>2, <3>1
    <3> HIDE DEF a, b
    <3>4. P[a] = P[b] /\ t[j].name = t[k].name
      <4> DEFINE s == P[a]
                 u == P[b]
                 x == t[j].name
                 y == t[k].name
      <4>1. /\ s \in Seq(Identifier) /\ u \in Seq(Identifier) /\ x \in Identifier
            /\ y \in Identifier /\ Append(s, x) = Append(u, y)
        BY <3>2, <3>3
      <4> HIDE DEF s, u, x, y
      <4>2. s = u /\ x = y BY <4>1, AppendedEqual
      <4> QED BY <4>2 DEF s, u, x, y
    <3>5. a = b BY <1>6, <3>2, <3>4 DEF b
    <3>6. j \in ToSet(t[b].children) /\ k \in ToSet(t[b].children)
      BY <1>2, <3>1, <3>5 DEF a, b
    <3> QED BY <3>2, <3>4, <3>6, ChildrenAreMembers
  <2> QED BY <2>1, <2>2
<1> HIDE DEF S
<1>7. \A k \in 1..Len(t) : k \in S BY <1>5, <1>6, OfAllBelow
<1> QED BY <1>7 DEF S, P

\* The procs that have a path.
Matches(t, rows, path) == {p \in 1..Len(rows) : ProcPath(t, rows, p) = path}

Placed(t, rows) ==
    /\ rows \in Seq(ProcRows)
    /\ \A p \in 1..Len(rows) : rows[p].parent \in 1..Len(t)

LEMMA MatchesStay ==
    ASSUME NEW t \in Trees, NEW u \in Trees, Grown(t, u), NEW rows, Placed(t, rows)
    PROVE  /\ Placed(u, rows)
           /\ \A path : Matches(u, rows, path) = Matches(t, rows, path)
<1>1. \A p \in 1..Len(rows) :
          /\ rows[p].parent \in 1..Len(u)
          /\ PathsOf(u)[rows[p].parent] = PathsOf(t)[rows[p].parent]
  BY PathsStay DEF Placed
<1> QED BY <1>1 DEF Placed, Matches, ProcPath

\* In one namespace the procs are found that have the path of the name there.
LEMMA LookupMatches ==
    ASSUME NEW t \in Trees, NEW id \in 1..Len(t), NEW rows, Placed(t, rows),
           NEW name \in Texts, name # EmptyText, NEW qn, qn = SplitName(name),
           NamespaceParts(qn) \in Seq(Identifier),
           NEW r, r = Lookup(t, rows, qn, id)
    PROVE  r.found = Matches(t, rows, TclPath(PathsOf(t)[id], name))
<1> DEFINE target == IF HasNamespace(qn) THEN ResolveNamespace(t, qn, id)
                     ELSE [table |-> t, id |-> id]
           here == PathsOf(t)[id]
           path == TclPath(here, name)
           front == Front(path)
           last == Last(path)
<1>1. here \in Seq(Identifier) BY PathOfRow
<1>2. /\ target \in Places /\ Grown(t, target.table)
      /\ HasNamespace(qn) => PathsOf(target.table)[target.id] =
             (IF qn.absolute THEN <<>> ELSE here) \o NamespaceParts(qn)
      /\ ~HasNamespace(qn) => PathsOf(target.table)[target.id] = here
  <2>1. CASE HasNamespace(qn)
    <3> DEFINE found == ResolveNamespace(t, qn, id)
    <3>1. target = found BY <2>1
    <3>2. found = ResolveNamespace(t, qn, id) OBVIOUS
    <3> HIDE DEF found, target
    <3> QED BY <2>1, <3>1, <3>2, ResolveLeads, PathResolved
  <2>2. CASE ~HasNamespace(qn)
    <3>1. target = [table |-> t, id |-> id] BY <2>2
    <3>2. Len(t) \in Nat BY RowsOfTree
    <3>3. target.table = t /\ target.id = id /\ target \in Places
      BY <3>1, <3>2 DEF Places
    <3> HIDE DEF target
    <3> QED BY <2>2, <3>3, GrownReflexive
  <2> QED BY <2>1, <2>2
<1>3. r.found = {p \in 1..Len(rows) : rows[p].name = qn.name
                                      /\ rows[p].parent = target.id}
  BY DEF Lookup
<1> HIDE DEF target, here
<1>4. /\ qn.name = Last(name)
      /\ front = (IF qn.absolute THEN <<>> ELSE here) \o NamespaceParts(qn)
      /\ ~HasNamespace(qn) => front = here
  BY <1>1, ProcsPath
<1>5. path \in Seq(Identifier) /\ Len(path) > 0 /\ last = Last(name)
      /\ front \in Seq(Identifier)
  BY <1>1, TclPathIsPath
<1>6. path = Append(front, last) /\ last \in Identifier
  <2> HIDE DEF path
  <2>1. path \in Texts BY <1>5, EmptySeq DEF Texts
  <2> QED BY <2>1, NameInTwo, TextEnds
<1>7. PathsOf(target.table)[target.id] = front BY <1>2, <1>4
<1>8. target.table \in Trees /\ target.id \in 1..Len(target.table)
  BY <1>2 DEF Places
<1> HIDE DEF path, front, last
<1>9. ASSUME NEW p \in 1..Len(rows)
      PROVE  rows[p].name = qn.name /\ rows[p].parent = target.id
                 <=> ProcPath(t, rows, p) = path
  <2> DEFINE parent == rows[p].parent
             above == PathsOf(t)[parent]
             pn == rows[p].name
  <2>1. parent \in 1..Len(t) /\ pn \in Identifier
    <3>1. rows[p] \in ProcRows BY DEF Placed
    <3> QED BY <3>1 DEF Placed, ProcRows
  <2>2. above \in Seq(Identifier) BY <2>1, PathOfRow
  <2>3. parent \in 1..Len(target.table) /\ PathsOf(target.table)[parent] = above
    BY <1>2, <1>8, <2>1, PathsStay
  <2>4. ProcPath(t, rows, p) = Append(above, pn) BY DEF ProcPath
  <2> HIDE DEF parent, above, pn
  <2>5. Append(above, pn) = Append(front, last) => above = front /\ pn = last
    <3>1. front \in Seq(Identifier) /\ last \in Identifier BY <1>5, <1>6
    <3>2. above \in Seq(Identifier) /\ pn \in Identifier BY <2>1, <2>2
    <3> QED BY <3>1, <3>2, AppendedEqual
  <2>6. above = front <=> parent = target.id BY <1>7, <1>8, <2>3, PathIsUnique
  <2>7. last = qn.name BY <1>4, <1>5
  <2> QED BY <1>6, <2>4, <2>5, <2>6, <2>7 DEF parent, pn
<1> QED BY <1>3, <1>9 DEF Matches, path, here

\* What a name leads to from the namespace around, `n' levels below the global one.
FromScope(t, rows, here, name, n) == Matches(t, rows, TclPath(SubSeq(here, 1, n), name))

\* The procs found are those of the innermost scope that has any.
Innermost(t, rows, here, name, found) ==
    \/ /\ found = {}
       /\ \A n \in 0..Len(here) : FromScope(t, rows, here, name, n) = {}
    \/ /\ found # {}
       /\ \E n \in 0..Len(here) :
             /\ found = FromScope(t, rows, here, name, n)
             /\ \A m \in (n + 1)..Len(here) : FromScope(t, rows, here, name, m) = {}

\* Of a search from `here', all that is further in than `next' has nothing.
Searched(t, rows, here, name, s) ==
    IF s.next = 0 THEN Innermost(t, rows, here, name, s.found)
    ELSE /\ s.next \in 1..Len(t)
         /\ \E n \in 0..Len(here) :
               /\ PathsOf(t)[s.next] = SubSeq(here, 1, n)
               /\ \A m \in (n + 1)..Len(here) : FromScope(t, rows, here, name, m) = {}

LEMMA PrefixOf ==
    ASSUME NEW S, NEW s \in Seq(S), NEW n \in 0..Len(s)
    PROVE  /\ SubSeq(s, 1, n) \in Seq(S) /\ Len(SubSeq(s, 1, n)) = n
           /\ \A i \in 1..n : SubSeq(s, 1, n)[i] = s[i]
OBVIOUS

LEMMA FrontOfPrefix ==
    ASSUME NEW S, NEW s \in Seq(S), NEW n \in 0..Len(s), NEW u \in Seq(S), NEW x \in S,
           Append(u, x) = SubSeq(s, 1, n)
    PROVE  n > 0 /\ n - 1 \in 0..Len(s) /\ u = SubSeq(s, 1, n - 1)
<1> DEFINE w == SubSeq(s, 1, n)
           v == SubSeq(s, 1, n - 1)
           a == Append(u, x)
<1>1. w \in Seq(S) /\ Len(w) = n /\ \A i \in 1..n : w[i] = s[i] BY PrefixOf
<1>2. /\ a \in Seq(S) /\ Len(a) = Len(u) + 1 /\ Len(u) \in Nat
      /\ \A i \in 1..Len(u) : a[i] = u[i]
  OBVIOUS
<1>3. a = w OBVIOUS
<1> HIDE DEF a, w
<1>4. n \in Nat /\ Len(s) \in Nat OBVIOUS
<1>5. n > 0 /\ Len(u) = n - 1 /\ n - 1 \in 0..Len(s) BY <1>1, <1>2, <1>3, <1>4
<1>6. v \in Seq(S) /\ Len(v) = n - 1 /\ \A i \in 1..(n - 1) : v[i] = s[i]
  BY <1>5, PrefixOf
<1> HIDE DEF v
<1>7. \A i \in 1..Len(u) : u[i] = v[i]
  <2> SUFFICES ASSUME NEW i \in 1..Len(u) PROVE u[i] = v[i]
    OBVIOUS
  <2>1. i \in 1..n /\ i \in 1..(n - 1) BY <1>4, <1>5
  <2> QED BY <1>1, <1>2, <1>3, <1>6, <2>1
<1>8. u = v BY <1>5, <1>6, <1>7, SeqEqual
<1> QED BY <1>5, <1>8 DEF v

LEMMA SearchedOn ==
    ASSUME NEW t \in Trees, NEW rows, Placed(t, rows), NEW here \in Seq(Identifier),
           NEW name \in Texts, name # EmptyText, NEW qn, qn = SplitName(name),
           NamespaceParts(qn) \in Seq(Identifier),
           NEW s \in SearchStates(rows), Grown(t, s.table),
           Searched(t, rows, here, name, s),
           NEW r, r = FindIn(s, rows, qn)
    PROVE  /\ Searched(t, rows, here, name, r)
           /\ s.next = 0 => r.next = 0
           /\ s.next # 0 => s.next \in Nat /\ r.next \in Nat /\ r.next < s.next
<1>1. s.table \in Trees /\ s.next \in Nat BY DEF SearchStates
<1>2. CASE s.next = 0
  <2>1. r = s BY <1>2 DEF FindIn
  <2> QED BY <1>2, <2>1
<1>3. CASE s.next # 0
  <2> DEFINE look == Lookup(s.table, rows, qn, s.next)
             M(n) == FromScope(t, rows, here, name, n)
             N == Len(here)
  <2>1. s.next \in 1..Len(t) BY <1>3 DEF Searched
  <2>2. PICK n \in 0..N : /\ PathsOf(t)[s.next] = SubSeq(here, 1, n)
                          /\ \A m \in (n + 1)..N : M(m) = {}
    BY <1>3 DEF Searched
  <2>3. /\ Len(t) \in Nat /\ s.next \in 1..Len(s.table) /\ N \in Nat
        /\ PathsOf(s.table)[s.next] = SubSeq(here, 1, n)
    <3>1. Len(t) \in Nat /\ N \in Nat BY RowsOfTree
    <3> QED BY <1>1, <2>1, <2>2, <3>1, PathsStay
  <2>4. Placed(s.table, rows) /\ \A path : Matches(s.table, rows, path) = Matches(t, rows, path)
    BY <1>1, MatchesStay
  <2>5. look.found = M(n)
    <3>1. look = Lookup(s.table, rows, qn, s.next) OBVIOUS
    <3> HIDE DEF look
    <3>2. look.found =
              Matches(s.table, rows, TclPath(PathsOf(s.table)[s.next], name))
      <4> DEFINE u == s.table
                 id == s.next
      <4>1. /\ u \in Trees /\ id \in 1..Len(u) /\ Placed(u, rows)
            /\ look = Lookup(u, rows, qn, id)
        BY <1>1, <2>3, <2>4, <3>1
      <4> HIDE DEF u, id
      <4>2. look.found = Matches(u, rows, TclPath(PathsOf(u)[id], name))
        BY <4>1, LookupMatches
      <4> QED BY <4>2 DEF u, id
    <3> QED BY <2>3, <2>4, <3>2 DEF FromScope
  <2>6. Grown(s.table, look.table)
    <3>1. look = Lookup(s.table, rows, qn, s.next) OBVIOUS
    <3> HIDE DEF look
    <3> QED BY <1>1, <2>3, <3>1, LookupLeads
  <2>7. look.table[s.next].parent = t[s.next].parent
    BY <2>1, <2>3, <2>6 DEF Grown
  <2>8. /\ r.found = look.found
        /\ r.next = IF look.found # {} \/ qn.absolute THEN 0
                    ELSE look.table[s.next].parent
    BY <1>3 DEF FindIn
  <2> HIDE DEF look
  <2>9. qn.absolute => \A m \in 0..N : M(m) = M(n)
    <3>1. qn.absolute = IsRooted(name) BY SplitOf
    <3>2. IsRooted(name) => \A m, k : M(m) = M(k) BY DEF FromScope, TclPath
    <3> QED BY <3>1, <3>2
  <2> HIDE DEF M
  <2>10. CASE look.found # {}
    <3>1. Innermost(t, rows, here, name, r.found)
      BY <2>2, <2>5, <2>8, <2>10 DEF Innermost, M
    <3> QED BY <1>1, <1>3, <2>8, <2>10, <3>1 DEF Searched
  <2>11. CASE look.found = {} /\ qn.absolute
    <3>1. Innermost(t, rows, here, name, r.found)
      BY <2>5, <2>8, <2>9, <2>11 DEF Innermost, M
    <3> QED BY <1>1, <1>3, <2>8, <2>11, <3>1 DEF Searched
  <2>12. CASE look.found = {} /\ ~qn.absolute
    <3>1. r.next = t[s.next].parent BY <2>7, <2>8, <2>12
    <3>2. M(n) = {} BY <2>5, <2>12
    <3>3. Tree(t) /\ Len(t) \in Nat BY RowsOfTree
    <3>4. CASE s.next = Global
      <4>1. r.next = 0 BY <3>1, <3>3, <3>4 DEF Tree
      <4>2. n = 0
        <5>1. SubSeq(here, 1, n) = <<>> BY <2>2, <3>4, PathOfRow
        <5>2. Len(SubSeq(here, 1, n)) = n BY PrefixOf
        <5> QED BY <5>1, <5>2
      <4>3. \A m \in 0..N : m = n \/ m \in (n + 1)..N BY <2>3, <4>2
      <4>4. \A m \in 0..N : M(m) = {} BY <2>2, <3>2, <4>3
      <4>5. Innermost(t, rows, here, name, r.found)
        BY <2>8, <2>12, <4>4 DEF Innermost, M
      <4> QED BY <1>1, <1>3, <4>1, <4>5 DEF Searched
    <3>5. CASE s.next # Global
      <4> DEFINE parent == t[s.next].parent
                 u == PathsOf(t)[parent]
                 x == t[s.next].name
      <4>1. s.next \in 2..Len(t) BY <2>1, <3>3, <3>5 DEF Global
      <4>2. parent \in 1..(s.next - 1) BY <3>3, <4>1 DEF Tree
      <4>3. parent \in 1..Len(t) /\ parent < s.next /\ parent \in Nat /\ parent # 0
        BY <1>1, <2>1, <3>3, <4>2
      <4>4. /\ u \in Seq(Identifier) /\ x \in Identifier
            /\ Append(u, x) = SubSeq(here, 1, n)
        BY <2>1, <2>2, <4>1, <4>3, PathOfRow, RowsOfTree
      <4> HIDE DEF u, x
      <4>5. n > 0 /\ n - 1 \in 0..N /\ u = SubSeq(here, 1, n - 1)
        BY <4>4, FrontOfPrefix
      <4>6. \A m \in ((n - 1) + 1)..N : m = n \/ m \in (n + 1)..N BY <2>3
      <4>7. \A m \in ((n - 1) + 1)..N : M(m) = {} BY <2>2, <3>2, <4>6
      <4>8. /\ PathsOf(t)[r.next] = SubSeq(here, 1, n - 1)
            /\ r.next \in 1..Len(t) /\ r.next # 0 /\ r.next < s.next /\ r.next \in Nat
        BY <3>1, <4>3, <4>5 DEF u
      <4>9. Searched(t, rows, here, name, r)
        BY <4>5, <4>7, <4>8 DEF Searched, M
      <4> QED BY <1>1, <1>3, <4>8, <4>9
    <3> QED BY <3>4, <3>5
  <2> QED BY <2>10, <2>11, <2>12
<1> QED BY <1>2, <1>3

\* FindProc goes up the scopes as Tcl does.
LEMMA FindProcMatches ==
    ASSUME NEW t \in Trees, NEW id \in 1..Len(t), NEW rows, Placed(t, rows),
           NEW name \in Texts, name # EmptyText,
           NamespaceParts(SplitName(name)) \in Seq(Identifier),
           NEW here, here = PathsOf(t)[id],
           NEW r, r = FindProc(t, rows, id, name)
    PROVE  Innermost(t, rows, here, name, r.found)
<1> DEFINE qn == SplitName(name)
<1>1. PICK f : Searches(f, t, rows, id, qn) /\ r = f[id] BY FindProcSearches
<1>2. \A n \in 0..id : f[n] \in SearchStates(rows) /\ Grown(t, f[n].table)
  BY <1>1, SearchesGrow
<1>3. /\ f[0] = [table |-> t, found |-> {}, next |-> id]
      /\ \A n \in 1..id : f[n] = FindIn(f[n - 1], rows, qn)
  BY <1>1 DEF Searches
<1>4. id \in Nat /\ id > 0 /\ Len(t) \in Nat BY RowsOfTree
<1>5. here \in Seq(Identifier) BY PathOfRow
<1>6. NamespaceParts(qn) \in Seq(Identifier) /\ qn = SplitName(name) OBVIOUS
<1> HIDE DEF qn
<1> DEFINE S == {n \in 0..id : /\ Searched(t, rows, here, name, f[n])
                               /\ f[n].next <= id - n}
<1>7. 0 \in S
  <2>1. f[0].next = id /\ id # 0 BY <1>3, <1>4
  <2>2. SubSeq(here, 1, Len(here)) = here /\ Len(here) \in 0..Len(here) BY <1>5
  <2>3. (Len(here) + 1)..Len(here) = {} BY <1>5
  <2>4. Searched(t, rows, here, name, f[0]) BY <2>1, <2>2, <2>3 DEF Searched
  <2> QED BY <1>4, <2>1, <2>4
<1>8. ASSUME NEW n \in 1..id, n - 1 \in S PROVE n \in S
  <2> DEFINE s == f[n - 1]
             e == f[n]
  <2>1. n \in 0..id /\ n - 1 \in 0..id BY <1>4
  <2>2. /\ s \in SearchStates(rows) /\ Grown(t, s.table) /\ e = FindIn(s, rows, qn)
        /\ Searched(t, rows, here, name, s) /\ s.next <= id - (n - 1)
    BY <1>2, <1>3, <1>8, <2>1
  <2> HIDE DEF s, e
  <2>3. /\ Searched(t, rows, here, name, e)
        /\ s.next = 0 => e.next = 0
        /\ s.next # 0 => s.next \in Nat /\ e.next \in Nat /\ e.next < s.next
    BY <1>5, <1>6, <2>2, SearchedOn
  <2>4. e.next <= id - n
    <3>1. CASE s.next = 0 BY <1>4, <2>1, <2>3, <3>1
    <3>2. CASE s.next # 0 BY <1>4, <2>1, <2>2, <2>3, <3>2
    <3> QED BY <3>1, <3>2
  <2> QED BY <2>1, <2>3, <2>4 DEF e
<1> HIDE DEF S
<1>9. \A n \in 0..id : n \in S BY <1>4, <1>7, <1>8, Stepwise
<1>10. Searched(t, rows, here, name, f[id]) /\ f[id].next <= id - id
  BY <1>4, <1>9 DEF S
<1>11. f[id].next = 0
  <2>1. f[id] \in SearchStates(rows) BY <1>2, <1>4
  <2>2. f[id].next \in Nat BY <2>1 DEF SearchStates
  <2> QED BY <1>4, <1>10, <2>2
<1> QED BY <1>1, <1>10, <1>11 DEF Searched

-----------------------------------------------------------------------------
(* What a call refers to.                                                  *)

\* An empty name of a call is taken for an absolute one, as that of a proc is.
PlainCalls == \A i \in 1..Len(script) : script[i].op = "call" => script[i].name # EmptyText

IsDefinition(r) == r \in ToSet(references) /\ r.type = "DEFINITION"
Located(found) == {r.location : r \in {r \in ToSet(references) :
                                          r.type = "DEFINITION" /\ r.id \in found}}

\* The first walk leaves no definition out.
DefinedInv ==
    \A d \in 1..Len(script) :
        /\ phase # "parse" /\ script[d].op = "proc"
        /\ phase = "scan" => d < at
        => \E r \in ToSet(references) : r.location = d /\ r.type = "DEFINITION"

CountsOf(row, params) ==
    /\ row.required = Occurrences(Counted(params), {"plain", "args"})
    /\ row.optional = Occurrences(Counted(params), {"default"})
    /\ row.variadic = FALSE

CountedInv ==
    \A r \in ToSet(references) : r.type = "DEFINITION" =>
        CountsOf(procs[r.id], script[r.location].params)

\* The definitions in the innermost namespace around a call that has any.
SearchedDefinitions(i) ==
    LET scopes == {n \in 0..TclDepth(i) : LeadsTo(i, n) # {}}
    IN  IF scopes = {} THEN {}
        ELSE LeadsTo(i, CHOOSE n \in scopes : \A m \in scopes : m <= n)

\* The call has one reference, to the best of the procs with these definitions,
\* and none if there are none.
Referred(i) ==
    \E found \in SUBSET (1..Len(procs)) :
        /\ SearchedDefinitions(i) = Located(found)
        /\ Usages(i) = IF found = {} THEN {}
                       ELSE {[location |-> i,
                              id |-> BestFitProcToCall(procs, found, script[i].args),
                              type |-> "USAGE"]}

ReferredInv ==
    /\ PlainNames /\ PlainCalls /\ BodiesKeepNamespace
    /\ phase \in {"index", "ready"}
    => \A i \in 1..(at - 1) : script[i].op = "call" => Referred(i)

CallInv == DefinedInv /\ CountedInv /\ ReferredInv

\* Every proc found has a definition.
LEMMA LocatedExists ==
    ASSUME IndexInv, LexicalInv, NEW found \in SUBSET (1..Len(procs))
    PROVE  Located(found) = {} <=> found = {}
<1>1. ASSUME NEW p \in found PROVE Located(found) # {}
  <2>1. p \in 1..Len(procs) OBVIOUS
  <2>2. PICK d \in ToSet(references) : d.id = p /\ d.type = "DEFINITION"
    BY <2>1 DEF LexicalInv, DefinitionsInv
  <2>3. d.location \in Located(found) BY <2>2 DEF Located
  <2> QED BY <2>3
<1>2. found = {} => Located(found) = {} BY DEF Located
<1> QED BY <1>1, <1>2

LEMMA DefinesMatches ==
    ASSUME IndexInv, NameInv, DefinedInv, PlainNames, BodiesKeepNamespace,
           phase \in {"index", "ready"}, NEW path
    PROVE  TclDefines(path) = Located(Matches(namespaces, procs, path))
<1> DEFINE found == Matches(namespaces, procs, path)
<1>1. ASSUME NEW r \in ToSet(references), r.type = "DEFINITION"
      PROVE  r.location \in TclDefines(path) <=> r.id \in found
  <2> DEFINE here == Last(TclLevels[r.location])
             c == script[r.location]
             q == ProcPath(namespaces, procs, r.id)
  <2>1. /\ r.location \in 1..Len(script) /\ r.id \in 1..Len(procs)
        /\ c.op = "proc" /\ q = TclPath(here, c.name)
    BY <1>1, DefinitionsPath
  <2>2. r.location \in TclDefines(path) <=> TclPath(here, c.name) = path
    BY <2>1 DEF TclDefines
  <2>3. r.id \in found <=> q = path BY <2>1 DEF Matches
  <2> QED BY <2>1, <2>2, <2>3
<1> HIDE DEF found
<1>2. ASSUME NEW d \in TclDefines(path) PROVE d \in Located(found)
  <2>1. d \in 1..Len(script) /\ script[d].op = "proc" BY DEF TclDefines
  <2>2. PICK r \in ToSet(references) : r.location = d /\ r.type = "DEFINITION"
    BY <2>1 DEF DefinedInv
  <2>3. r.id \in found BY <1>1, <2>2
  <2> QED BY <2>2, <2>3 DEF Located
<1>3. ASSUME NEW d \in Located(found) PROVE d \in TclDefines(path)
  <2>1. PICK r \in ToSet(references) :
            r.location = d /\ r.type = "DEFINITION" /\ r.id \in found
    BY DEF Located
  <2> QED BY <1>1, <2>1
<1> QED BY <1>2, <1>3 DEF found

\* What is found from a namespace are the definitions in those around it.
LEMMA SearchedAre ==
    ASSUME IndexInv, LexicalInv, NameInv, DefinedInv, PlainNames, BodiesKeepNamespace,
           phase \in {"index", "ready"}, NEW i \in 1..Len(script),
           NEW here, here = Last(TclLevels[i]), Len(here) \in Nat,
           NEW found, Innermost(namespaces, procs, here, script[i].name, found)
    PROVE  SearchedDefinitions(i) = Located(found)
<1> DEFINE name == script[i].name
           From(n) == TclDefines(TclPath(SubSeq(here, 1, n), name))
           M(n) == FromScope(namespaces, procs, here, name, n)
           scopes == {n \in 0..Len(here) : From(n) # {}}
<1>1. SearchedDefinitions(i) =
          IF scopes = {} THEN {}
          ELSE From(CHOOSE n \in scopes : \A m \in scopes : m <= n)
  BY DEF SearchedDefinitions, TclDepth, LeadsTo
<1>2. \A n : From(n) = Located(M(n)) BY DefinesMatches DEF FromScope
<1>3. \A n : M(n) \in SUBSET (1..Len(procs)) BY DEF FromScope, Matches
<1> HIDE DEF From, M
<1>4. \A n : From(n) = {} <=> M(n) = {} BY <1>2, <1>3, LocatedExists
<1>5. CASE found = {}
  <2>1. \A n \in 0..Len(here) : M(n) = {} BY <1>5 DEF Innermost, M
  <2>2. scopes = {} BY <1>4, <2>1
  <2>3. Located(found) = {} BY <1>5 DEF Located
  <2> QED BY <1>1, <2>2, <2>3
<1>6. CASE found # {}
  <2>1. PICK n \in 0..Len(here) : /\ found = M(n)
                                  /\ \A m \in (n + 1)..Len(here) : M(m) = {}
    BY <1>6 DEF Innermost, M
  <2>2. n \in scopes BY <1>4, <1>6, <2>1
  <2>3. \A m \in scopes : m <= n /\ m \in Nat
    <3> SUFFICES ASSUME NEW m \in scopes PROVE m <= n /\ m \in Nat
      OBVIOUS
    <3>1. m \in 0..Len(here) /\ M(m) # {} BY <1>4
    <3>2. ~(m \in (n + 1)..Len(here)) BY <2>1, <3>1
    <3> QED BY <3>1, <3>2
  <2> HIDE DEF scopes
  <2>4. n \in Nat OBVIOUS
  <2>5. ASSUME NEW k \in scopes, \A m \in scopes : m <= k PROVE k = n
    <3>1. k <= n /\ n <= k /\ k \in Nat BY <2>2, <2>3, <2>5
    <3> QED BY <2>4, <3>1
  <2>6. (CHOOSE k \in scopes : \A m \in scopes : m <= k) = n BY <2>2, <2>3, <2>5
  <2> QED BY <1>1, <1>2, <2>1, <2>2, <2>6
<1> QED BY <1>5, <1>6

LEMMA CallInit == Init => CallInv
<1> SUFFICES ASSUME Init PROVE CallInv
  OBVIOUS
<1>1. references = <<>> /\ phase = "parse" BY DEF Init
<1>2. ToSet(references) = {} BY <1>1 DEF ToSet
<1>3. CountedInv BY <1>2 DEF CountedInv
<1> QED BY <1>1, <1>3 DEF CallInv, DefinedInv, ReferredInv

LEMMA LocatedStays ==
    ASSUME script' = script, \A r : IsDefinition(r)' <=> IsDefinition(r)
    PROVE  /\ \A i : SearchedDefinitions(i)' = SearchedDefinitions(i)
           /\ \A found : Located(found)' = Located(found)
<1>1. ASSUME NEW i PROVE SearchedDefinitions(i)' = SearchedDefinitions(i)
  BY DEF SearchedDefinitions, LeadsTo, TclDepth, TclDefines, TclLevels
<1>2. ASSUME NEW found PROVE Located(found)' = Located(found)
  <2>1. Located(found) = {r.location : r \in {r \in ToSet(references) :
                              IsDefinition(r) /\ r.id \in found}}
    BY DEF Located, IsDefinition
  <2>2. Located(found)' = {r.location : r \in {r \in ToSet(references)' :
                              IsDefinition(r)' /\ r.id \in found}}
    BY DEF Located, IsDefinition
  <2>3. {r \in ToSet(references)' : IsDefinition(r)' /\ r.id \in found} =
        {r \in ToSet(references) : IsDefinition(r) /\ r.id \in found}
    BY DEF IsDefinition
  <2> QED BY <2>1, <2>2, <2>3
<1> QED BY <1>1, <1>2

\* What a call refers to stays as it is when other calls are indexed.
LEMMA ReferredStays ==
    ASSUME script' = script, procs' = procs,
           \A r : IsDefinition(r)' <=> IsDefinition(r),
           NEW i, Usages(i)' = Usages(i), Referred(i)
    PROVE  Referred(i)'
BY LocatedStays DEF Referred

\* No definition is added, and the walk goes on, begins or is over.
LEMMA NothingDefined ==
    ASSUME CallInv, script' = script, procs' = procs,
           \A r : IsDefinition(r)' <=> IsDefinition(r),
           phase # "parse",
           \A d \in 1..Len(script) :
               (script[d].op = "proc" /\ phase = "scan" /\ (phase' = "scan" => d < at'))
                   => d < at
    PROVE  DefinedInv' /\ CountedInv'
<1>1. ASSUME NEW d \in 1..Len(script), script[d].op = "proc", phase' = "scan" => d < at'
      PROVE  \E r \in ToSet(references') : r.location = d /\ r.type = "DEFINITION"
  <2>1. PICK r \in ToSet(references) : r.location = d /\ r.type = "DEFINITION"
    BY <1>1 DEF CallInv, DefinedInv
  <2>2. IsDefinition(r)' BY <2>1 DEF IsDefinition
  <2> QED BY <2>1, <2>2 DEF IsDefinition
<1>2. DefinedInv' BY <1>1 DEF DefinedInv
<1>3. ASSUME NEW r \in ToSet(references'), r.type = "DEFINITION"
      PROVE  CountsOf(procs[r.id], script[r.location].params)
  <2>1. IsDefinition(r) BY <1>3 DEF IsDefinition
  <2> QED BY <2>1 DEF CallInv, CountedInv, IsDefinition
<1>4. CountedInv' BY <1>3 DEF CountedInv
<1> QED BY <1>2, <1>4

LEMMA ParseStepCalls ==
    ASSUME IndexInv, IndexInv', NameInv, CallInv, ParseStep PROVE CallInv'
<1>1. /\ phase = "parse" /\ phase' \in {"parse", "scan"} /\ at' = at
      /\ procs' = procs /\ references' = references
  BY DEF ParseStep, ParseCall, ParseEval, ParseProc, ParseBlock, ParseEnd, ParsedAll,
         Parse, tables
<1>2. at' = 1 BY <1>1 DEF IndexInv, ParseInv
<1>3. DefinedInv'
  <2>1. ASSUME NEW d \in 1..Len(script') PROVE ~(d < at') BY <1>2
  <2> QED BY <1>1, <2>1 DEF DefinedInv
<1>4. CountedInv' BY <1>1 DEF NameInv, PlacesInv, CountedInv
<1>5. ReferredInv' BY <1>1 DEF ReferredInv
<1> QED BY <1>3, <1>4, <1>5 DEF CallInv

LEMMA ScanProcCalls ==
    ASSUME IndexInv, IndexInv', NameInv, CallInv, ScanProc PROVE CallInv'
<1> DEFINE c == script[at]
           qn == SplitName(c.name)
           target == IF HasNamespace(qn) THEN ResolveNamespace(namespaces, qn, Here)
                     ELSE [table |-> namespaces, id |-> Here]
           row == NewProc(qn.name, target.id, c.params)
           new == [location |-> at, id |-> Len(procs) + 1, type |-> "DEFINITION"]
<1>1. /\ phase = "scan" /\ at <= Len(script) /\ script' = script /\ phase' = phase
      /\ at' = at + 1
      /\ procs' = Append(procs, row) /\ references' = Append(references, new)
  BY DEF ScanProc, At, Walk, Insert, NextId, AddReference, NewReference
<1>2. CountsOf(row, c.params) BY DEF NewProc, CountsOf
<1> HIDE DEF row, new
<1>3. /\ procs \in Seq(ProcRows) /\ procs' \in Seq(ProcRows) /\ Len(procs) \in Nat
      /\ references \in Seq(ReferenceRows) /\ references' \in Seq(ReferenceRows)
      /\ Len(script) \in Nat /\ at \in 1..(Len(script) + 1)
  BY DEF IndexInv, ProcsInv, ReferencesInv, ParseInv
<1>4. /\ \A p \in 1..Len(procs) : procs'[p] = procs[p]
      /\ procs'[Len(procs) + 1] = row
  BY <1>1, <1>3
<1>5. /\ new.location = at /\ new.id = Len(procs) + 1 /\ new.type = "DEFINITION"
      /\ new \in ReferenceRows
  BY <1>3 DEF new, ReferenceRows
<1>6. ToSet(references') = ToSet(references) \cup {new}
  BY <1>1, <1>3, <1>5, MembersOfLonger
<1>7. DefinedInv'
  <2> SUFFICES ASSUME NEW d \in 1..Len(script), script[d].op = "proc", d < at + 1
               PROVE  \E r \in ToSet(references') :
                          r.location = d /\ r.type = "DEFINITION"
    BY <1>1 DEF DefinedInv
  <2>1. CASE d < at BY <1>1, <1>6, <2>1 DEF CallInv, DefinedInv
  <2>2. CASE d = at BY <1>5, <1>6, <2>2
  <2> QED BY <1>3, <2>1, <2>2
<1>8. CountedInv'
  <2> SUFFICES ASSUME NEW r \in ToSet(references'), r.type = "DEFINITION"
               PROVE  CountsOf(procs'[r.id], script[r.location].params)
    BY <1>1 DEF CountedInv
  <2>1. CASE r \in ToSet(references)
    <3>1. r.id \in 1..Len(procs) BY <2>1 DEF IndexInv, ReferencesInv, ToSet
    <3> QED BY <1>4, <2>1, <3>1 DEF CallInv, CountedInv
  <2>2. CASE r = new BY <1>2, <1>4, <1>5, <2>2
  <2> QED BY <1>6, <2>1, <2>2
<1>9. ReferredInv' BY <1>1 DEF ReferredInv
<1> QED BY <1>7, <1>8, <1>9 DEF CallInv

\* A step that adds no reference.
LEMMA NothingReferred ==
    ASSUME IndexInv, CallInv, script' = script, procs' = procs,
           references' = references, phase # "parse",
           \/ /\ phase' = phase /\ at' = at + 1 /\ at \in 1..Len(script)
              /\ phase = "scan" => script[at].op # "proc"
              /\ phase \in {"index", "ready"} => script[at].op # "call"
           \/ /\ phase' \in {"index", "ready"} /\ at' \in {1, at}
              /\ at' = 1 \/ phase \in {"index", "ready"}
              /\ phase = "scan" => at > Len(script)
    PROVE  CallInv'
<1>1. Len(script) \in Nat /\ at \in 1..(Len(script) + 1) BY DEF IndexInv, ParseInv
<1>2. \A r : IsDefinition(r)' <=> IsDefinition(r) BY DEF IsDefinition
<1>3. ASSUME NEW d \in 1..Len(script), script[d].op = "proc", phase = "scan",
             phase' = "scan" => d < at'
      PROVE  d < at
  <2>1. CASE phase' = "scan"
    <3>1. d # at /\ d < at + 1 BY <1>3, <2>1
    <3> QED BY <1>1, <3>1
  <2>2. CASE phase' # "scan"
    <3>1. at > Len(script) BY <1>3, <2>2
    <3> QED BY <1>1, <3>1
  <2> QED BY <2>1, <2>2
<1>4. DefinedInv' /\ CountedInv' BY <1>2, <1>3, NothingDefined
<1>5. ReferredInv'
  <2> SUFFICES ASSUME PlainNames, PlainCalls, BodiesKeepNamespace,
                      phase' \in {"index", "ready"},
                      NEW i \in 1..(at' - 1), script[i].op = "call"
               PROVE  Referred(i)'
    BY SameScript DEF ReferredInv, PlainCalls
  <2>1. phase \in {"index", "ready"} /\ i \in 1..(at - 1)
    <3>1. CASE at' = 1 BY <3>1
    <3>2. CASE at' = at + 1 /\ phase' = phase
      <4>1. i # at BY <3>2
      <4> QED BY <1>1, <3>2, <4>1
    <3>3. CASE at' = at /\ at' # 1 /\ phase' \in {"index", "ready"}
      <4>1. phase \in {"index", "ready"} BY <1>1, <3>3
      <4> QED BY <3>3, <4>1
    <3> QED BY <1>1, <3>1, <3>2, <3>3
  <2>2. Referred(i) BY <2>1 DEF CallInv, ReferredInv
  <2>3. Usages(i)' = Usages(i) BY DEF Usages
  <2> QED BY <1>2, <2>2, <2>3, ReferredStays
<1> QED BY <1>4, <1>5 DEF CallInv

LEMMA IndexCallCalls ==
    ASSUME IndexInv, IndexInv', LexicalInv, NameInv, CallInv, IndexCall PROVE CallInv'
<1> DEFINE lookup == FindProc(namespaces, procs, Here, script[at].name)
           found == lookup.found
           best == BestFitProcToCall(procs, found, script[at].args)
           new == [location |-> at, id |-> best, type |-> "USAGE"]
<1>1. /\ phase = "index" /\ at <= Len(script) /\ script[at].op = "call"
      /\ script' = script /\ phase' = phase /\ at' = at + 1 /\ procs' = procs
      /\ references' = IF best = 0 THEN references ELSE Append(references, new)
  BY DEF IndexCall, At, Walk, AddReference, NewReference
<1>2. /\ Len(script) \in Nat /\ at \in 1..Len(script) /\ at \in Nat
      /\ references \in Seq(ReferenceRows) /\ references' \in Seq(ReferenceRows)
      /\ procs \in Seq(ProcRows) /\ Len(procs) \in Nat
      /\ script \in Seq(Commands)
  BY <1>1 DEF IndexInv, ParseInv, ReferencesInv, ProcsInv
<1>3. namespaces \in Trees /\ Here \in 1..Len(namespaces) BY HereIsPlace
<1>4. NamespaceParts(SplitName(script[at].name)) \in Seq(Identifier)
      /\ script[at].name \in Texts
  BY <1>2, CommandAt
<1>5. found \in SUBSET (1..Len(procs))
  <2>1. lookup = FindProc(namespaces, procs, Here, script[at].name) OBVIOUS
  <2> HIDE DEF lookup
  <2> QED BY <1>3, <1>4, <2>1, FindProcLeads
<1>6. (found = {} => best = 0) /\ (found # {} => best # 0)
  <2> HIDE DEF found
  <2>1. (found = {} => best = 0) /\ (found # {} => best \in found)
    BY <1>2, <1>5, BestFitIsFound
  <2>2. \A p \in found : p # 0 BY <1>2, <1>5
  <2> QED BY <2>1, <2>2
<1>7. PlainNames /\ PlainCalls /\ BodiesKeepNamespace =>
          SearchedDefinitions(at) = Located(found)
  <2> SUFFICES ASSUME PlainNames, PlainCalls, BodiesKeepNamespace
               PROVE  SearchedDefinitions(at) = Located(found)
    OBVIOUS
  <2>1. PICK l : TclNesting(l)
    <3>1. PICK levels : Levels(levels, script) BY DEF IndexInv, NestingInv
    <3> QED BY <3>1, TclNests
  <2>2. TclLevels[at] = l[at - 1] BY <1>2, <2>1, TclLevelsAre
  <2>3. Trusted(l, at - 1, Len(nsPath)) BY <1>1 DEF Trusted, Misled
  <2>4. Followed BY <1>1 DEF NameInv, FollowedInv
  <2>5. PathHere = Last(TclLevels[at]) BY <2>1, <2>2, <2>3, <2>4, HereFollowed
  <2>6. Len(PathHere) \in Nat
    <3>1. PathHere \in Seq(Identifier) BY <1>3, PathOfRow DEF PathHere
    <3> QED BY <3>1
  <2>7. script[at].name # EmptyText BY <1>1, <1>2 DEF PlainCalls
  <2>8. Placed(namespaces, procs) BY DEF Placed, IndexInv, ProcsInv
  <2>9. Innermost(namespaces, procs, PathHere, script[at].name, found)
    <3>1. lookup = FindProc(namespaces, procs, Here, script[at].name) OBVIOUS
    <3>2. PathHere = PathsOf(namespaces)[Here] BY DEF PathHere
    <3> HIDE DEF lookup
    <3> QED BY <1>3, <1>4, <2>7, <2>8, <3>1, <3>2, FindProcMatches
  <2> HIDE DEF lookup, found
  <2> DEFINE here == PathHere
  <2>10. here = Last(TclLevels[at]) /\ Len(here) \in Nat BY <2>5, <2>6
  <2>11. Innermost(namespaces, procs, here, script[at].name, found) BY <2>9
  <2> HIDE DEF here
  <2> QED BY <1>1, <1>2, <2>10, <2>11, SearchedAre DEF CallInv
<1> HIDE DEF lookup, found, new
<1>8. best = 0 => references' = references BY <1>1
<1>9. best # 0 => ToSet(references') = ToSet(references) \cup {new}
  <2> SUFFICES ASSUME best # 0 PROVE ToSet(references') = ToSet(references) \cup {new}
    OBVIOUS
  <2>1. references' = Append(references, new) BY <1>1
  <2>2. new \in ReferenceRows
    <3>1. Len(references) \in Nat /\ Len(references') = Len(references) + 1
          /\ references'[Len(references) + 1] = new
      BY <1>2, <2>1
    <3>2. Len(references) + 1 \in 1..Len(references') BY <3>1
    <3> QED BY <1>2, <3>1, <3>2
  <2> QED BY <1>2, <2>1, <2>2, MembersOfLonger
<1>10. new.location = at /\ new.type = "USAGE" BY DEF new
<1> HIDE DEF best
<1>11. \A r : IsDefinition(r)' <=> IsDefinition(r)
  BY <1>8, <1>9, <1>10 DEF IsDefinition
<1>12. DefinedInv' /\ CountedInv' BY <1>1, <1>11, NothingDefined
<1>13. \A i : i # at => Usages(i)' = Usages(i) BY <1>8, <1>9, <1>10 DEF Usages
<1>14. Usages(at) = {}
  <2>1. ASSUME NEW r \in Usages(at) PROVE FALSE
    <3>1. r \in ToSet(references) /\ r.location = at /\ r.type = "USAGE" BY DEF Usages
    <3>2. r.location \in 1..(at - 1) BY <3>1 DEF LexicalInv, UsagesInv
    <3> QED BY <1>2, <3>1, <3>2
  <2> QED BY <2>1
<1>15. \A i : i = at => Usages(i)' = IF found = {} THEN {} ELSE {new}
  <2> SUFFICES ASSUME NEW i, i = at
               PROVE  Usages(i)' = IF found = {} THEN {} ELSE {new}
    OBVIOUS
  <2>1. Usages(i) = {} BY <1>14
  <2>2. CASE best = 0 BY <1>6, <1>8, <2>1, <2>2 DEF Usages
  <2>3. CASE best # 0 BY <1>6, <1>9, <1>10, <2>1, <2>3 DEF Usages
  <2> QED BY <2>2, <2>3
<1>16. ReferredInv'
  <2> SUFFICES ASSUME PlainNames, PlainCalls, BodiesKeepNamespace,
                      NEW i \in 1..(at' - 1), script[i].op = "call"
               PROVE  Referred(i)'
    BY <1>1, SameScript DEF ReferredInv, PlainCalls
  <2>1. CASE i \in 1..(at - 1)
    <3>1. Referred(i) BY <1>1, <2>1 DEF CallInv, ReferredInv
    <3>2. i # at BY <1>2, <2>1
    <3> QED BY <1>1, <1>11, <1>13, <3>1, <3>2, ReferredStays
  <2>2. CASE i = at
    <3>1. PICK chosen : chosen = found OBVIOUS
    <3>2. SearchedDefinitions(i) = Located(chosen) BY <1>7, <2>2, <3>1
    <3>3. SearchedDefinitions(i)' = Located(chosen)' BY <1>1, <1>11, <3>2, LocatedStays
    <3>4. Usages(i)' = IF chosen = {} THEN {}
                       ELSE {[location |-> i,
                              id |-> BestFitProcToCall(procs', chosen, script'[i].args),
                              type |-> "USAGE"]}
      BY <1>1, <1>15, <2>2, <3>1 DEF new, best
    <3>5. chosen \in SUBSET (1..Len(procs')) BY <1>1, <1>5, <3>1
    <3> QED BY <3>3, <3>4, <3>5 DEF Referred
  <2>3. i \in 1..(at - 1) \/ i = at BY <1>1, <1>2
  <2> QED BY <2>1, <2>2, <2>3
<1> QED BY <1>12, <1>16 DEF CallInv

LEMMA CallNext ==
    IndexInv /\ LexicalInv /\ NameInv /\ CallInv /\ [Next]_vars => CallInv'
<1> SUFFICES ASSUME IndexInv, LexicalInv, NameInv, CallInv, [Next]_vars PROVE CallInv'
  OBVIOUS
<1>1. IndexInv' BY IndexNext
<1>2. Len(script) \in Nat /\ at \in 1..(Len(script) + 1) BY DEF IndexInv, ParseInv
<1>3. CASE ParseStep BY <1>1, <1>3, ParseStepCalls
<1>4. CASE ScanProc BY <1>1, <1>4, ScanProcCalls
<1>5. CASE IndexCall BY <1>1, <1>5, IndexCallCalls
<1>6. CASE ScannedAll \/ IndexedAll
  <2>1. /\ procs' = procs /\ references' = references /\ script' = script
        /\ phase # "parse" /\ phase' \in {"index", "ready"} /\ at' \in {1, at}
        /\ at' = 1 \/ phase \in {"index", "ready"}
        /\ at > Len(script)
    BY <1>6 DEF ScannedAll, IndexedAll, tables
  <2> QED BY <2>1, NothingReferred
<1>7. ASSUME \/ \E walk \in {"scan", "index"} :
                   EvalNamespace(walk) \/ EnterBlock(walk) \/ Leave(walk)
             \/ ScanCall \/ IndexProc
      PROVE  CallInv'
  <2>1. /\ procs' = procs /\ references' = references /\ script' = script
        /\ phase # "parse" /\ phase' = phase /\ at' = at + 1 /\ at <= Len(script)
        /\ phase = "scan" => script[at].op # "proc"
        /\ phase \in {"index", "ready"} => script[at].op # "call"
    BY <1>7 DEF EvalNamespace, EnterBlock, Leave, ScanCall, IndexProc, At, Walk, tables
  <2>2. at \in 1..Len(script) BY <1>2, <2>1
  <2> QED BY <2>1, <2>2, NothingReferred
<1>8. CASE AskReferences \/ AskDefinition
  <2>1. /\ procs' = procs /\ references' = references /\ script' = script
        /\ phase = "ready" /\ phase' = "ready" /\ at' = at
    BY <1>8 DEF AskReferences, AskDefinition, AskFor, Ask
  <2> QED BY <2>1, NothingReferred
<1>9. CASE UNCHANGED vars
  <2>1. /\ script' = script /\ phase' = phase /\ at' = at
        /\ procs' = procs /\ references' = references
    BY <1>9 DEF vars, tables
  <2>2. \A r : IsDefinition(r)' <=> IsDefinition(r) BY <2>1 DEF IsDefinition
  <2>3. DefinedInv' BY <2>1 DEF CallInv, DefinedInv
  <2>4. CountedInv' BY <2>1 DEF CallInv, CountedInv
  <2>5. \A i : Usages(i)' = Usages(i) BY <2>1 DEF Usages
  <2>6. \A i : Referred(i) => Referred(i)' BY <2>1, <2>2, <2>5, ReferredStays
  <2>7. ReferredInv' BY <2>1, <2>6, SameScript DEF CallInv, ReferredInv, PlainCalls
  <2> QED BY <2>3, <2>4, <2>7 DEF CallInv
<1> QED
  BY <1>3, <1>4, <1>5, <1>6, <1>7, <1>8, <1>9 DEF Next, ScanStep, IndexStep, Idle

\* Tcl finds nothing that the code would not, and what the code finds unless it
\* is in a namespace between that of the call and the global one.
LEMMA TclSearchesLess ==
    ASSUME IndexInv, NEW i \in 1..Len(script)
    PROVE  /\ TclDefinitions(i) # {} => SearchedDefinitions(i) # {}
           /\ NoneBetween(i) => SearchedDefinitions(i) = TclDefinitions(i)
<1> DEFINE N == TclDepth(i)
           L(n) == LeadsTo(i, n)
           scopes == {n \in 0..N : L(n) # {}}
           Inmost(n) == n \in scopes /\ \A m \in scopes : m <= n
<1>1. N \in Nat
  <2>1. PICK l : TclNesting(l)
    <3>1. PICK levels : Levels(levels, script) BY DEF IndexInv, NestingInv
    <3> QED BY <3>1, TclNests
  <2>2. Len(script) \in Nat BY DEF IndexInv, ParseInv
  <2>3. i - 1 \in 0..Len(script) BY <2>2
  <2>4. TclLevels[i] \in TclStacks BY <2>1, <2>2, <2>3, TclLevelsAre DEF TclNesting
  <2> DEFINE D == Seq(Identifier)
             stack == TclLevels[i]
  <2>5. stack \in Seq(D) /\ stack # <<>> BY <2>4 DEF TclStacks
  <2> HIDE DEF D, stack
  <2>6. Len(stack) > 0 BY <2>5, EmptySeq
  <2>7. Last(stack) \in D BY <2>5, <2>6, FrontAndLast
  <2> QED BY <2>7 DEF TclDepth, D, stack
<1>2. /\ TclDefinitions(i) = IF L(N) # {} THEN L(N) ELSE L(0)
      /\ NoneBetween(i) <=> L(N) # {} \/ \A n \in 1..(N - 1) : L(n) = {}
  BY DEF TclDefinitions, NoneBetween
<1>3. SearchedDefinitions(i) =
          IF scopes = {} THEN {} ELSE L(CHOOSE n \in scopes : \A m \in scopes : m <= n)
  BY DEF SearchedDefinitions
<1> HIDE DEF N, L
<1>4. scopes # {} => \E n : Inmost(n) BY <1>1, GreatestMember
<1>5. ASSUME NEW n, Inmost(n) PROVE SearchedDefinitions(i) = L(n) /\ L(n) # {}
  <2>1. n \in Nat /\ \A m \in scopes : m \in Nat BY <1>1, <1>5
  <2>2. ASSUME NEW k \in scopes, \A m \in scopes : m <= k PROVE k = n
    <3>1. k <= n /\ n <= k /\ k \in Nat BY <1>5, <2>1, <2>2
    <3> QED BY <2>1, <3>1
  <2> HIDE DEF scopes
  <2>3. (CHOOSE k \in scopes : \A m \in scopes : m <= k) = n BY <1>5, <2>2
  <2>4. scopes # {} BY <1>5
  <2> QED BY <1>3, <1>5, <2>3, <2>4 DEF scopes
<1>6. N \in 0..N /\ 0 \in 0..N BY <1>1
<1>7. CASE L(N) # {}
  <2>1. Inmost(N) BY <1>1, <1>6, <1>7
  <2> QED BY <1>2, <1>5, <1>7, <2>1
<1>8. CASE L(N) = {} /\ L(0) # {}
  <2>1. 0 \in scopes BY <1>6, <1>8
  <2>2. PICK n : Inmost(n) BY <1>4, <2>1
  <2>3. SearchedDefinitions(i) # {} BY <1>5, <2>2
  <2>4. ASSUME NoneBetween(i) PROVE Inmost(0)
    <3>1. ASSUME NEW m \in scopes PROVE m = 0
      <4>1. m \in 0..N /\ L(m) # {} OBVIOUS
      <4>2. m # N /\ ~(m \in 1..(N - 1)) BY <1>2, <1>8, <2>4, <4>1
      <4> QED BY <1>1, <4>1, <4>2
    <3> QED BY <2>1, <3>1
  <2>5. NoneBetween(i) => SearchedDefinitions(i) = L(0) BY <1>5, <2>4
  <2> QED BY <1>2, <1>8, <2>3, <2>5
<1>9. CASE L(N) = {} /\ L(0) = {}
  <2>1. TclDefinitions(i) = {} BY <1>2, <1>9
  <2>2. ASSUME NoneBetween(i) PROVE scopes = {}
    <3>1. ASSUME NEW m \in scopes PROVE FALSE
      <4>1. m \in 0..N /\ L(m) # {} OBVIOUS
      <4>2. m # N /\ m # 0 /\ ~(m \in 1..(N - 1)) BY <1>2, <1>9, <2>2, <4>1
      <4> QED BY <1>1, <4>1, <4>2
    <3> QED BY <3>1
  <2> QED BY <1>3, <2>1, <2>2
<1> QED BY <1>7, <1>8, <1>9

\* What a call refers to, once the script is indexed.
LEMMA CallRefers ==
    ASSUME IndexInv, LexicalInv, NameInv, CallInv, phase = "ready",
           PlainNames, PlainCalls, BodiesKeepNamespace,
           NEW i \in 1..Len(script), script[i].op = "call"
    PROVE  \E found \in SUBSET (1..Len(procs)) :
               /\ SearchedDefinitions(i) = Located(found)
               /\ found = {} => Usages(i) = {}
               /\ found # {} => \E r : /\ Usages(i) = {r} /\ r.id \in found
                                       /\ r.id = BestFitProcToCall(procs, found,
                                                                   script[i].args)
<1>1. i \in 1..(at - 1)
  <2>1. at = Len(script) + 1 /\ Len(script) \in Nat BY DEF IndexInv, ParseInv
  <2> QED BY <2>1
<1>2. PICK found \in SUBSET (1..Len(procs)) :
          /\ SearchedDefinitions(i) = Located(found)
          /\ Usages(i) = IF found = {} THEN {}
                         ELSE {[location |-> i,
                                id |-> BestFitProcToCall(procs, found, script[i].args),
                                type |-> "USAGE"]}
  BY <1>1 DEF CallInv, ReferredInv, Referred
<1>3. Len(procs) \in Nat BY DEF IndexInv, ProcsInv
<1> DEFINE best == BestFitProcToCall(procs, found, script[i].args)
           r == [location |-> i, id |-> best, type |-> "USAGE"]
<1>4. found # {} => best \in found BY <1>2, <1>3, BestFitIsFound
<1>5. found # {} => Usages(i) = {r} BY <1>2
<1>6. r.id = best OBVIOUS
<1> HIDE DEF r
<1>7. found # {} => \E u : Usages(i) = {u} /\ u.id \in found /\ u.id = best
  BY <1>4, <1>5, <1>6
<1> QED BY <1>2, <1>7

LEMMA DefinitionIsLocated ==
    ASSUME IndexInv, LexicalInv, NEW found \in SUBSET (1..Len(procs)), NEW p \in found
    PROVE  \E r \in ToSet(references) :
               /\ r.type = "DEFINITION" /\ r.id = p /\ r.location = DefinitionOf(p)
               /\ DefinitionOf(p) \in Located(found)
<1>1. p \in 1..Len(procs) OBVIOUS
<1>2. DefinitionOf(p) \in {r.location : r \in ReferencesTo(p, {"DEFINITION"})}
  BY <1>1, DefinitionFound
<1>3. PICK r \in ReferencesTo(p, {"DEFINITION"}) : r.location = DefinitionOf(p)
  BY <1>2
<1>4. r \in ToSet(references) /\ r.type = "DEFINITION" /\ r.id = p
  BY DEF ReferencesTo
<1>5. DefinitionOf(p) \in Located(found) BY <1>3, <1>4 DEF Located
<1> QED BY <1>3, <1>4, <1>5

\* In every script whose names are plain a call refers to one definition at most,
\* to one if Tcl finds any for it, and to one that Tcl would find unless there is
\* one in a namespace Tcl does not look in (index.cpp:526-576, 661-673).
THEOREM CallsAreResolved == Spec => [](PlainNames /\ PlainCalls => CallsResolve)
<1>1. IndexInv /\ LexicalInv /\ NameInv /\ CallInv =>
          (PlainNames /\ PlainCalls => CallsResolve)
  <2> SUFFICES ASSUME IndexInv, LexicalInv, NameInv, CallInv, phase = "ready",
                      PlainNames, PlainCalls, BodiesKeepNamespace,
                      NEW i \in 1..Len(script), script[i].op = "call"
               PROVE  /\ Cardinality(Usages(i)) <= 1
                      /\ TclDefinitions(i) # {} => Usages(i) # {}
                      /\ NoneBetween(i) =>
                            \A r \in Usages(i) : DefinitionOf(r.id) \in TclDefinitions(i)
    BY DEF CallsResolve
  <2>1. PICK found \in SUBSET (1..Len(procs)) :
            /\ SearchedDefinitions(i) = Located(found)
            /\ found = {} => Usages(i) = {}
            /\ found # {} => \E r : Usages(i) = {r} /\ r.id \in found
    BY CallRefers
  <2>2. Located(found) = {} <=> found = {} BY LocatedExists
  <2>3. /\ TclDefinitions(i) # {} => SearchedDefinitions(i) # {}
        /\ NoneBetween(i) => SearchedDefinitions(i) = TclDefinitions(i)
    BY TclSearchesLess
  <2>4. CASE found = {}
    <3>1. Usages(i) = {} /\ TclDefinitions(i) = {} BY <2>1, <2>2, <2>3, <2>4
    <3>2. Cardinality(Usages(i)) = 0 BY <3>1, FS_EmptySet
    <3> QED BY <3>1, <3>2
  <2>5. CASE found # {}
    <3>1. PICK r : Usages(i) = {r} /\ r.id \in found BY <2>1, <2>5
    <3>2. Cardinality(Usages(i)) = 1 BY <3>1, FS_Singleton
    <3>3. DefinitionOf(r.id) \in Located(found) BY <3>1, DefinitionIsLocated
    <3> QED BY <2>1, <2>3, <3>1, <3>2, <3>3
  <2> QED BY <2>4, <2>5
<1> QED
  BY <1>1, IndexInit, IndexNext, LexicalInit, LexicalNext, NameInit, NameNext,
     CallInit, CallNext, PTL
  DEF Spec

-----------------------------------------------------------------------------
(* Which of several procs it is.                                           *)

\* A list of one parameter counts as none, and "args" as one that is required.
PlainParams ==
    \A i \in 1..Len(script) : script[i].op = "proc" =>
        /\ Len(script[i].params) # 1
        /\ \A k \in 1..Len(script[i].params) : script[i].params[k] # "args"

Fits(row, args) == row.required <= args /\ args <= row.required + row.optional

\* Of plain parameters the counts say what Tcl accepts.
LEMMA CountsAccept ==
    ASSUME NEW params \in ParameterLists, Len(params) # 1,
           \A k \in 1..Len(params) : params[k] # "args",
           NEW row, CountsOf(row, params), NEW args \in Nat
    PROVE  /\ row.required \in Nat /\ row.optional \in Nat /\ row.variadic = FALSE
           /\ TclAccepts(params, args) <=> Fits(row, args)
<1> DEFINE places == 1..Len(params)
           plain == {i \in places : params[i] \in {"plain"}}
           counted == {i \in places : params[i] \in {"plain", "args"}}
           default == {i \in places : params[i] \in {"default"}}
           rest == {i \in places : params[i] \in {"args"}}
<1>1. /\ Len(params) \in Nat
      /\ \A i \in places : params[i] \in {"plain", "default", "args"}
  BY DEF ParameterLists
<1>2. /\ row.required = Cardinality(counted) /\ row.optional = Cardinality(default)
      /\ row.variadic = FALSE
  BY DEF CountsOf, Counted, Occurrences
<1>3. TclAccepts(params, args) <=>
          /\ Cardinality(plain) <= args
          /\ args <= Len(params) \/ Cardinality(rest) > 0
  BY DEF TclAccepts, Occurrences
<1>4. /\ counted = plain /\ rest = {} /\ plain \cap default = {}
      /\ plain \cup default = places /\ plain \subseteq places /\ default \subseteq places
  BY <1>1
<1>5. IsFiniteSet(places) /\ Cardinality(places) = Len(params)
  <2> DEFINE n == Len(params)
  <2>1. n \in Nat BY <1>1
  <2> HIDE DEF n
  <2>2. IsFiniteSet(1..n) /\ Cardinality(1..n) = IF 1 > n THEN 0 ELSE n - 1 + 1
    BY <2>1, FS_Interval
  <2>3. (IF 1 > n THEN 0 ELSE n - 1 + 1) = n BY <2>1
  <2> QED BY <2>2, <2>3 DEF n
<1>6. Cardinality(rest) = 0 BY <1>4, FS_EmptySet
<1> HIDE DEF places, plain, counted, default, rest
<1>7. IsFiniteSet(plain) /\ IsFiniteSet(default) BY <1>4, <1>5, FS_Subset
<1>8. Cardinality(plain) \in Nat /\ Cardinality(default) \in Nat
  BY <1>7, FS_CardinalityType
<1>9. Len(params) = Cardinality(plain) + Cardinality(default)
  <2>1. Cardinality(plain \cup default) =
            Cardinality(plain) + Cardinality(default) - Cardinality(plain \cap default)
    BY <1>7, FS_Union
  <2>2. Cardinality(plain \cap default) = 0 BY <1>4, FS_EmptySet
  <2>3. Cardinality(plain \cup default) = Len(params) BY <1>4, <1>5
  <2> DEFINE a == Cardinality(plain)
             b == Cardinality(default)
  <2>4. a \in Nat /\ b \in Nat /\ Len(params) = a + b - 0 BY <1>8, <2>1, <2>2, <2>3
  <2> HIDE DEF a, b
  <2>5. Len(params) = a + b BY <2>4
  <2> QED BY <2>5 DEF a, b
<1> QED BY <1>2, <1>3, <1>4, <1>6, <1>8, <1>9 DEF Fits

\* If one of the procs fits, that which is chosen does.
LEMMA BestFits ==
    ASSUME NEW rows, Len(rows) \in Nat, NEW found \in SUBSET (1..Len(rows)),
           NEW args \in Nat,
           \A p \in found : /\ rows[p].required \in Nat /\ rows[p].optional \in Nat
                            /\ rows[p].variadic = FALSE,
           NEW q \in found, Fits(rows[q], args)
    PROVE  Fits(rows[BestFitProcToCall(rows, found, args)], args)
<1> DEFINE first == Min(found)
           exact == {p \in found \ {first} : args = rows[p].required}
           fits == {p \in found \ {first} :
                       /\ args > rows[p].required
                       /\ \/ args <= rows[p].required + rows[p].optional
                          \/ rows[p].variadic}
           best == CASE found = {} -> 0
                     [] found # {} /\ exact # {} -> Min(exact)
                     [] found # {} /\ exact = {} /\ fits # {} -> Max(fits)
                     [] OTHER -> first
<1>1. best = BestFitProcToCall(rows, found, args)
  BY DEF BestFitProcToCall
<1>2. ASSUME NEW S \in SUBSET found, S # {} PROVE Min(S) \in S /\ Max(S) \in S
  <2>1. S \subseteq Nat /\ S \in SUBSET (0..Len(rows)) OBVIOUS
  <2>2. \E m \in S : \A n \in S : m <= n BY <1>2, <2>1, LeastMember
  <2>3. \E m \in S : \A n \in S : n <= m BY <1>2, <2>1, GreatestMember
  <2>4. \E m \in S : \A n \in S : m >= n BY <2>1, <2>3
  <2> QED BY <2>2, <2>4 DEF Min, Max
<1>3. exact \in SUBSET found /\ fits \in SUBSET found OBVIOUS
<1>4. \A p \in exact \cup fits : Fits(rows[p], args) BY DEF Fits
<1>5. exact = {} /\ fits = {} => q = first
  <2> SUFFICES ASSUME q # first PROVE q \in exact \/ q \in fits
    OBVIOUS
  <2>1. q \in found \ {first} OBVIOUS
  <2>2. /\ rows[q].required \in Nat /\ rows[q].required <= args
        /\ args <= rows[q].required + rows[q].optional
    BY DEF Fits
  <2> HIDE DEF first
  <2>3. CASE args = rows[q].required BY <2>1, <2>3
  <2>4. CASE args # rows[q].required
    <3>1. args > rows[q].required BY <2>2, <2>4
    <3> QED BY <2>1, <2>2, <3>1
  <2> QED BY <2>3, <2>4
<1>6. found # {} OBVIOUS
<1> HIDE DEF exact, fits, first
<1>7. best = IF exact # {} THEN Min(exact) ELSE IF fits # {} THEN Max(fits) ELSE first
  BY <1>6
<1> HIDE DEF best
<1>8. exact # {} => Min(exact) \in exact BY <1>2, <1>3
<1>9. fits # {} => Max(fits) \in fits BY <1>2, <1>3
<1>10. Fits(rows[best], args)
  <2>1. CASE exact # {} BY <1>4, <1>7, <1>8, <2>1
  <2>2. CASE exact = {} /\ fits # {} BY <1>4, <1>7, <1>9, <2>2
  <2>3. CASE exact = {} /\ fits = {} BY <1>5, <1>7, <2>3
  <2> QED BY <2>1, <2>2, <2>3
<1> QED BY <1>1, <1>10

\* A definition and the proc it is of.
LEMMA DefinitionAccepts ==
    ASSUME IndexInv, NameInv, CallInv, PlainNames, BodiesKeepNamespace, PlainParams,
           NEW r \in ToSet(references), r.type = "DEFINITION", NEW args \in Nat
    PROVE  /\ procs[r.id].required \in Nat /\ procs[r.id].optional \in Nat
           /\ procs[r.id].variadic = FALSE
           /\ TclAccepts(script[r.location].params, args) <=> Fits(procs[r.id], args)
<1> DEFINE params == script[r.location].params
           row == procs[r.id]
<1>1. r.location \in 1..Len(script) /\ script[r.location].op = "proc"
  BY DefinitionsPath
<1>2. params \in ParameterLists
  <2>1. script \in Seq(Commands) BY DEF IndexInv, ParseInv
  <2>2. script[r.location] \in Commands BY <1>1, <2>1
  <2> QED BY <2>2 DEF Commands
<1>3. CountsOf(row, params) BY DEF CallInv, CountedInv
<1>4. Len(params) # 1 /\ \A k \in 1..Len(params) : params[k] # "args"
  BY <1>1 DEF PlainParams
<1> HIDE DEF params, row
<1>5. /\ row.required \in Nat /\ row.optional \in Nat /\ row.variadic = FALSE
      /\ TclAccepts(params, args) <=> Fits(row, args)
  BY <1>2, <1>3, <1>4, CountsAccept
<1> QED BY <1>5 DEF params, row

\* In every script whose names and parameter lists are plain, a call refers to a
\* definition that can take its arguments if Tcl finds such a one for it
\* (index.cpp:578-624), unless there is one in a namespace Tcl does not look in,
\* or one in the body of a proc with a qualified name.
THEOREM CallsAreFitted ==
    Spec => [](PlainNames /\ PlainCalls /\ PlainParams /\ BodiesKeepNamespace =>
                   FittingDefinition)
<1>1. IndexInv /\ LexicalInv /\ NameInv /\ CallInv =>
          (PlainNames /\ PlainCalls /\ PlainParams /\ BodiesKeepNamespace =>
               FittingDefinition)
  <2> SUFFICES ASSUME IndexInv, LexicalInv, NameInv, CallInv, phase = "ready",
                      PlainNames, PlainCalls, PlainParams, BodiesKeepNamespace,
                      NEW i \in 1..Len(script), script[i].op = "call", NoneBetween(i),
                      NEW r \in Usages(i), NEW d \in TclDefinitions(i),
                      TclAccepts(script[d].params, script[i].args)
               PROVE  TclAccepts(script[DefinitionOf(r.id)].params, script[i].args)
    BY DEF FittingDefinition
  <2> DEFINE args == script[i].args
  <2>1. PICK found \in SUBSET (1..Len(procs)) :
            /\ TclDefinitions(i) = Located(found)
            /\ found = {} => Usages(i) = {}
            /\ found # {} => \E u : /\ Usages(i) = {u} /\ u.id \in found
                                    /\ u.id = BestFitProcToCall(procs, found, args)
    <3>1. SearchedDefinitions(i) = TclDefinitions(i) BY TclSearchesLess
    <3> QED BY <3>1, CallRefers
  <2>2. r.id \in found /\ r.id = BestFitProcToCall(procs, found, args) BY <2>1
  <2>3. args \in Nat
    <3>1. script \in Seq(Commands) BY DEF IndexInv, ParseInv
    <3>2. script[i] \in Commands BY <3>1
    <3> QED BY <3>2 DEF Commands
  <2> HIDE DEF args
  <2>4. ASSUME NEW p \in found
        PROVE  /\ procs[p].required \in Nat /\ procs[p].optional \in Nat
               /\ procs[p].variadic = FALSE
    <3>1. PICK b \in ToSet(references) : b.type = "DEFINITION" /\ b.id = p
      BY DefinitionIsLocated
    <3> QED BY <2>3, <3>1, DefinitionAccepts
  <2>5. PICK e \in ToSet(references) :
            e.location = d /\ e.type = "DEFINITION" /\ e.id \in found
    BY <2>1 DEF Located
  <2>6. Fits(procs[e.id], args) BY <2>3, <2>5, DefinitionAccepts DEF args
  <2>7. Len(procs) \in Nat BY DEF IndexInv, ProcsInv
  <2>8. Fits(procs[r.id], args) BY <2>2, <2>3, <2>4, <2>5, <2>6, <2>7, BestFits
  <2>9. PICK b \in ToSet(references) :
            b.type = "DEFINITION" /\ b.id = r.id /\ b.location = DefinitionOf(r.id)
    BY <2>2, DefinitionIsLocated
  <2>10. TclAccepts(script[b.location].params, args)
    BY <2>3, <2>8, <2>9, DefinitionAccepts
  <2> QED BY <2>9, <2>10 DEF args
<1> QED
  BY <1>1, IndexInit, IndexNext, LexicalInit, LexicalNext, NameInit, NameNext,
     CallInit, CallNext, PTL
  DEF Spec
=============================================================================
