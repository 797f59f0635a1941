------------------------- MODULE ScriptIndexProofs -------------------------
(***************************************************************************)
(* Theorems about ScriptIndex, for any vocabularies and scripts of any     *)
(* length.                                                                 *)
(***************************************************************************)
EXTENDS ScriptIndex, Iteration, SequenceTheorems, FiniteSetTheorems

-----------------------------------------------------------------------------
(* Namespaces.                                                             *)

Identifier == Seq(STRING)

Row == [name : Identifier, parent : Nat, children : Seq(Nat), procs : Seq({0})]

Trees == {t \in Seq(Row) : Len(t) > 0 /\ Tree(t)}

\* The later table has the namespaces of the earlier one, at the same places,
\* and may have more below them.
Grown(earlier, later) ==
    /\ Len(earlier) <= Len(later)
    /\ \A n \in 1..Len(earlier) :
          /\ later[n].name = earlier[n].name
          /\ later[n].parent = earlier[n].parent
          /\ ToSet(earlier[n].children) \subseteq ToSet(later[n].children)

\* A namespace of a table.
Places == {d \in [table : Trees, id : Nat] : d.id \in 1..Len(d.table)}

LEMMA RowsOfTree ==
    ASSUME NEW t \in Trees
    PROVE  /\ t \in Seq(Row) /\ Len(t) \in Nat /\ Global \in 1..Len(t) /\ Tree(t)
           /\ \A n \in 1..Len(t) : /\ t[n] \in Row
                                   /\ t[n].name \in Identifier
                                   /\ t[n].parent \in Nat
                                   /\ t[n].children \in Seq(Nat)
                                   /\ t[n].procs \in Seq({0})
                                   /\ Len(t[n].children) \in Nat
<1>1. t \in Seq(Row) /\ Len(t) > 0 /\ Tree(t) BY DEF Trees
<1>2. Len(t) \in Nat /\ Global \in 1..Len(t) BY <1>1 DEF Global
<1>3. ASSUME NEW n \in 1..Len(t) PROVE t[n] \in Row BY <1>1
<1> QED BY <1>1, <1>2, <1>3 DEF Row

LEMMA ChildrenOfTree ==
    ASSUME NEW t \in Trees, NEW n \in 1..Len(t),
           NEW i \in 1..Len(t[n].children), NEW j \in 1..Len(t[n].children)
    PROVE  /\ t[n].children[i] \in 1..Len(t) /\ t[n].children[j] \in 1..Len(t)
           /\ t[t[n].children[i]].parent = n
           /\ i # j => t[t[n].children[i]].name # t[t[n].children[j]].name
BY DEF Trees, Tree

LEMMA ChildrenAreMembers ==
    ASSUME NEW t \in Trees, NEW n \in 1..Len(t)
    PROVE  /\ ToSet(t[n].children) =
                  {t[n].children[i] : i \in 1..Len(t[n].children)}
           /\ \A c \in ToSet(t[n].children) : c \in 1..Len(t) /\ t[c].parent = n
           /\ \A c, d \in ToSet(t[n].children) : t[c].name = t[d].name => c = d
<1> DEFINE children == t[n].children
<1>1. children \in Seq(Nat) BY RowsOfTree
<1>2. /\ \A i, j \in 1..Len(children) :
             /\ children[i] \in 1..Len(t) /\ t[children[i]].parent = n
             /\ i # j => t[children[i]].name # t[children[j]].name
  BY ChildrenOfTree
<1>3. DOMAIN children = 1..Len(children) BY <1>1
<1>4. ToSet(children) = {children[i] : i \in 1..Len(children)}
  BY <1>3 DEF ToSet
<1> HIDE DEF children
<1>5. \A c, d \in ToSet(children) : t[c].name = t[d].name => c = d
  BY <1>2, <1>4
<1>6. \A c \in ToSet(children) : c \in 1..Len(t) /\ t[c].parent = n
  BY <1>2, <1>4
<1> QED BY <1>4, <1>5, <1>6 DEF children

LEMMA GrownReflexive == ASSUME NEW t \in Trees PROVE Grown(t, t)
BY RowsOfTree DEF Grown

LEMMA GrownTransitive ==
    ASSUME NEW s \in Trees, NEW t \in Trees, NEW u \in Trees,
           Grown(s, t), Grown(t, u)
    PROVE  Grown(s, u)
<1>1. Len(s) \in Nat /\ Len(t) \in Nat /\ Len(u) \in Nat BY RowsOfTree
<1>2. Len(s) <= Len(u) BY <1>1 DEF Grown
<1>3. ASSUME NEW n \in 1..Len(s)
      PROVE  /\ u[n].name = s[n].name /\ u[n].parent = s[n].parent
             /\ ToSet(s[n].children) \subseteq ToSet(u[n].children)
  <2>1. n \in 1..Len(t) BY <1>1 DEF Grown
  <2>2. /\ t[n].name = s[n].name /\ t[n].parent = s[n].parent
        /\ ToSet(s[n].children) \subseteq ToSet(t[n].children)
    BY DEF Grown
  <2>3. /\ u[n].name = t[n].name /\ u[n].parent = t[n].parent
        /\ ToSet(t[n].children) \subseteq ToSet(u[n].children)
    BY <2>1 DEF Grown
  <2> QED BY <2>2, <2>3
<1> QED BY <1>2, <1>3 DEF Grown

\* A namespace has at most one child of a name, which stays.
LEMMA ChildIsUnique ==
    ASSUME NEW t \in Trees, NEW id \in 1..Len(t), NEW part
    PROVE  \A c \in ChildNamed(t, id, part) : ChildNamed(t, id, part) = {c}
<1>1. \A c, d \in ChildNamed(t, id, part) : c = d
  BY ChildrenAreMembers DEF ChildNamed
<1> QED BY <1>1

LEMMA ChildStays ==
    ASSUME NEW t \in Trees, NEW u \in Trees, Grown(t, u),
           NEW id \in 1..Len(t), NEW part, NEW c \in ChildNamed(t, id, part)
    PROVE  ChildNamed(u, id, part) = {c}
<1>1. Len(t) \in Nat /\ Len(u) \in Nat BY RowsOfTree
<1>2. id \in 1..Len(u) BY <1>1 DEF Grown
<1>3. c \in ToSet(t[id].children) /\ t[c].name = part BY DEF ChildNamed
<1>4. c \in 1..Len(t) BY <1>3, ChildrenAreMembers
<1>5. c \in ToSet(u[id].children) /\ u[c].name = part BY <1>3, <1>4 DEF Grown
<1>6. c \in ChildNamed(u, id, part) BY <1>5 DEF ChildNamed
<1> QED BY <1>2, <1>6, ChildIsUnique

\* A namespace that is inserted below another.
Inserted(t, id, part) ==
    Insert([t EXCEPT ![id].children = Append(@, NextId(t))],
           [name |-> part, parent |-> id, children |-> <<>>, procs |-> <<>>])

LEMMA RowsInserted ==
    ASSUME NEW t \in Trees, NEW id \in 1..Len(t), NEW part \in Identifier,
           NEW u, u = Inserted(t, id, part)
    PROVE  /\ u \in Seq(Row) /\ Len(u) = Len(t) + 1
           /\ \A n \in 1..Len(t) :
                 /\ u[n].name = t[n].name /\ u[n].parent = t[n].parent
                 /\ n # id => u[n].children = t[n].children
           /\ u[id].children = Append(t[id].children, Len(t) + 1)
           /\ u[Len(t) + 1].name = part /\ u[Len(t) + 1].parent = id
           /\ u[Len(t) + 1].children = <<>>
<1>1. /\ t \in Seq(Row) /\ Len(t) \in Nat
      /\ \A n \in 1..Len(t) : t[n] \in Row
  BY RowsOfTree
<1> DEFINE new == Len(t) + 1
           row == [name |-> part, parent |-> id, children |-> <<>>, procs |-> <<>>]
           v == [t EXCEPT ![id].children = Append(@, new)]
<1>2. row \in Row BY <1>1 DEF Row
<1>3. t[id].children \in Seq(Nat) /\ new \in Nat BY <1>1 DEF Row
<1>4. Append(t[id].children, new) \in Seq(Nat) BY <1>3
<1>5. [t[id] EXCEPT !.children = Append(@, new)] \in Row BY <1>1, <1>4 DEF Row
<1>6. /\ v = [t EXCEPT ![id] = [t[id] EXCEPT !.children = Append(@, new)]]
      /\ v[id] = [t[id] EXCEPT !.children = Append(@, new)]
      /\ \A n \in 1..Len(t) : n # id => v[n] = t[n]
  <2>1. DOMAIN t = 1..Len(t) BY <1>1
  <2>2. v = [t EXCEPT ![id] = [t[id] EXCEPT !.children = Append(@, new)]] OBVIOUS
  <2> QED BY <2>1, <2>2
<1>7. v \in Seq(Row) /\ Len(v) = Len(t)
  BY <1>1, <1>5, <1>6, ExceptSeq
<1>8. /\ v[id].name = t[id].name /\ v[id].parent = t[id].parent
      /\ v[id].children = Append(t[id].children, new)
  BY <1>1, <1>6 DEF Row
<1>9. u = Append(v, row) BY DEF Inserted, Insert, NextId
<1> HIDE DEF row, v
<1>10. /\ u \in Seq(Row) /\ Len(u) = new /\ u[new] = row
       /\ \A n \in 1..Len(t) : u[n] = v[n]
  BY <1>1, <1>2, <1>7, <1>9
<1>11. ASSUME NEW n \in 1..Len(t)
       PROVE  /\ u[n].name = t[n].name /\ u[n].parent = t[n].parent
              /\ n # id => u[n].children = t[n].children
  BY <1>6, <1>8, <1>10
<1>12. u[id].children = Append(t[id].children, new) BY <1>8, <1>10
<1>13. u[new].name = part /\ u[new].parent = id /\ u[new].children = <<>>
  BY <1>10 DEF row
<1> QED BY <1>10, <1>11, <1>12, <1>13

LEMMA InsertedBelow ==
    ASSUME NEW t \in Trees, NEW id \in 1..Len(t), NEW part \in Identifier,
           NEW u, u = Inserted(t, id, part), ChildNamed(t, id, part) = {}
    PROVE  /\ u \in Trees /\ Grown(t, u) /\ Len(t) + 1 \in 1..Len(u)
           /\ Len(t) + 1 \in ChildNamed(u, id, part)
<1> DEFINE new == Len(t) + 1
<1>1. /\ u \in Seq(Row) /\ Len(u) = new
      /\ \A n \in 1..Len(t) :
            /\ u[n].name = t[n].name /\ u[n].parent = t[n].parent
            /\ n # id => u[n].children = t[n].children
      /\ u[id].children = Append(t[id].children, new)
      /\ u[new].name = part /\ u[new].parent = id /\ u[new].children = <<>>
  BY RowsInserted
<1>2. /\ Len(t) \in Nat /\ Global \in 1..Len(t) /\ Tree(t)
      /\ \A n \in 1..Len(t) : /\ t[n].children \in Seq(Nat)
                              /\ Len(t[n].children) \in Nat
  BY RowsOfTree
<1>3. /\ Len(u[id].children) = Len(t[id].children) + 1
      /\ u[id].children[Len(t[id].children) + 1] = new
      /\ \A i \in 1..Len(t[id].children) : u[id].children[i] = t[id].children[i]
      /\ DOMAIN u[id].children = 1..(Len(t[id].children) + 1)
  BY <1>1, <1>2
<1>4. new \in ToSet(u[id].children)
  <2>1. Len(t[id].children) + 1 \in 1..(Len(t[id].children) + 1) BY <1>2
  <2> QED BY <1>3, <2>1 DEF ToSet
<1>5. ASSUME NEW n \in 1..Len(t)
      PROVE  ToSet(t[n].children) \subseteq ToSet(u[n].children)
  <2>1. CASE n # id BY <1>1, <2>1
  <2>2. CASE n = id
    <3>1. ToSet(t[id].children) = {t[id].children[i] : i \in 1..Len(t[id].children)}
      BY ChildrenAreMembers
    <3>2. 1..Len(t[id].children) \subseteq 1..(Len(t[id].children) + 1) BY <1>2
    <3>3. ToSet(u[id].children) =
              {u[id].children[i] : i \in 1..(Len(t[id].children) + 1)}
      BY <1>3 DEF ToSet
    <3>4. ASSUME NEW c \in ToSet(t[id].children) PROVE c \in ToSet(u[id].children)
      <4>1. PICK i \in 1..Len(t[id].children) : c = t[id].children[i] BY <3>1
      <4>2. i \in 1..(Len(t[id].children) + 1) /\ c = u[id].children[i]
        BY <1>3, <3>2, <4>1
      <4> QED BY <3>3, <4>2
    <3> QED BY <2>2, <3>4
  <2> QED BY <2>1, <2>2
<1>0. Len(t) \in Nat /\ Len(u) = Len(t) + 1 BY <1>1, <1>2
<1>6. Grown(t, u)
  <2>1. Len(t) <= Len(u) BY <1>0
  <2> QED BY <1>1, <1>5, <2>1 DEF Grown
<1>7. /\ \A n \in 1..Len(u) : n = new \/ n \in 1..Len(t)
      /\ new \in 1..Len(u) /\ \A n \in 1..Len(t) : n \in 1..Len(u)
  BY <1>0
<1>8. u[Global].parent = 0 BY <1>1, <1>2 DEF Tree
<1>9. ASSUME NEW n \in 2..Len(u)
      PROVE  u[n].parent \in 1..(n - 1) /\ n \in ToSet(u[u[n].parent].children)
  <2>1. CASE n = new
    <3>1. id \in 1..(new - 1) BY <1>0
    <3> QED BY <1>1, <1>4, <2>1, <3>1
  <2>2. CASE n \in 1..Len(t)
    <3>1. /\ t[n].parent \in 1..(n - 1) /\ n \in ToSet(t[t[n].parent].children)
      BY <1>2, <2>2 DEF Tree
    <3>2. t[n].parent \in 1..Len(t) BY <1>2, <2>2, <3>1
    <3> QED BY <1>1, <1>5, <2>2, <3>1, <3>2
  <2> QED BY <1>7, <2>1, <2>2
<1>10. ASSUME NEW n \in 1..Len(u),
              NEW i \in 1..Len(u[n].children), NEW j \in 1..Len(u[n].children)
       PROVE  /\ u[n].children[i] \in 1..Len(u)
              /\ u[u[n].children[i]].parent = n
              /\ i # j => u[u[n].children[i]].name # u[u[n].children[j]].name
  <2>1. CASE n = new BY <1>1, <1>10, <2>1
  <2>2. CASE n \in 1..Len(t) /\ n # id
    <3>1. u[n].children = t[n].children BY <1>1, <2>2
    <3>2. /\ t[n].children[i] \in 1..Len(t) /\ t[n].children[j] \in 1..Len(t)
          /\ t[t[n].children[i]].parent = n
          /\ i # j => t[t[n].children[i]].name # t[t[n].children[j]].name
      <4>1. i \in 1..Len(t[n].children) /\ j \in 1..Len(t[n].children) BY <3>1
      <4> QED BY <2>2, <4>1, ChildrenOfTree
    <3> DEFINE c == t[n].children[i]
               d == t[n].children[j]
    <3>3. /\ u[c].parent = t[c].parent /\ u[c].name = t[c].name
          /\ u[d].name = t[d].name /\ c \in 1..Len(u)
      BY <1>1, <1>7, <3>2
    <3> QED BY <3>1, <3>2, <3>3
  <2>3. CASE n = id
    <3> DEFINE last == Len(t[id].children) + 1
    <3>1. ASSUME NEW k \in 1..Len(t[id].children)
          PROVE  /\ u[id].children[k] \in 1..Len(t)
                 /\ u[id].children[k] = t[id].children[k]
                 /\ u[u[id].children[k]].parent = id
                 /\ u[u[id].children[k]].name = t[t[id].children[k]].name
                 /\ u[u[id].children[k]].name # part
      <4>1. t[id].children[k] \in 1..Len(t) /\ t[t[id].children[k]].parent = id
        BY ChildrenOfTree
      <4>2. t[id].children[k] \in ToSet(t[id].children)
        <5>1. ToSet(t[id].children) =
                  {t[id].children[m] : m \in 1..Len(t[id].children)}
          BY ChildrenAreMembers
        <5> QED BY <5>1
      <4>3. t[t[id].children[k]].name # part
        BY <4>2 DEF ChildNamed
      <4> QED BY <1>1, <1>3, <4>1, <4>3
    <3>2. /\ u[id].children[last] = new /\ u[new].parent = id /\ u[new].name = part
          /\ new \in 1..Len(u)
      BY <1>1, <1>2, <1>3
    <3>3. /\ i = last \/ i \in 1..Len(t[id].children)
          /\ j = last \/ j \in 1..Len(t[id].children)
      BY <1>2, <1>3, <1>10, <2>3
    <3>4. u[n].children[i] \in 1..Len(u) /\ u[u[n].children[i]].parent = n
      <4>1. CASE i = last BY <2>3, <3>2, <4>1
      <4>2. CASE i \in 1..Len(t[id].children) BY <1>7, <2>3, <3>1, <4>2
      <4> QED BY <3>3, <4>1, <4>2
    <3>5. ASSUME i # j
          PROVE  u[u[n].children[i]].name # u[u[n].children[j]].name
      <4>1. CASE i = last BY <2>3, <3>1, <3>2, <3>3, <3>5, <4>1
      <4>2. CASE j = last BY <2>3, <3>1, <3>2, <3>3, <3>5, <4>2
      <4>3. CASE i \in 1..Len(t[id].children) /\ j \in 1..Len(t[id].children)
        <5>1. t[t[id].children[i]].name # t[t[id].children[j]].name
          BY <3>5, <4>3, ChildrenOfTree
        <5> QED BY <2>3, <3>1, <4>3, <5>1
      <4> QED BY <3>3, <4>1, <4>2, <4>3
    <3> QED BY <3>4, <3>5
  <2> QED BY <1>7, <2>1, <2>2, <2>3
<1>11. Tree(u)
  <2>1. \A n \in 2..Len(u) :
           u[n].parent \in 1..(n - 1) /\ n \in ToSet(u[u[n].parent].children)
    BY <1>9
  <2>2. \A n \in 1..Len(u) : \A i, j \in 1..Len(u[n].children) :
           /\ u[n].children[i] \in 1..Len(u) /\ u[u[n].children[i]].parent = n
           /\ i # j => u[u[n].children[i]].name # u[u[n].children[j]].name
    BY <1>10
  <2> HIDE DEF new
  <2> QED BY <1>8, <2>1, <2>2 DEF Tree
<1>12. u \in Trees BY <1>1, <1>2, <1>11 DEF Trees
<1>13. new \in ChildNamed(u, id, part) BY <1>1, <1>4 DEF ChildNamed
<1> QED BY <1>1, <1>2, <1>6, <1>12, <1>13

\* One step of ResolveNamespace: the place it leads to is the child of that
\* name, which is there afterwards.
LEMMA DescendLeads ==
    ASSUME NEW d \in Places, NEW part \in Identifier,
           NEW r, r = Descend(d, part)
    PROVE  /\ r \in Places /\ Grown(d.table, r.table)
           /\ d.id \in 1..Len(r.table)
           /\ ChildNamed(r.table, d.id, part) = {r.id}
           /\ ChildNamed(d.table, d.id, part) # {} => r.table = d.table
<1>1. /\ d.table \in Trees /\ d.id \in 1..Len(d.table)
      /\ d = [table |-> d.table, id |-> d.id]
  BY DEF Places
<1>2. Len(d.table) \in Nat BY <1>1, RowsOfTree
<1>3. CASE ChildNamed(d.table, d.id, part) # {}
  <2> DEFINE known == ChildNamed(d.table, d.id, part)
  <2>1. PICK c \in known : r = [table |-> d.table, id |-> c]
    BY <1>1, <1>3 DEF Descend
  <2>2. c \in 1..Len(d.table) BY <1>1, ChildrenAreMembers DEF ChildNamed
  <2>3. known = {c} BY <1>1, ChildIsUnique
  <2>4. Grown(d.table, d.table) BY <1>1, GrownReflexive
  <2> QED BY <1>1, <2>1, <2>2, <2>3, <2>4 DEF Places
<1>4. CASE ChildNamed(d.table, d.id, part) = {}
  <2> DEFINE u == Inserted(d.table, d.id, part)
             new == Len(d.table) + 1
  <2>1. r = [table |-> u, id |-> new]
    BY <1>1, <1>4 DEF Descend, Inserted, NextId
  <2>2. /\ u \in Trees /\ Grown(d.table, u) /\ new \in 1..Len(u)
        /\ new \in ChildNamed(u, d.id, part)
    BY <1>1, <1>4, InsertedBelow
  <2> HIDE DEF u, new
  <2>3. d.id \in 1..Len(u) /\ Len(u) \in Nat BY <1>1, <1>2, <2>2, RowsOfTree DEF Grown
  <2>4. ChildNamed(u, d.id, part) = {new} BY <2>2, <2>3, ChildIsUnique
  <2> QED BY <1>4, <2>1, <2>2, <2>3, <2>4 DEF Places
<1> QED BY <1>3, <1>4

\* In a table that has grown since, the step leads to the same place.
LEMMA DescendAgain ==
    ASSUME NEW d \in Places, NEW part \in Identifier, NEW r, r = Descend(d, part),
           NEW u \in Trees, Grown(r.table, u)
    PROVE  /\ Descend([table |-> u, id |-> d.id], part) = [table |-> u, id |-> r.id]
           /\ FindChild(u, d.id, part) = r.id
<1>1. /\ r \in Places /\ d.id \in 1..Len(r.table)
      /\ ChildNamed(r.table, d.id, part) = {r.id}
  BY DescendLeads
<1>2. r.table \in Trees BY <1>1 DEF Places
<1>3. r.id \in ChildNamed(r.table, d.id, part) BY <1>1
<1>5. ChildNamed(u, d.id, part) = {r.id}
  <2> DEFINE t == r.table
             id == d.id
             c == r.id
  <2>1. /\ t \in Trees /\ Grown(t, u) /\ id \in 1..Len(t)
        /\ c \in ChildNamed(t, id, part)
    BY <1>1, <1>2, <1>3
  <2> HIDE DEF t, id, c
  <2>2. ChildNamed(u, id, part) = {c} BY <2>1, ChildStays
  <2> QED BY <2>2 DEF id, c
<1>4. d.id # 0 BY DEF Places
<1> QED BY <1>4, <1>5 DEF Descend, FindChild

-----------------------------------------------------------------------------
(* ResolveNamespace goes down from place to place.                         *)

Start(t, qn, id) == [table |-> t, id |-> IF qn.absolute THEN Global ELSE id]

Goes(f, t, qn, id) ==
    LET parts == NamespaceParts(qn)
    IN  /\ f \in [0..Len(parts) -> Places]
        /\ f[0] = Start(t, qn, id)
        /\ \A n \in 1..Len(parts) : f[n] = Descend(f[n - 1], parts[n])

LEMMA ResolveGoes ==
    ASSUME NEW t \in Trees, NEW id \in 1..Len(t),
           NEW qn, NamespaceParts(qn) \in Seq(Identifier)
    PROVE  \E f : /\ Goes(f, t, qn, id)
                 /\ ResolveNamespace(t, qn, id) = f[Len(NamespaceParts(qn))]
<1> DEFINE parts == NamespaceParts(qn)
           N == Len(parts)
           start == [table |-> t, id |-> IF qn.absolute THEN Global ELSE id]
           Loop(f) == f = [n \in 0..N |-> IF n = 0 THEN start
                                          ELSE Descend(f[n - 1], parts[n])]
           found == CHOOSE f : Loop(f)
           step == [n \in 1..N |-> [d \in Places |-> Descend(d, parts[n])]]
<1>1. N \in Nat /\ \A n \in 1..N : parts[n] \in Identifier
  OBVIOUS
<1>2. start \in Places
  BY RowsOfTree DEF Places
<1>3. StaysIn(Places, N, step)
  <2> HIDE DEF parts, N
  <2>1. \A n \in 1..N : \A d \in Places : Descend(d, parts[n]) \in Places
    BY <1>1, DescendLeads
  <2> QED BY <2>1 DEF StaysIn
<1>4. ResolveNamespace(t, qn, id) = found[N]
  BY DEF ResolveNamespace
<1> HIDE DEF parts, N, start
<1>5. PICK f : Loops(f, Places, N, start, step)
  <2> HIDE DEF step
  <2>1. N \in Nat BY <1>1
  <2> QED BY <1>2, <1>3, <2>1, LoopExists
<1>6. Loop(f)
  <2>5. f \in [0..N -> Places] BY <1>5 DEF Loops
  <2>1. \A n \in 0..N : n # 0 => /\ n \in 1..N /\ n - 1 \in 0..N
                                /\ f[n - 1] \in Places
    BY <1>1, <2>5
  <2>2. \A n \in 0..N : n # 0 => step[n][f[n - 1]] = Descend(f[n - 1], parts[n])
    BY <2>1
  <2>3. \A n \in 0..N : f[n] = IF n = 0 THEN start ELSE Descend(f[n - 1], parts[n])
    <3> HIDE DEF step
    <3> QED BY <1>1, <1>5, <2>1, <2>2 DEF Loops
  <2> HIDE DEF step
  <2>4. f = [n \in 0..N |-> f[n]] BY <2>5
  <2> QED BY <2>3, <2>4
<1>7. Loop(found)
  <2> HIDE DEF Loop
  <2> QED BY <1>6
<1> HIDE DEF found
<1>8. /\ DOMAIN found = 0..N
      /\ \A n \in 0..N : found[n] = IF n = 0 THEN start
                                      ELSE Descend(found[n - 1], parts[n])
  <2> HIDE DEF step
  <2> QED BY <1>7
<1>9. found[0] = start BY <1>1, <1>8
<1>10. \A n \in 1..N : found[n] = Descend(found[n - 1], parts[n]) BY <1>1, <1>8
<1>11. \A n \in 0..N : found[n] \in Places
  <2> DEFINE S == {n \in 0..N : found[n] \in Places}
  <2>1. 0 \in S BY <1>1, <1>2, <1>9
  <2>2. ASSUME NEW n \in 1..N, n - 1 \in S PROVE n \in S
    <3>1. found[n - 1] \in Places /\ n \in 0..N BY <1>1, <2>2
    <3>2. found[n] \in Places BY <1>1, <1>10, <3>1, DescendLeads
    <3> QED BY <3>1, <3>2
  <2> HIDE DEF S
  <2>3. \A n \in 0..N : n \in S BY <1>1, <2>1, <2>2, Stepwise
  <2> QED BY <2>3 DEF S
<1>12. found = [n \in 0..N |-> found[n]]
  <2> HIDE DEF step
  <2> QED BY <1>7
<1>13. found \in [0..N -> Places] BY <1>11, <1>12
<1>14. Goes(found, t, qn, id)
  BY <1>9, <1>10, <1>13 DEF Goes, Start, N, parts, start
<1> QED BY <1>4, <1>14 DEF N, parts

LEMMA GoesGrows ==
    ASSUME NEW t \in Trees, NEW id \in 1..Len(t), NEW qn,
           NamespaceParts(qn) \in Seq(Identifier), NEW f, Goes(f, t, qn, id)
    PROVE  LET N == Len(NamespaceParts(qn))
           IN  /\ N \in Nat
               /\ \A n \in 0..N : f[n] \in Places /\ Grown(t, f[n].table)
               /\ \A n \in 0..N : Grown(f[n].table, f[N].table)
<1> DEFINE parts == NamespaceParts(qn)
           N == Len(parts)
<1>1. N \in Nat /\ \A n \in 1..N : parts[n] \in Identifier
  OBVIOUS
<1>2. /\ \A n \in 0..N : f[n] \in Places
      /\ f[0].table = t
      /\ \A n \in 1..N : f[n] = Descend(f[n - 1], parts[n])
  BY DEF Goes, Start
<1> HIDE DEF parts, N
<1>3. \A n \in 0..N : f[n].table \in Trees BY <1>2 DEF Places
<1> DEFINE S == {n \in 0..N : \A k \in 0..n : Grown(f[k].table, f[n].table)}
<1>4. 0 \in S
  <2>1. \A k \in 0..0 : k = 0 OBVIOUS
  <2>2. 0 \in 0..N BY <1>1
  <2> QED BY <1>3, <2>1, <2>2, GrownReflexive
<1>5. ASSUME NEW n \in 1..N, n - 1 \in S PROVE n \in S
  <2>1. n \in 0..N /\ n - 1 \in 0..N BY <1>1
  <2>2. Grown(f[n - 1].table, f[n].table)
    BY <1>1, <1>2, <2>1, DescendLeads
  <2>3. ASSUME NEW k \in 0..n PROVE Grown(f[k].table, f[n].table)
    <3>1. CASE k = n BY <1>3, <2>1, <3>1, GrownReflexive
    <3>2. CASE k \in 0..(n - 1)
      <4>1. Grown(f[k].table, f[n - 1].table) BY <1>5, <3>2
      <4>2. k \in 0..N BY <1>1, <3>2
      <4> QED BY <1>3, <2>1, <2>2, <4>1, <4>2, GrownTransitive
    <3>3. k = n \/ k \in 0..(n - 1) OBVIOUS
    <3> QED BY <3>1, <3>2, <3>3
  <2> QED BY <2>1, <2>3
<1> HIDE DEF S
<1>6. \A n \in 0..N : n \in S BY <1>1, <1>4, <1>5, Stepwise
<1>7. \A n \in 0..N : n \in 0..N /\ 0 \in 0..n /\ n \in 0..n BY <1>1
<1>8. N \in 0..N /\ \A n \in 0..N : n \in 0..N BY <1>1
<1>9. \A n \in 0..N : Grown(f[0].table, f[n].table) BY <1>6, <1>7 DEF S
<1>10. \A n \in 0..N : Grown(f[n].table, f[N].table) BY <1>6, <1>8 DEF S
<1> QED BY <1>1, <1>2, <1>9, <1>10 DEF N, parts

\* What ResolveNamespace returns: a place in a table that has but grown.
LEMMA ResolveLeads ==
    ASSUME NEW t \in Trees, NEW id \in 1..Len(t), NEW qn,
           NamespaceParts(qn) \in Seq(Identifier),
           NEW r, r = ResolveNamespace(t, qn, id)
    PROVE  r \in Places /\ Grown(t, r.table)
<1> DEFINE N == Len(NamespaceParts(qn))
<1>1. PICK f : Goes(f, t, qn, id) /\ r = f[N] BY ResolveGoes
<1>2. N \in Nat /\ \A n \in 0..N : f[n] \in Places /\ Grown(t, f[n].table)
  BY <1>1, GoesGrows
<1> HIDE DEF N
<1>3. N \in 0..N BY <1>2
<1> QED BY <1>1, <1>2, <1>3

\* In a table that has grown since, a name leads to the same place, and the
\* table stays as it is.
LEMMA ResolveAgain ==
    ASSUME NEW t \in Trees, NEW id \in 1..Len(t), NEW qn,
           NamespaceParts(qn) \in Seq(Identifier),
           NEW r, r = ResolveNamespace(t, qn, id),
           NEW u \in Trees, Grown(r.table, u)
    PROVE  ResolveNamespace(u, qn, id) = [table |-> u, id |-> r.id]
<1> DEFINE parts == NamespaceParts(qn)
           N == Len(parts)
<1>1. PICK f : Goes(f, t, qn, id) /\ r = f[N] BY ResolveGoes
<1>2. /\ N \in Nat
      /\ \A n \in 0..N : f[n] \in Places /\ Grown(t, f[n].table)
      /\ \A n \in 0..N : Grown(f[n].table, r.table)
  BY <1>1, GoesGrows
<1>3. /\ \A n \in 0..N : f[n].table \in Trees /\ Grown(f[n].table, u)
      /\ Grown(t, u) /\ r \in Places
  <2>1. N \in 0..N BY <1>2
  <2>2. r \in Places /\ r.table \in Trees BY <1>1, <1>2, <2>1 DEF Places
  <2>3. \A n \in 0..N : f[n].table \in Trees BY <1>2 DEF Places
  <2>4. \A n \in 0..N : Grown(f[n].table, u)
    BY <1>2, <2>2, <2>3, GrownTransitive
  <2>5. Grown(t, u) BY <1>1, <1>2, <2>1, <2>2, GrownTransitive
  <2> QED BY <2>2, <2>3, <2>4, <2>5
<1>4. id \in 1..Len(u)
  <2>1. Len(t) \in Nat /\ Len(u) \in Nat BY RowsOfTree
  <2> QED BY <1>3, <2>1 DEF Grown
<1>5. PICK g : Goes(g, u, qn, id) /\ ResolveNamespace(u, qn, id) = g[N]
  BY <1>4, ResolveGoes
<1>6. /\ \A n \in 1..N : /\ f[n] = Descend(f[n - 1], parts[n])
                         /\ g[n] = Descend(g[n - 1], parts[n])
                         /\ parts[n] \in Identifier
      /\ f[0].id = g[0].id /\ g[0] = [table |-> u, id |-> g[0].id]
  BY <1>1, <1>5 DEF Goes, Start
<1> DEFINE S == {n \in 0..N : g[n] = [table |-> u, id |-> f[n].id]}
<1> HIDE DEF parts, N
<1>7. 0 \in S BY <1>2, <1>6
<1>8. ASSUME NEW n \in 1..N, n - 1 \in S PROVE n \in S
  <2>1. n \in 0..N /\ n - 1 \in 0..N BY <1>2
  <2>2. f[n - 1] \in Places /\ parts[n] \in Identifier BY <1>2, <1>6, <2>1
  <2>3. f[n] = Descend(f[n - 1], parts[n]) /\ Grown(f[n].table, u)
    BY <1>3, <1>6, <2>1
  <2>4. Descend([table |-> u, id |-> f[n - 1].id], parts[n]) =
            [table |-> u, id |-> f[n].id]
    BY <2>2, <2>3, DescendAgain
  <2> QED BY <1>6, <1>8, <2>1, <2>4
<1> HIDE DEF S
<1>9. \A n \in 0..N : n \in S BY <1>2, <1>7, <1>8, Stepwise
<1>10. N \in S BY <1>2, <1>9
<1> QED BY <1>1, <1>5, <1>10 DEF S, N

-----------------------------------------------------------------------------
(* FindProc goes up from a namespace to its parents.                       *)

SearchStates(rows) ==
    {s \in [table : Trees, found : SUBSET (1..Len(rows)), next : Nat] :
        s.next <= Len(s.table)}

LEMMA LookupLeads ==
    ASSUME NEW t \in Trees, NEW id \in 1..Len(t), NEW rows, NEW qn,
           NamespaceParts(qn) \in Seq(Identifier),
           NEW r, r = Lookup(t, rows, qn, id)
    PROVE  /\ r = [table |-> r.table, found |-> r.found]
           /\ r.table \in Trees /\ Grown(t, r.table)
           /\ r.found \in SUBSET (1..Len(rows))
<1> DEFINE target == IF HasNamespace(qn) THEN ResolveNamespace(t, qn, id)
                     ELSE [table |-> t, id |-> id]
<1>1. target \in Places /\ Grown(t, target.table)
  <2>1. CASE HasNamespace(qn) BY <2>1, ResolveLeads
  <2>2. CASE ~HasNamespace(qn) BY <2>2, GrownReflexive DEF Places
  <2> QED BY <2>1, <2>2
<1>2. r = [table |-> target.table,
           found |-> {p \in 1..Len(rows) : rows[p].name = qn.name
                                           /\ rows[p].parent = target.id}]
  BY DEF Lookup
<1> HIDE DEF target
<1> QED BY <1>1, <1>2 DEF Places

LEMMA LookupAgain ==
    ASSUME NEW t \in Trees, NEW id \in 1..Len(t), NEW rows, NEW qn,
           NamespaceParts(qn) \in Seq(Identifier),
           NEW r, r = Lookup(t, rows, qn, id),
           NEW u \in Trees, Grown(r.table, u)
    PROVE  Lookup(u, rows, qn, id) = [table |-> u, found |-> r.found]
<1>1. CASE HasNamespace(qn)
  <2> DEFINE target == ResolveNamespace(t, qn, id)
  <2>1. r = [table |-> target.table,
             found |-> {p \in 1..Len(rows) : rows[p].name = qn.name
                                             /\ rows[p].parent = target.id}]
    BY <1>1 DEF Lookup
  <2>2. Grown(target.table, u) BY <2>1
  <2>3. ResolveNamespace(u, qn, id) = [table |-> u, id |-> target.id]
    BY <2>2, ResolveAgain
  <2>4. Lookup(u, rows, qn, id) =
            [table |-> u,
             found |-> {p \in 1..Len(rows) : rows[p].name = qn.name
                                             /\ rows[p].parent = target.id}]
    BY <1>1, <2>3 DEF Lookup
  <2> HIDE DEF target
  <2> QED BY <2>1, <2>4
<1>2. CASE ~HasNamespace(qn)
  BY <1>2 DEF Lookup
<1> QED BY <1>1, <1>2

LEMMA FindInLeads ==
    ASSUME NEW rows, NEW s \in SearchStates(rows), NEW qn,
           NamespaceParts(qn) \in Seq(Identifier),
           NEW r, r = FindIn(s, rows, qn)
    PROVE  r \in SearchStates(rows) /\ Grown(s.table, r.table)
<1>1. /\ s.table \in Trees /\ s.next \in Nat /\ s.next <= Len(s.table)
      /\ s.found \in SUBSET (1..Len(rows))
  BY DEF SearchStates
<1>2. Len(s.table) \in Nat BY <1>1, RowsOfTree
<1>3. CASE s.next = 0
  <2>1. r = s BY <1>3 DEF FindIn
  <2> QED BY <1>1, <2>1, GrownReflexive
<1>4. CASE s.next # 0
  <2> DEFINE here == Lookup(s.table, rows, qn, s.next)
  <2>1. s.next \in 1..Len(s.table) BY <1>1, <1>2, <1>4
  <2>2. /\ here.table \in Trees /\ Grown(s.table, here.table)
        /\ here.found \in SUBSET (1..Len(rows))
    BY <1>1, <2>1, LookupLeads
  <2>3. r = [table |-> here.table, found |-> here.found,
             next |-> IF here.found # {} \/ qn.absolute THEN 0
                      ELSE here.table[s.next].parent]
    BY <1>4 DEF FindIn
  <2> HIDE DEF here
  <2>4. here.table[s.next].parent = s.table[s.next].parent
    BY <2>1, <2>2 DEF Grown
  <2>5. s.table[s.next].parent \in Nat /\ s.table[s.next].parent <= Len(s.table)
    <3>1. Tree(s.table) BY <1>1, RowsOfTree
    <3>2. CASE s.next = 1
      BY <1>2, <3>1, <3>2 DEF Tree, Global
    <3>3. CASE s.next \in 2..Len(s.table)
      <4>1. s.table[s.next].parent \in 1..(s.next - 1) BY <3>1, <3>3 DEF Tree
      <4> QED BY <1>1, <1>2, <4>1
    <3> QED BY <1>2, <2>1, <3>2, <3>3
  <2>6. Len(s.table) <= Len(here.table) /\ Len(here.table) \in Nat
    BY <2>2, RowsOfTree DEF Grown
  <2>7. r.next \in Nat /\ r.next <= Len(here.table)
    BY <1>2, <2>3, <2>4, <2>5, <2>6
  <2> QED BY <2>2, <2>3, <2>7 DEF SearchStates
<1> QED BY <1>3, <1>4

LEMMA FindInAgain ==
    ASSUME NEW rows, NEW s \in SearchStates(rows), NEW qn,
           NamespaceParts(qn) \in Seq(Identifier),
           NEW r, r = FindIn(s, rows, qn),
           NEW u \in Trees, Grown(r.table, u)
    PROVE  FindIn([table |-> u, found |-> s.found, next |-> s.next], rows, qn) =
               [table |-> u, found |-> r.found, next |-> r.next]
<1>1. /\ s.table \in Trees /\ s.next \in Nat /\ s.next <= Len(s.table)
  BY DEF SearchStates
<1>2. Len(s.table) \in Nat BY <1>1, RowsOfTree
<1>3. CASE s.next = 0 BY <1>3 DEF FindIn
<1>4. CASE s.next # 0
  <2> DEFINE here == Lookup(s.table, rows, qn, s.next)
             there == Lookup(u, rows, qn, s.next)
  <2>1. s.next \in 1..Len(s.table) BY <1>1, <1>2, <1>4
  <2>2. here.table \in Trees /\ Grown(s.table, here.table)
    BY <1>1, <2>1, LookupLeads
  <2>3. r = [table |-> here.table, found |-> here.found,
             next |-> IF here.found # {} \/ qn.absolute THEN 0
                      ELSE here.table[s.next].parent]
    BY <1>4 DEF FindIn
  <2>4. Grown(here.table, u) BY <2>3
  <2>5. there = [table |-> u, found |-> here.found]
    BY <1>1, <2>1, <2>4, LookupAgain
  <2>6. FindIn([table |-> u, found |-> s.found, next |-> s.next], rows, qn) =
            [table |-> there.table, found |-> there.found,
             next |-> IF there.found # {} \/ qn.absolute THEN 0
                      ELSE there.table[s.next].parent]
    BY <1>4 DEF FindIn
  <2> HIDE DEF here, there
  <2>7. u[s.next].parent = here.table[s.next].parent
    <3>1. Len(here.table) \in Nat BY <2>2, RowsOfTree
    <3>2. s.next \in 1..Len(here.table) BY <1>2, <2>1, <2>2, <3>1 DEF Grown
    <3> QED BY <2>4, <3>2 DEF Grown
  <2> QED BY <2>3, <2>5, <2>6, <2>7
<1> QED BY <1>3, <1>4

Searches(f, t, rows, id, qn) ==
    /\ f \in [0..id -> SearchStates(rows)]
    /\ f[0] = [table |-> t, found |-> {}, next |-> id]
    /\ \A n \in 1..id : f[n] = FindIn(f[n - 1], rows, qn)

LEMMA FindProcSearches ==
    ASSUME NEW t \in Trees, NEW id \in 1..Len(t), NEW rows, NEW text,
           NamespaceParts(SplitName(text)) \in Seq(Identifier)
    PROVE  \E f : /\ Searches(f, t, rows, id, SplitName(text))
                  /\ FindProc(t, rows, id, text) = f[id]
<1> DEFINE qn == SplitName(text)
           states == SearchStates(rows)
           start == [table |-> t, found |-> {}, next |-> id]
           Loop(f) == f = [n \in 0..id |-> IF n = 0 THEN start
                                           ELSE FindIn(f[n - 1], rows, qn)]
           search == CHOOSE f : Loop(f)
           step == [n \in 1..id |-> [s \in states |-> FindIn(s, rows, qn)]]
<1>1. id \in Nat /\ id <= Len(t) /\ Len(t) \in Nat
  BY RowsOfTree
<1>2. start \in states
  BY <1>1 DEF SearchStates
<1>3. StaysIn(states, id, step)
  <2> HIDE DEF qn
  <2>1. \A s \in states : FindIn(s, rows, qn) \in states
    BY FindInLeads DEF qn
  <2> HIDE DEF states
  <2> QED BY <2>1 DEF StaysIn
<1>4. FindProc(t, rows, id, text) = search[id]
  BY DEF FindProc
<1> HIDE DEF qn, states, start
<1>5. PICK f : Loops(f, states, id, start, step)
  <2> HIDE DEF step, search, Loop
  <2> QED BY <1>1, <1>2, <1>3, LoopExists
<1>6. Loop(f)
  <2>1. f \in [0..id -> states] BY <1>5 DEF Loops
  <2>2. \A n \in 0..id : n # 0 => /\ n \in 1..id /\ n - 1 \in 0..id
                                  /\ f[n - 1] \in states
    BY <1>1, <2>1
  <2>3. \A n \in 0..id : n # 0 => step[n][f[n - 1]] = FindIn(f[n - 1], rows, qn)
    BY <2>2
  <2>4. \A n \in 0..id : f[n] = IF n = 0 THEN start ELSE FindIn(f[n - 1], rows, qn)
    <3> HIDE DEF step
    <3> QED BY <1>1, <1>5, <2>2, <2>3 DEF Loops
  <2> HIDE DEF step
  <2>5. f = [n \in 0..id |-> f[n]] BY <2>1
  <2> QED BY <2>4, <2>5
<1>7. Loop(search)
  <2> HIDE DEF Loop
  <2> QED BY <1>6
<1> HIDE DEF search, step
<1>8. /\ search[0] = start
      /\ \A n \in 1..id : search[n] = FindIn(search[n - 1], rows, qn)
      /\ search = [n \in 0..id |-> search[n]]
  <2>1. \A n \in 0..id : search[n] = IF n = 0 THEN start
                                     ELSE FindIn(search[n - 1], rows, qn)
    BY <1>7
  <2>2. search = [n \in 0..id |-> search[n]] BY <1>7
  <2> QED BY <1>1, <2>1, <2>2
<1>9. \A n \in 0..id : search[n] \in states
  <2> DEFINE S == {n \in 0..id : search[n] \in states}
  <2>1. 0 \in S BY <1>1, <1>2, <1>8
  <2>2. ASSUME NEW n \in 1..id, n - 1 \in S PROVE n \in S
    <3>1. search[n - 1] \in states /\ n \in 0..id BY <1>1, <2>2
    <3>2. search[n] \in states BY <1>8, <3>1, FindInLeads DEF qn, states
    <3> QED BY <3>1, <3>2
  <2> HIDE DEF S
  <2>3. \A n \in 0..id : n \in S BY <1>1, <2>1, <2>2, Stepwise
  <2> QED BY <2>3 DEF S
<1>10. search \in [0..id -> states] BY <1>8, <1>9
<1>11. Searches(search, t, rows, id, SplitName(text))
  BY <1>8, <1>10 DEF Searches, states, start, qn
<1> QED BY <1>4, <1>11

LEMMA SearchesGrow ==
    ASSUME NEW t \in Trees, NEW id \in 1..Len(t), NEW rows, NEW qn,
           NamespaceParts(qn) \in Seq(Identifier), NEW f, Searches(f, t, rows, id, qn)
    PROVE  /\ \A n \in 0..id : /\ f[n] \in SearchStates(rows)
                               /\ Grown(t, f[n].table)
           /\ \A n \in 0..id : Grown(f[n].table, f[id].table)
<1>1. id \in Nat BY RowsOfTree
<1>2. /\ \A n \in 0..id : f[n] \in SearchStates(rows)
      /\ f[0].table = t
      /\ \A n \in 1..id : f[n] = FindIn(f[n - 1], rows, qn)
  BY DEF Searches
<1>3. \A n \in 0..id : f[n].table \in Trees BY <1>2 DEF SearchStates
<1> DEFINE S == {n \in 0..id : \A k \in 0..n : Grown(f[k].table, f[n].table)}
<1>4. 0 \in S
  <2>1. \A k \in 0..0 : k = 0 OBVIOUS
  <2>2. 0 \in 0..id BY <1>1
  <2> QED BY <1>3, <2>1, <2>2, GrownReflexive
<1>5. ASSUME NEW n \in 1..id, n - 1 \in S PROVE n \in S
  <2>1. n \in 0..id /\ n - 1 \in 0..id BY <1>1
  <2>2. Grown(f[n - 1].table, f[n].table)
    BY <1>2, <2>1, FindInLeads
  <2>3. ASSUME NEW k \in 0..n PROVE Grown(f[k].table, f[n].table)
    <3>1. CASE k = n BY <1>3, <2>1, <3>1, GrownReflexive
    <3>2. CASE k \in 0..(n - 1)
      <4>1. Grown(f[k].table, f[n - 1].table) BY <1>5, <3>2
      <4>2. k \in 0..id BY <1>1, <3>2
      <4> QED BY <1>3, <2>1, <2>2, <4>1, <4>2, GrownTransitive
    <3>3. k = n \/ k \in 0..(n - 1) OBVIOUS
    <3> QED BY <3>1, <3>2, <3>3
  <2> QED BY <2>1, <2>3
<1> HIDE DEF S
<1>6. \A n \in 0..id : n \in S BY <1>1, <1>4, <1>5, Stepwise
<1>7. \A n \in 0..id : n \in 0..id /\ 0 \in 0..n /\ id \in 0..id BY <1>1
<1>8. \A n \in 0..id : Grown(f[0].table, f[n].table) BY <1>6, <1>7 DEF S
<1>9. \A n \in 0..id : Grown(f[n].table, f[id].table) BY <1>6, <1>7 DEF S
<1> QED BY <1>2, <1>8, <1>9

\* What FindProc returns.
LEMMA FindProcLeads ==
    ASSUME NEW t \in Trees, NEW id \in 1..Len(t), NEW rows, NEW text,
           NamespaceParts(SplitName(text)) \in Seq(Identifier),
           NEW r, r = FindProc(t, rows, id, text)
    PROVE  r \in SearchStates(rows) /\ r.table \in Trees /\ Grown(t, r.table)
           /\ r.found \in SUBSET (1..Len(rows))
<1>1. PICK f : Searches(f, t, rows, id, SplitName(text)) /\ r = f[id]
  BY FindProcSearches
<1>2. \A n \in 0..id : f[n] \in SearchStates(rows) /\ Grown(t, f[n].table)
  BY <1>1, SearchesGrow
<1>3. id \in 0..id BY RowsOfTree
<1>4. r \in SearchStates(rows) /\ Grown(t, r.table) BY <1>1, <1>2, <1>3
<1> QED BY <1>4 DEF SearchStates

\* The same call finds the same procs in a table that has grown since, and
\* leaves that as it is.
LEMMA FindProcAgain ==
    ASSUME NEW t \in Trees, NEW id \in 1..Len(t), NEW rows, NEW text,
           NamespaceParts(SplitName(text)) \in Seq(Identifier),
           NEW r, r = FindProc(t, rows, id, text),
           NEW u \in Trees, Grown(r.table, u)
    PROVE  FindProc(u, rows, id, text) =
               [table |-> u, found |-> r.found, next |-> r.next]
<1> DEFINE qn == SplitName(text)
<1>1. PICK f : Searches(f, t, rows, id, qn) /\ r = f[id] BY FindProcSearches
<1>2. /\ \A n \in 0..id : f[n] \in SearchStates(rows) /\ Grown(t, f[n].table)
      /\ \A n \in 0..id : Grown(f[n].table, r.table)
  BY <1>1, SearchesGrow
<1>3. /\ id \in Nat /\ id \in 0..id /\ 0 \in 0..id /\ Len(t) \in Nat /\ Len(u) \in Nat
  BY RowsOfTree
<1>4. /\ \A n \in 0..id : f[n].table \in Trees /\ Grown(f[n].table, u)
      /\ Grown(t, u)
  <2>1. r.table \in Trees BY <1>1, <1>2, <1>3 DEF SearchStates
  <2>2. \A n \in 0..id : f[n].table \in Trees BY <1>2 DEF SearchStates
  <2>3. \A n \in 0..id : Grown(f[n].table, u) BY <1>2, <2>1, <2>2, GrownTransitive
  <2>4. Grown(t, u) BY <1>1, <1>2, <1>3, <2>1, GrownTransitive
  <2> QED BY <2>2, <2>3, <2>4
<1>5. id \in 1..Len(u) BY <1>3, <1>4 DEF Grown
<1>6. PICK g : Searches(g, u, rows, id, qn) /\ FindProc(u, rows, id, text) = g[id]
  BY <1>5, FindProcSearches
<1>7. /\ \A n \in 1..id : /\ f[n] = FindIn(f[n - 1], rows, qn)
                          /\ g[n] = FindIn(g[n - 1], rows, qn)
      /\ f[0] = [table |-> t, found |-> {}, next |-> id]
      /\ g[0] = [table |-> u, found |-> {}, next |-> id]
  BY <1>1, <1>6 DEF Searches
<1> DEFINE S == {n \in 0..id : g[n] = [table |-> u, found |-> f[n].found,
                                       next |-> f[n].next]}
<1> HIDE DEF qn
<1>8. 0 \in S
  <2>1. f[0].found = {} /\ f[0].next = id BY <1>7
  <2>2. g[0] = [table |-> u, found |-> f[0].found, next |-> f[0].next]
    BY <1>7, <2>1
  <2> QED BY <1>3, <2>2
<1>9. ASSUME NEW n \in 1..id, n - 1 \in S PROVE n \in S
  <2>1. n \in 0..id /\ n - 1 \in 0..id BY <1>3
  <2>2. f[n - 1] \in SearchStates(rows) BY <1>2, <2>1
  <2>3. f[n] = FindIn(f[n - 1], rows, qn) /\ Grown(f[n].table, u)
    BY <1>4, <1>7, <2>1
  <2>4. FindIn([table |-> u, found |-> f[n - 1].found, next |-> f[n - 1].next],
               rows, qn) =
            [table |-> u, found |-> f[n].found, next |-> f[n].next]
    BY <2>2, <2>3, FindInAgain DEF qn
  <2> QED BY <1>7, <1>9, <2>1, <2>4
<1> HIDE DEF S
<1>10. \A n \in 0..id : n \in S BY <1>3, <1>8, <1>9, Stepwise
<1>11. id \in S BY <1>3, <1>10
<1> QED BY <1>1, <1>6, <1>11 DEF S

-----------------------------------------------------------------------------
(* FindNamespace goes down from the global namespace.                      *)

Descends(f, t, text) ==
    LET parts == Parts(SplitName(text))
    IN  /\ f \in [0..Len(parts) -> 0..Len(t)]
        /\ f[0] = Global
        /\ \A n \in 1..Len(parts) : f[n] = FindChild(t, f[n - 1], parts[n])

LEMMA FindChildLeads ==
    ASSUME NEW t \in Trees, NEW id \in 0..Len(t), NEW part
    PROVE  FindChild(t, id, part) \in 0..Len(t)
<1>1. CASE id = 0 \/ ChildNamed(t, id, part) = {}
  <2>1. Len(t) \in Nat BY RowsOfTree
  <2> QED BY <1>1, <2>1 DEF FindChild
<1>2. CASE id # 0 /\ ChildNamed(t, id, part) # {}
  <2>1. id \in 1..Len(t) BY <1>2, RowsOfTree
  <2>2. PICK c \in ChildNamed(t, id, part) : FindChild(t, id, part) = c
    BY <1>2 DEF FindChild
  <2>3. c \in 1..Len(t) BY <2>1, <2>2, ChildrenAreMembers DEF ChildNamed
  <2> QED BY <2>2, <2>3
<1> QED BY <1>1, <1>2

LEMMA FindNamespaceDescends ==
    ASSUME NEW t \in Trees, NEW text, Parts(SplitName(text)) \in Seq(Identifier)
    PROVE  \E f : /\ Descends(f, t, text)
                  /\ FindNamespace(t, text) = f[Len(Parts(SplitName(text)))]
<1> DEFINE parts == Parts(SplitName(text))
           N == Len(parts)
           Loop(f) == f = [n \in 0..N |-> IF n = 0 THEN Global
                                          ELSE FindChild(t, f[n - 1], parts[n])]
           found == CHOOSE f : Loop(f)
           step == [n \in 1..N |-> [d \in 0..Len(t) |-> FindChild(t, d, parts[n])]]
<1>1. N \in Nat OBVIOUS
<1>2. Global \in 0..Len(t) BY RowsOfTree
<1>3. StaysIn(0..Len(t), N, step)
  <2> HIDE DEF parts, N
  <2>1. \A n \in 1..N : \A d \in 0..Len(t) : FindChild(t, d, parts[n]) \in 0..Len(t)
    BY FindChildLeads
  <2> QED BY <2>1 DEF StaysIn
<1>4. FindNamespace(t, text) = found[N]
  BY DEF FindNamespace
<1> HIDE DEF parts, N
<1>5. PICK f : Loops(f, 0..Len(t), N, Global, step)
  <2> HIDE DEF step, found, Loop
  <2> QED BY <1>1, <1>2, <1>3, LoopExists
<1>6. Loop(f)
  <2>1. f \in [0..N -> 0..Len(t)] BY <1>5 DEF Loops
  <2>2. \A n \in 0..N : n # 0 => /\ n \in 1..N /\ n - 1 \in 0..N
                                 /\ f[n - 1] \in 0..Len(t)
    BY <1>1, <2>1
  <2>3. \A n \in 0..N : n # 0 => step[n][f[n - 1]] = FindChild(t, f[n - 1], parts[n])
    BY <2>2
  <2>4. \A n \in 0..N : f[n] = IF n = 0 THEN Global ELSE FindChild(t, f[n - 1], parts[n])
    <3> HIDE DEF step
    <3> QED BY <1>1, <1>5, <2>2, <2>3 DEF Loops
  <2> HIDE DEF step
  <2>5. f = [n \in 0..N |-> f[n]] BY <2>1
  <2> QED BY <2>4, <2>5
<1>7. Loop(found)
  <2> HIDE DEF Loop
  <2> QED BY <1>6
<1> HIDE DEF found, step
<1>8. /\ found[0] = Global
      /\ \A n \in 1..N : found[n] = FindChild(t, found[n - 1], parts[n])
      /\ found = [n \in 0..N |-> found[n]]
  <2>1. \A n \in 0..N : found[n] = IF n = 0 THEN Global
                                   ELSE FindChild(t, found[n - 1], parts[n])
    BY <1>7
  <2>2. found = [n \in 0..N |-> found[n]] BY <1>7
  <2> QED BY <1>1, <2>1, <2>2
<1>9. \A n \in 0..N : found[n] \in 0..Len(t)
  <2> DEFINE S == {n \in 0..N : found[n] \in 0..Len(t)}
  <2>1. 0 \in S BY <1>1, <1>2, <1>8
  <2>2. ASSUME NEW n \in 1..N, n - 1 \in S PROVE n \in S
    <3>1. found[n - 1] \in 0..Len(t) /\ n \in 0..N BY <1>1, <2>2
    <3>2. found[n] \in 0..Len(t) BY <1>8, <3>1, FindChildLeads
    <3> QED BY <3>1, <3>2
  <2> HIDE DEF S
  <2>3. \A n \in 0..N : n \in S BY <1>1, <2>1, <2>2, Stepwise
  <2> QED BY <2>3 DEF S
<1>10. found \in [0..N -> 0..Len(t)] BY <1>8, <1>9
<1>11. Descends(found, t, text)
  BY <1>8, <1>10 DEF Descends, parts, N
<1> QED BY <1>4, <1>11 DEF parts, N

LEMMA FindNamespaceLeads ==
    ASSUME NEW t \in Trees, NEW text, Parts(SplitName(text)) \in Seq(Identifier)
    PROVE  FindNamespace(t, text) \in 0..Len(t)
<1> DEFINE N == Len(Parts(SplitName(text)))
<1>1. N \in 0..N OBVIOUS
<1>2. PICK f : Descends(f, t, text) /\ FindNamespace(t, text) = f[N]
  BY FindNamespaceDescends
<1>3. f \in [0..N -> 0..Len(t)] BY <1>2 DEF Descends
<1> HIDE DEF N
<1> QED BY <1>1, <1>2, <1>3

-----------------------------------------------------------------------------
(* Names.                                                                  *)

Texts == Seq(Identifier) \ {<<>>}

QualifiedNames == [ns : Seq(Identifier), name : Identifier, absolute : BOOLEAN]

LEMMA JoinedLength ==
    ASSUME NEW S, NEW s \in Seq(S), NEW t \in Seq(S)
    PROVE  s \o t \in Seq(S) /\ Len(s \o t) = Len(s) + Len(t)
           /\ Len(s) \in Nat /\ Len(t) \in Nat
BY ConcatProperties, LenProperties

LEMMA FrontAndLast ==
    ASSUME NEW S, NEW s \in Seq(S), Len(s) > 0
    PROVE  /\ Len(s) \in Nat /\ Last(s) = s[Len(s)] /\ Last(s) \in S
           /\ Front(s) \in Seq(S) /\ Len(Front(s)) = Len(s) - 1
           /\ \A i \in 1..(Len(s) - 1) : Front(s)[i] = s[i]
<1>1. Len(s) \in Nat OBVIOUS
<1>2. Last(s) = s[Len(s)] /\ Last(s) \in S BY <1>1 DEF Last
<1>3. 1 \in Int /\ Len(s) - 1 \in Int /\ \A i \in 1..(Len(s) - 1) : s[i] \in S
  BY <1>1
<1>4. /\ SubSeq(s, 1, Len(s) - 1) \in Seq(S)
      /\ Len(SubSeq(s, 1, Len(s) - 1)) =
             IF 1 <= Len(s) - 1 THEN (Len(s) - 1) - 1 + 1 ELSE 0
      /\ \A i \in 1..((Len(s) - 1) - 1 + 1) :
             SubSeq(s, 1, Len(s) - 1)[i] = s[1 + i - 1]
  BY <1>3, SubSeqProperties
<1>5. Len(Front(s)) = Len(s) - 1
  <2>1. Len(Front(s)) = IF 1 <= Len(s) - 1 THEN (Len(s) - 1) - 1 + 1 ELSE 0
    BY <1>4 DEF Front
  <2>2. \A n \in Nat : n > 0 => (IF 1 <= n - 1 THEN (n - 1) - 1 + 1 ELSE 0) = n - 1
    OBVIOUS
  <2>3. (IF 1 <= Len(s) - 1 THEN (Len(s) - 1) - 1 + 1 ELSE 0) = Len(s) - 1
    BY <1>1, <2>2
  <2> QED BY <2>1, <2>3
<1>6. \A i \in 1..(Len(s) - 1) : Front(s)[i] = s[i]
  <2>1. ASSUME NEW i \in 1..(Len(s) - 1) PROVE SubSeq(s, 1, Len(s) - 1)[i] = s[i]
    <3>1. i \in 1..((Len(s) - 1) - 1 + 1) /\ 1 + i - 1 = i BY <1>1
    <3> QED BY <1>4, <3>1
  <2> QED BY <2>1 DEF Front
<1> QED BY <1>1, <1>2, <1>4, <1>5, <1>6 DEF Front

LEMMA TextEnds ==
    ASSUME NEW t \in Texts
    PROVE  /\ t \in Seq(Identifier) /\ Len(t) \in Nat /\ Len(t) > 0
           /\ Last(t) \in Identifier /\ Head(t) \in Identifier
           /\ Front(t) \in Seq(Identifier) /\ Len(Front(t)) = Len(t) - 1
           /\ Tail(t) \in Seq(Identifier) /\ Len(Tail(t)) = Len(t) - 1
<1>1. t \in Seq(Identifier) /\ t # <<>> BY DEF Texts
<1>2. Len(t) \in Nat /\ Len(t) > 0 BY <1>1, EmptySeq
<1>3. Last(t) \in Identifier /\ Head(t) \in Identifier BY <1>1, <1>2 DEF Last
<1>4. Front(t) \in Seq(Identifier) /\ Len(Front(t)) = Len(t) - 1
  BY <1>1, <1>2, FrontAndLast
<1>5. Tail(t) \in Seq(Identifier) /\ Len(Tail(t)) = Len(t) - 1
  BY <1>1, <1>2, HeadTailProperties
<1> QED BY <1>1, <1>2, <1>3, <1>4, <1>5

LEMMA EmptyTextIsText == E \in Identifier /\ EmptyText \in Texts /\ Len(EmptyText) = 1
<1>1. E \in Identifier BY EmptySeq DEF E, Identifier
<1>2. EmptyText \in Seq(Identifier) /\ Len(EmptyText) = 1 BY <1>1 DEF EmptyText
<1> QED BY <1>1, <1>2, EmptySeq DEF Texts

LEMMA SplitNameIsQualified ==
    ASSUME NEW t \in Texts
    PROVE  /\ SplitName(t) \in QualifiedNames
           /\ SplitName(t).absolute => SplitName(t).ns # NoNs
<1>1. CASE t = EmptyText
  <2>1. SplitName(t) = [ns |-> EmptyText, name |-> E, absolute |-> TRUE]
    BY <1>1 DEF SplitName
  <2>2. EmptyText # NoNs BY EmptyTextIsText, EmptySeq DEF NoNs
  <2> QED BY <2>1, <2>2, EmptyTextIsText DEF QualifiedNames, Texts
<1>2. CASE t # EmptyText
  <2>1. SplitName(t) = [ns |-> IF Len(t) = 1 THEN NoNs ELSE Front(t),
                        name |-> Last(t), absolute |-> IsRooted(t)]
    BY <1>2 DEF SplitName
  <2>2. NoNs \in Seq(Identifier) BY EmptySeq DEF NoNs
  <2>3. IsRooted(t) \in BOOLEAN /\ (IsRooted(t) => Len(t) > 1) BY DEF IsRooted
  <2>4. Len(t) > 1 => Front(t) # NoNs BY TextEnds, EmptySeq DEF NoNs
  <2> QED BY <2>1, <2>2, <2>3, <2>4, TextEnds DEF QualifiedNames
<1> QED BY <1>1, <1>2

LEMMA PartsOfName ==
    ASSUME NEW qn \in QualifiedNames
    PROVE  /\ NamespaceParts(qn) \in Seq(Identifier)
           /\ Parts(qn) \in Seq(Identifier)
<1>1. qn.ns \in Seq(Identifier) /\ qn.name \in Identifier BY DEF QualifiedNames
<1>2. qn.ns # NoNs => qn.ns \in Texts BY <1>1 DEF Texts, NoNs
<1>3. NamespaceParts(qn) \in Seq(Identifier)
  <2>1. NoNs \in Seq(Identifier) /\ NoNs = <<>> BY EmptySeq DEF NoNs
  <2>2. CASE qn.ns = NoNs BY <2>1, <2>2 DEF NamespaceParts
  <2>3. CASE qn.ns # NoNs /\ qn.absolute /\ qn.ns = EmptyText
    BY <2>1, <2>3 DEF NamespaceParts
  <2>4. CASE qn.ns # NoNs /\ qn.absolute /\ qn.ns # EmptyText
    <3>1. NamespaceParts(qn) = Tail(qn.ns) BY <2>4 DEF NamespaceParts
    <3> QED BY <1>2, <2>4, <3>1, TextEnds
  <2>5. CASE qn.ns # NoNs /\ ~qn.absolute BY <1>1, <2>5 DEF NamespaceParts
  <2> QED BY <2>2, <2>3, <2>4, <2>5
<1>4. Parts(qn) \in Seq(Identifier)
  <2> DEFINE parts == NamespaceParts(qn)
  <2> HIDE DEF parts
  <2>1. Append(parts, qn.name) \in Seq(Identifier) BY <1>1, <1>3 DEF parts
  <2> QED BY <1>3, <2>1 DEF Parts, parts
<1> QED BY <1>3, <1>4

LEMMA TextsJoined ==
    ASSUME NEW s \in Texts, NEW t \in Texts
    PROVE  Concat(s, t) \in Texts /\ s \o t \in Texts /\ Rooted(t) \in Texts
<1>1. /\ s \in Seq(Identifier) /\ t \in Seq(Identifier)
      /\ Len(s) \in Nat /\ Len(t) \in Nat /\ Len(s) > 0
      /\ Front(s) \in Seq(Identifier) /\ Tail(t) \in Seq(Identifier)
      /\ Last(s) \in Identifier /\ Head(t) \in Identifier
  BY TextEnds
<1>2. Last(s) \o Head(t) \in Identifier BY <1>1, ConcatProperties DEF Identifier
<1> DEFINE middle == <<Last(s) \o Head(t)>>
<1>3. middle \in Seq(Identifier) /\ Len(middle) = 1 BY <1>2
<1> HIDE DEF middle
<1>4. /\ Front(s) \o middle \in Seq(Identifier)
      /\ Len(Front(s) \o middle) = Len(s)
  <2> DEFINE front == Front(s)
  <2>1. front \in Seq(Identifier) /\ Len(front) = Len(s) - 1 BY TextEnds
  <2> HIDE DEF front
  <2>2. /\ front \o middle \in Seq(Identifier)
        /\ Len(front \o middle) = Len(front) + Len(middle)
    BY <1>3, <2>1, JoinedLength
  <2>3. (Len(s) - 1) + 1 = Len(s) BY <1>1
  <2>4. Len(front \o middle) = Len(s) BY <1>3, <2>1, <2>2, <2>3
  <2> QED BY <2>2, <2>4 DEF front
<1> DEFINE whole == (Front(s) \o middle) \o Tail(t)
<1>5. whole \in Seq(Identifier) /\ Len(whole) = Len(s) + Len(t) - 1
  <2> DEFINE first == Front(s) \o middle
  <2> HIDE DEF first
  <2>1. first \in Seq(Identifier) /\ Len(first) = Len(s) BY <1>4 DEF first
  <2>2. /\ first \o Tail(t) \in Seq(Identifier)
        /\ Len(first \o Tail(t)) = Len(first) + Len(Tail(t))
    <3> DEFINE tail == Tail(t)
    <3>1. tail \in Seq(Identifier) BY <1>1
    <3> HIDE DEF tail
    <3>2. first \o tail \in Seq(Identifier) /\ Len(first \o tail) = Len(first) + Len(tail)
      BY <2>1, <3>1, JoinedLength
    <3> QED BY <3>2 DEF tail
  <2>3. Len(Tail(t)) = Len(t) - 1 BY TextEnds
  <2>4. first \o Tail(t) = whole BY DEF first
  <2> HIDE DEF whole
  <2> QED BY <1>1, <2>1, <2>2, <2>3, <2>4
<1>6. whole # <<>>
  <2> HIDE DEF whole
  <2> QED BY <1>1, <1>5, EmptySeq, TextEnds
<1>7. Concat(s, t) = whole BY DEF Concat, whole, middle
<1>8. s \o t \in Seq(Identifier) /\ s \o t # <<>>
  BY <1>1, ConcatProperties, EmptySeq
<1>9. Rooted(t) \in Seq(Identifier) /\ Rooted(t) # <<>>
  <2> DEFINE root == <<E>>
  <2>1. root \in Seq(Identifier) /\ Len(root) = 1 BY EmptyTextIsText
  <2> HIDE DEF root
  <2>2. root \o t \in Seq(Identifier) /\ Len(root \o t) = 1 + Len(t)
    BY <1>1, <2>1, JoinedLength
  <2>3. root \o t # <<>> BY <1>1, <2>2, EmptySeq
  <2> QED BY <2>2, <2>3 DEF root, Rooted
<1> HIDE DEF whole
<1> QED BY <1>5, <1>6, <1>7, <1>8, <1>9 DEF Texts

\* The namespaces the parser notes are texts.
LEMMA AbsPathIsText ==
    ASSUME NEW t \in Texts, NEW current \in Texts
    PROVE  LET qn == AbsPath(SplitName(t), current)
           IN  Path(qn) \in Texts /\ Namespace(qn) \in Texts
<1> DEFINE split == SplitName(t)
           qn == AbsPath(split, current)
<1>1. split \in QualifiedNames /\ (split.absolute => split.ns # NoNs)
  BY SplitNameIsQualified
<1> HIDE DEF split
<1>2. /\ split = [ns |-> split.ns, name |-> split.name, absolute |-> split.absolute]
      /\ split.ns \in Seq(Identifier) /\ split.name \in Identifier
      /\ split.absolute \in BOOLEAN
      /\ split.ns # NoNs => split.ns \in Texts
  BY <1>1 DEF QualifiedNames, Texts, NoNs
<1>3. qn.ns \in Texts /\ qn.name \in Identifier
  <2>1. CASE split.absolute
    <3>1. qn = split BY <2>1 DEF AbsPath
    <3> QED BY <1>1, <1>2, <2>1, <3>1
  <2>2. CASE ~split.absolute /\ current = EmptyText
    <3>1. qn = [split EXCEPT !.ns = IF @ = NoNs THEN EmptyText ELSE Rooted(@)]
      BY <2>2 DEF AbsPath
    <3>2. /\ qn.ns = IF split.ns = NoNs THEN EmptyText ELSE Rooted(split.ns)
          /\ qn.name = split.name
      BY <1>2, <3>1
    <3> QED BY <1>2, <3>2, EmptyTextIsText, TextsJoined
  <2>3. CASE ~split.absolute /\ current # EmptyText
    <3>1. qn = [split EXCEPT !.ns = IF @ = NoNs THEN current ELSE Concat(current, @)]
      BY <2>3 DEF AbsPath
    <3>2. /\ qn.ns = IF split.ns = NoNs THEN current ELSE Concat(current, split.ns)
          /\ qn.name = split.name
      BY <1>2, <3>1
    <3> QED BY <1>2, <3>2, TextsJoined
  <2> QED BY <2>1, <2>2, <2>3
<1> HIDE DEF qn
<1>4. qn.ns # NoNs BY <1>3 DEF Texts, NoNs
<1>5. <<qn.name>> \in Texts
  <2>1. <<qn.name>> \in Seq(Identifier) /\ Len(<<qn.name>>) = 1 BY <1>3
  <2> QED BY <2>1, EmptySeq DEF Texts
<1>6. Path(qn) \in Texts BY <1>3, <1>4, <1>5, TextsJoined DEF Path, Joined
<1>7. Namespace(qn) \in Texts BY <1>3, <1>4 DEF Namespace
<1> QED BY <1>6, <1>7 DEF qn, split

-----------------------------------------------------------------------------
(* Procs.                                                                  *)

ProcRows == [name : Identifier, parent : Nat, required : Nat, optional : Nat,
             variadic : BOOLEAN]

ParameterLists == Seq({"plain", "default", "args"})

LEMMA NewProcIsRow ==
    ASSUME NEW name \in Identifier, NEW ns \in Nat, NEW params \in ParameterLists
    PROVE  NewProc(name, ns, params) \in ProcRows
<1>1. Counted(params) \in ParameterLists
  BY EmptySeq DEF Counted, ParameterLists
<1>2. ASSUME NEW list \in ParameterLists, NEW kinds
      PROVE  Occurrences(list, kinds) \in Nat
  <2> DEFINE places == 1..Len(list)
             S == {i \in places : list[i] \in kinds}
  <2>1. Len(list) \in Nat BY DEF ParameterLists
  <2>2. IsFiniteSet(places) BY <2>1, FS_Interval
  <2>3. S \subseteq places OBVIOUS
  <2> HIDE DEF S, places
  <2>4. IsFiniteSet(S) BY <2>2, <2>3, FS_Subset
  <2>5. Cardinality(S) \in Nat BY <2>4, FS_CardinalityType
  <2> QED BY <2>5 DEF Occurrences, S, places
<1> QED BY <1>1, <1>2 DEF NewProc, ProcRows

\* BestFitProcToCall chooses one of the procs, if there is one.
LEMMA BestFitIsFound ==
    ASSUME NEW rows, Len(rows) \in Nat, NEW found \in SUBSET (1..Len(rows)), NEW args
    PROVE  LET best == BestFitProcToCall(rows, found, args)
           IN  /\ found = {} => best = 0
               /\ found # {} => best \in found
<1> DEFINE first == Min(found)
           exact == {p \in found \ {first} : args = rows[p].required}
           fits == {p \in found \ {first} :
                       /\ args > rows[p].required
                       /\ \/ args <= rows[p].required + rows[p].optional
                          \/ rows[p].variadic}
           best == CASE found = {} -> 0
                     [] found # {} /\ exact # {} -> Min(exact)
                     [] found # {} /\ exact = {} /\ fits # {} -> Max(fits)
                     [] OTHER -> first
<1>1. best = BestFitProcToCall(rows, found, args)
  BY DEF BestFitProcToCall
<1>2. ASSUME NEW S \in SUBSET found, S # {} PROVE Min(S) \in S /\ Max(S) \in S
  <2>1. S \subseteq Nat /\ S \in SUBSET (0..Len(rows)) OBVIOUS
  <2>2. \E m \in S : \A n \in S : m <= n BY <1>2, <2>1, LeastMember
  <2>3. \E m \in S : \A n \in S : n <= m BY <1>2, <2>1, GreatestMember
  <2>4. \E m \in S : \A n \in S : m >= n BY <2>1, <2>3
  <2> QED BY <2>2, <2>4 DEF Min, Max
<1>3. exact \in SUBSET found /\ fits \in SUBSET found OBVIOUS
<1>4. found # {} => first \in found BY <1>2
<1>5. exact # {} => Min(exact) \in found
  <2> HIDE DEF exact
  <2> QED BY <1>2, <1>3
<1>6. fits # {} => Max(fits) \in found
  <2> HIDE DEF fits
  <2> QED BY <1>2, <1>3
<1>7. /\ found = {} => best = 0
      /\ found # {} => best \in found
  <2> HIDE DEF exact, fits, first
  <2> QED BY <1>4, <1>5, <1>6
<1> HIDE DEF best
<1> QED BY <1>1, <1>7

-----------------------------------------------------------------------------
(* The nesting of a script.  A function from the places between commands   *)
(* to the namespaces of the levels that are open there describes it.       *)

Commands == [op : {"call", "eval", "proc", "block", "end"}, name : Texts,
             params : ParameterLists, args : Nat, ns : Texts]

\* The levels behind a command, given those before it.
Behind(c, levels) ==
    CASE c.op = "eval" -> Append(levels, Path(AbsPath(SplitName(c.name), Last(levels))))
      [] c.op = "proc" -> Append(levels, Namespace(AbsPath(SplitName(c.name), Last(levels))))
      [] c.op = "block" -> Append(levels, Last(levels))
      [] c.op = "end" -> Front(levels)
      [] c.op = "call" -> levels

Levels(levels, commands) ==
    /\ levels \in [0..Len(commands) -> Seq(Texts)]
    /\ levels[0] = <<EmptyText>>
    /\ \A i \in 0..Len(commands) : Len(levels[i]) > 0
    /\ \A i \in 1..Len(commands) :
          /\ levels[i] = Behind(commands[i], levels[i - 1])
          /\ commands[i].op # "end" => commands[i].ns = Last(levels[i - 1])

LEMMA LevelsExtended ==
    ASSUME NEW commands \in Seq(Commands), NEW levels, Levels(levels, commands),
           NEW c \in Commands, c.op # "end" => c.ns = Last(levels[Len(commands)]),
           NEW behind \in Seq(Texts), Len(behind) > 0,
           behind = Behind(c, levels[Len(commands)])
    PROVE  \E l : /\ Levels(l, Append(commands, c))
                  /\ l[Len(commands) + 1] = behind
                  /\ \A i \in 0..Len(commands) : l[i] = levels[i]
<1> DEFINE n == Len(commands)
           l == [i \in 0..(n + 1) |-> IF i = n + 1 THEN behind ELSE levels[i]]
<1>1. n \in Nat /\ Len(Append(commands, c)) = n + 1
      /\ Append(commands, c)[n + 1] = c
      /\ \A i \in 1..n : Append(commands, c)[i] = commands[i]
  OBVIOUS
<1> DEFINE more == Append(commands, c)
<1> HIDE DEF n, more
<1>2. /\ levels \in [0..n -> Seq(Texts)] /\ levels[0] = <<EmptyText>>
      /\ \A i \in 0..n : Len(levels[i]) > 0
      /\ \A i \in 1..n :
            /\ levels[i] = Behind(commands[i], levels[i - 1])
            /\ commands[i].op # "end" => commands[i].ns = Last(levels[i - 1])
  BY DEF Levels, n
<1>3. /\ \A i \in 0..(n + 1) : i = n + 1 \/ i \in 0..n
      /\ \A i \in 0..n : i # n + 1 /\ i \in 0..(n + 1)
      /\ n + 1 \in 0..(n + 1) /\ 0 \in 0..n /\ n \in 0..n
      /\ \A i \in 1..(n + 1) : i - 1 \in 0..n
      /\ \A i \in 1..(n + 1) : i = n + 1 \/ i \in 1..n
  BY <1>1
<1>4. /\ l[n + 1] = behind
      /\ \A i \in 0..n : l[i] = levels[i]
  BY <1>3
<1>5. l \in [0..(n + 1) -> Seq(Texts)] BY <1>2, <1>3
<1> HIDE DEF l
<1>6. l[0] = <<EmptyText>> BY <1>2, <1>3, <1>4
<1>7. \A i \in 0..(n + 1) : Len(l[i]) > 0 BY <1>2, <1>3, <1>4
<1>8. ASSUME NEW i \in 1..(n + 1)
      PROVE  /\ l[i] = Behind(more[i], l[i - 1])
             /\ more[i].op # "end" => more[i].ns = Last(l[i - 1])
  <2>1. i - 1 \in 0..n /\ l[i - 1] = levels[i - 1] BY <1>3, <1>4
  <2>2. CASE i = n + 1
    <3>1. i - 1 = n /\ more[i] = c BY <1>1, <2>2 DEF more
    <3>2. l[i] = behind BY <1>4, <2>2
    <3> QED BY <2>1, <3>1, <3>2 DEF n
  <2>3. CASE i \in 1..n
    <3>1. more[i] = commands[i] /\ l[i] = levels[i] BY <1>1, <1>3, <1>4, <2>3 DEF more
    <3> QED BY <1>2, <2>1, <2>3, <3>1
  <2> QED BY <1>3, <2>2, <2>3
<1>9. Levels(l, more)
  <2>1. Len(more) = n + 1 BY <1>1 DEF more
  <2> QED BY <1>5, <1>6, <1>7, <1>8, <2>1 DEF Levels
<1> QED BY <1>4, <1>9 DEF n, more

\* All the levels but the outermost can end at once.
LEMMA LevelsEnded ==
    ASSUME NEW commands \in Seq(Commands), NEW levels, Levels(levels, commands)
    PROVE  LET open == Len(levels[Len(commands)])
               all == commands \o [i \in 1..(open - 1) |-> End]
           IN  /\ all \in Seq(Commands)
               /\ \E l : Levels(l, all) /\ Len(l[Len(all)]) = 1
<1> DEFINE n == Len(commands)
           inner == levels[n]
           open == Len(inner)
           ends == [i \in 1..(open - 1) |-> End]
           all == commands \o ends
           l == [i \in 0..(n + (open - 1)) |->
                    IF i <= n THEN levels[i] ELSE SubSeq(inner, 1, open - (i - n))]
<1>1. n \in Nat OBVIOUS
<1>2. /\ levels \in [0..n -> Seq(Texts)] /\ levels[0] = <<EmptyText>>
      /\ \A i \in 0..n : Len(levels[i]) > 0
      /\ \A i \in 1..n :
            /\ levels[i] = Behind(commands[i], levels[i - 1])
            /\ commands[i].op # "end" => commands[i].ns = Last(levels[i - 1])
  BY DEF Levels
<1>3. inner \in Seq(Texts) /\ open \in Nat /\ open > 0
  <2>1. n \in 0..n BY <1>1
  <2>2. inner \in Seq(Texts) /\ open > 0 BY <1>2, <2>1
  <2> HIDE DEF inner
  <2> QED BY <2>2
<1>4. End \in Commands /\ End.op = "end"
  BY EmptyTextIsText, EmptySeq DEF End, Commands, ParameterLists
<1>5. ends \in Seq(Commands) /\ Len(ends) = open - 1
      /\ \A i \in 1..(open - 1) : ends[i] = End
  BY <1>3, <1>4
<1> HIDE DEF n, inner, open, ends
<1>6. /\ all \in Seq(Commands) /\ Len(all) = n + (open - 1)
      /\ \A i \in 1..n : all[i] = commands[i]
      /\ \A i \in (n + 1)..(n + (open - 1)) : all[i] = End
  <2>1. /\ all \in Seq(Commands) /\ Len(all) = Len(commands) + Len(ends)
        /\ \A i \in 1..(Len(commands) + Len(ends)) :
              all[i] = IF i <= Len(commands) THEN commands[i] ELSE ends[i - Len(commands)]
    BY <1>5, ConcatProperties
  <2> HIDE DEF all
  <2>2. \A i \in 1..n : i \in 1..(n + (open - 1)) /\ i <= n BY <1>1, <1>3
  <2>3. \A i \in (n + 1)..(n + (open - 1)) :
           i \in 1..(n + (open - 1)) /\ ~(i <= n) /\ i - n \in 1..(open - 1)
    BY <1>1, <1>3
  <2>4. Len(commands) = n BY DEF n
  <2> QED BY <1>5, <2>1, <2>2, <2>3, <2>4
<1>7. ASSUME NEW m \in 1..open
      PROVE  SubSeq(inner, 1, m) \in Seq(Texts) /\ Len(SubSeq(inner, 1, m)) = m
  <2>1. \A i \in 1..m : inner[i] \in Texts BY <1>3 DEF open
  <2>2. 1 \in Int /\ m \in Int /\ 1 <= m /\ m - 1 + 1 = m BY <1>3
  <2> QED BY <2>1, <2>2, SubSeqProperties
<1>8. ASSUME NEW m \in 2..open
      PROVE  Front(SubSeq(inner, 1, m)) = SubSeq(inner, 1, m - 1)
  <2>1. m \in 1..open /\ m - 1 \in 1..open BY <1>3
  <2> DEFINE s == SubSeq(inner, 1, m)
             t == SubSeq(inner, 1, m - 1)
  <2>2. /\ s \in Seq(Texts) /\ Len(s) = m /\ t \in Seq(Texts) /\ Len(t) = m - 1
    BY <1>7, <2>1
  <2>3. /\ \A i \in 1..m : s[i] = inner[i]
        /\ \A i \in 1..(m - 1) : t[i] = inner[i]
    OBVIOUS
  <2> HIDE DEF s, t
  <2>4. /\ Front(s) \in Seq(Texts) /\ Len(Front(s)) = m - 1
        /\ \A i \in 1..(m - 1) : Front(s)[i] = s[i]
    <3>1. Len(s) > 0 BY <2>2
    <3>2. Len(Front(s)) = Len(s) - 1 /\ \A i \in 1..(Len(s) - 1) : Front(s)[i] = s[i]
      BY <2>2, <3>1, FrontAndLast
    <3>3. Front(s) \in Seq(Texts) BY <2>2, <3>1, FrontAndLast
    <3> QED BY <2>2, <3>2, <3>3
  <2>5. \A i \in 1..(m - 1) : Front(s)[i] = t[i] BY <2>3, <2>4
  <2>6. Front(s) = t BY <2>2, <2>4, <2>5, SeqEqual
  <2> QED BY <2>6 DEF s, t
<1>9. SubSeq(inner, 1, open) = inner BY <1>3, SubSeqFull DEF open
<1> DEFINE N == n + (open - 1)
<1>10. /\ \A i \in 0..n : i \in 0..N /\ i <= n
       /\ \A i \in 0..N : i \in 0..n \/ i \in (n + 1)..N
       /\ \A i \in (n + 1)..N : /\ i \in 0..N /\ ~(i <= n)
                                /\ open - (i - n) \in 1..open
       /\ N \in Nat /\ n \in 0..N /\ 0 \in 0..n
  BY <1>1, <1>3
<1>11. /\ \A i \in 0..n : l[i] = levels[i]
       /\ \A i \in (n + 1)..N : l[i] = SubSeq(inner, 1, open - (i - n))
  BY <1>10
<1>12. /\ l = [i \in 0..N |-> l[i]]
       /\ \A i \in n..N : l[i] = SubSeq(inner, 1, open - (i - n))
  <2>1. l[n] = SubSeq(inner, 1, open - (n - n))
    <3>1. n \in 0..n /\ open - (n - n) = open BY <1>1, <1>3
    <3> QED BY <1>9, <1>11, <3>1 DEF inner
  <2>2. \A i \in n..N : i = n \/ i \in (n + 1)..N BY <1>1, <1>3
  <2> QED BY <1>11, <2>1, <2>2
<1> HIDE DEF l, all
<1>13. \A i \in 0..N : l[i] \in Seq(Texts) /\ Len(l[i]) > 0
  <2>1. ASSUME NEW i \in 0..n PROVE l[i] \in Seq(Texts) /\ Len(l[i]) > 0
    BY <1>2, <1>11
  <2>2. ASSUME NEW i \in (n + 1)..N PROVE l[i] \in Seq(Texts) /\ Len(l[i]) > 0
    <3>1. open - (i - n) \in 1..open BY <1>10
    <3>2. l[i] \in Seq(Texts) /\ Len(l[i]) = open - (i - n)
      BY <1>7, <1>11, <3>1
    <3> QED BY <3>1, <3>2
  <2> QED BY <1>10, <2>1, <2>2
<1>14. l \in [0..N -> Seq(Texts)] BY <1>12, <1>13
<1>15. l[0] = <<EmptyText>> BY <1>2, <1>10, <1>11
<1>16. ASSUME NEW i \in 1..N
       PROVE  /\ l[i] = Behind(all[i], l[i - 1])
              /\ all[i].op # "end" => all[i].ns = Last(l[i - 1])
  <2>1. CASE i \in 1..n
    <3>1. i \in 0..n /\ i - 1 \in 0..n BY <1>1, <2>1
    <3>2. l[i] = levels[i] /\ l[i - 1] = levels[i - 1] /\ all[i] = commands[i]
      BY <1>6, <1>11, <2>1, <3>1
    <3> QED BY <1>2, <2>1, <3>2
  <2>2. CASE i \in (n + 1)..N
    <3>1. /\ i \in n..N /\ i - 1 \in n..N
          /\ open - ((i - 1) - n) \in 2..open
          /\ open - (i - n) = (open - ((i - 1) - n)) - 1
      BY <1>1, <1>3, <2>2
    <3>2. /\ l[i] = SubSeq(inner, 1, open - (i - n))
          /\ l[i - 1] = SubSeq(inner, 1, open - ((i - 1) - n))
      BY <1>12, <3>1
    <3>3. l[i] = Front(l[i - 1]) BY <1>8, <3>1, <3>2
    <3>4. all[i].op = "end" BY <1>4, <1>6, <2>2
    <3> QED BY <3>3, <3>4 DEF Behind
  <2>3. i \in 1..n \/ i \in (n + 1)..N BY <1>1, <1>3
  <2> QED BY <2>1, <2>2, <2>3
<1>17. Levels(l, all)
  <2>1. Len(all) = N BY <1>6
  <2> HIDE DEF N
  <2> QED BY <1>13, <1>14, <1>15, <1>16, <2>1 DEF Levels
<1>18. Len(l[Len(all)]) = 1
  <2>1. Len(all) = N /\ N \in n..N /\ open - (N - n) = 1 /\ 1 \in 1..open
    BY <1>1, <1>3, <1>6
  <2>2. l[Len(all)] = SubSeq(inner, 1, 1) BY <1>12, <2>1
  <2> QED BY <1>7, <2>1, <2>2
<1>19. all \in Seq(Commands) BY <1>6
<1> QED BY <1>17, <1>18, <1>19 DEF all, ends, open, inner, n

-----------------------------------------------------------------------------
(* The inductive invariant.                                                *)

\* What the parser has made so far.
ParseInv ==
    /\ words \in Vocabularies
    /\ script \in Seq(Commands)
    /\ phase \in {"parse", "scan", "index", "ready"}
    /\ at \in 1..(Len(script) + 1)
    /\ phase = "parse" => at = 1
    /\ phase = "ready" => at = Len(script) + 1
    /\ curNs \in Seq(Texts) /\ Len(curNs) > 0

\* What the walks have entered, they leave.
NestingInv ==
    \E levels :
        /\ Levels(levels, script)
        /\ phase = "parse" => curNs = levels[Len(script)]
        /\ phase # "parse" => Len(levels[Len(script)]) = 1
        /\ Len(nsPath) = Len(levels[at - 1])

PathInv ==
    /\ nsPath \in Seq(1..Len(namespaces))
    /\ Len(nsPath) > 0 /\ nsPath[1] = Global

ReferenceRows == [location : Nat, id : Nat, type : {"DEFINITION", "USAGE"}]

ProcsInv ==
    /\ procs \in Seq(ProcRows)
    /\ \A p \in 1..Len(procs) : procs[p].parent \in 1..Len(namespaces)

ReferencesInv ==
    /\ references \in Seq(ReferenceRows)
    /\ \A i \in 1..Len(references) :
          /\ references[i].id \in 1..Len(procs)
          /\ references[i].location \in 1..Len(script)

AnswerInv ==
    /\ answer \in [of : Nat, types : SUBSET {"DEFINITION", "USAGE"}, locations : SUBSET Nat]
    /\ answer.locations \subseteq 1..Len(script)

IndexInv ==
    /\ ParseInv
    /\ NestingInv
    /\ namespaces \in Trees
    /\ PathInv
    /\ ProcsInv
    /\ ReferencesInv
    /\ AnswerInv

LEMMA IndexInit == Init => IndexInv
<1> SUFFICES ASSUME Init PROVE IndexInv
  OBVIOUS
<1>1. ParseInv
  <2>1. <<EmptyText>> \in Seq(Texts) /\ Len(<<EmptyText>>) = 1 BY EmptyTextIsText
  <2>2. script \in Seq(Commands) /\ Len(script) = 0 BY EmptySeq DEF Init
  <2> QED BY <2>1, <2>2 DEF Init, ParseInv
<1>2. NestingInv
  <2> DEFINE levels == [i \in 0..0 |-> <<EmptyText>>]
  <2>1. /\ levels \in [0..0 -> Seq(Texts)] /\ levels[0] = <<EmptyText>>
        /\ \A i \in 0..0 : levels[i] = <<EmptyText>>
    BY EmptyTextIsText
  <2>2. Len(<<EmptyText>>) = 1 /\ Len(script) = 0 /\ 1..Len(script) = {}
    BY DEF Init
  <2> HIDE DEF levels
  <2>3. Levels(levels, script) BY <2>1, <2>2 DEF Levels
  <2>4. Len(nsPath) = 1 /\ at - 1 = 0 /\ phase = "parse" /\ curNs = <<EmptyText>>
    BY DEF Init
  <2> QED BY <2>1, <2>2, <2>3, <2>4 DEF NestingInv
<1>3. namespaces \in Trees
  <2> DEFINE root == [name |-> E, parent |-> 0, children |-> <<>>, procs |-> <<>>]
  <2>1. root \in Row BY EmptyTextIsText, EmptySeq DEF Row
  <2>2. namespaces = <<root>> BY DEF Init
  <2>3. namespaces \in Seq(Row) /\ Len(namespaces) = 1 /\ namespaces[1] = root
    BY <2>1, <2>2
  <2>4. Len(root.children) = 0 /\ root.parent = 0 OBVIOUS
  <2> HIDE DEF root
  <2>5. Tree(namespaces) BY <2>3, <2>4 DEF Tree, Global
  <2>6. Len(namespaces) > 0 BY <2>3
  <2> QED BY <2>3, <2>5, <2>6 DEF Trees
<1>4. PathInv
  <2>1. Len(namespaces) = 1 BY DEF Init
  <2> QED BY <2>1 DEF Init, PathInv, Global
<1>5. ProcsInv /\ ReferencesInv
  <2>1. procs = <<>> /\ references = <<>> BY DEF Init
  <2> QED BY <2>1, EmptySeq DEF ProcsInv, ReferencesInv
<1>6. AnswerInv BY DEF Init, AnswerInv, NoAnswer
<1> QED BY <1>1, <1>2, <1>3, <1>4, <1>5, <1>6 DEF IndexInv

\* Whatever keeps the parser's part and lets the namespaces but grow keeps the
\* rest too.
LEMMA TablesStay ==
    ASSUME IndexInv, NEW s \in Seq(Commands), Len(script) <= Len(s),
           script' = s, UNCHANGED <<nsPath, tables, answer>>
    PROVE  /\ namespaces' \in Trees /\ PathInv' /\ ProcsInv' /\ ReferencesInv'
           /\ AnswerInv'
<1>1. Len(script) \in Nat /\ Len(s) \in Nat BY DEF IndexInv, ParseInv
<1>2. \A i \in 1..Len(script) : i \in 1..Len(s) BY <1>1
<1>3. /\ nsPath' = nsPath /\ namespaces' = namespaces /\ procs' = procs
      /\ references' = references /\ answer' = answer
  BY DEF tables
<1>4. namespaces' \in Trees /\ PathInv' /\ ProcsInv'
  BY <1>3 DEF IndexInv, PathInv, ProcsInv
<1>5. ReferencesInv' BY <1>2, <1>3 DEF IndexInv, ReferencesInv
<1>6. AnswerInv' BY <1>2, <1>3 DEF IndexInv, AnswerInv
<1> QED BY <1>4, <1>5, <1>6

-----------------------------------------------------------------------------
(* Parsing.                                                                *)

LEMMA ParseOne ==
    ASSUME IndexInv, NEW c \in Commands, Parse(c), c.op # "end" => c.ns = Last(curNs),
           curNs' \in Seq(Texts), Len(curNs') > 0, curNs' = Behind(c, curNs)
    PROVE  IndexInv'
<1>1. /\ phase = "parse" /\ phase' = "parse" /\ script' = Append(script, c)
      /\ words' = words /\ at' = at /\ at = 1
      /\ UNCHANGED <<nsPath, tables, answer>>
  BY DEF IndexInv, ParseInv, Parse
<1>2. /\ script' \in Seq(Commands) /\ Len(script) \in Nat
      /\ Len(script') = Len(script) + 1
  BY <1>1 DEF IndexInv, ParseInv
<1>3. ParseInv' BY <1>1, <1>2 DEF IndexInv, ParseInv
<1>4. PICK levels : /\ Levels(levels, script) /\ curNs = levels[Len(script)]
                    /\ Len(nsPath) = Len(levels[0])
  <2>1. at - 1 = 0 BY <1>1
  <2> QED BY <1>1, <2>1 DEF IndexInv, NestingInv
<1>5. PICK l : /\ Levels(l, Append(script, c)) /\ l[Len(script) + 1] = curNs'
               /\ \A i \in 0..Len(script) : l[i] = levels[i]
  <2> DEFINE behind == curNs'
  <2>1. behind \in Seq(Texts) /\ Len(behind) > 0 /\ behind = Behind(c, levels[Len(script)])
    BY <1>4
  <2>2. c.op # "end" => c.ns = Last(levels[Len(script)]) BY <1>4
  <2>3. script \in Seq(Commands) BY DEF IndexInv, ParseInv
  <2> HIDE DEF behind
  <2>4. \E l : /\ Levels(l, Append(script, c)) /\ l[Len(script) + 1] = behind
               /\ \A i \in 0..Len(script) : l[i] = levels[i]
    BY <1>4, <2>1, <2>2, <2>3, LevelsExtended
  <2> QED BY <2>4 DEF behind
<1>6. NestingInv'
  <2>1. l[0] = levels[0] BY <1>2, <1>5
  <2>2. Levels(l, script') /\ curNs' = l[Len(script')] BY <1>1, <1>2, <1>5
  <2>3. at' - 1 = 0 /\ nsPath' = nsPath BY <1>1
  <2> QED BY <1>1, <1>4, <2>1, <2>2, <2>3 DEF NestingInv
<1>7. /\ namespaces' \in Trees /\ PathInv' /\ ProcsInv' /\ ReferencesInv' /\ AnswerInv'
  <2>1. Len(script) <= Len(script') BY <1>2
  <2> QED BY <1>1, <1>2, <2>1, TablesStay
<1> QED BY <1>3, <1>6, <1>7 DEF IndexInv

LEMMA VocabularyOfScript ==
    ASSUME IndexInv
    PROVE  /\ words.evals \subseteq Texts /\ words.procs \subseteq Texts
           /\ words.calls \subseteq Texts /\ words.params \subseteq ParameterLists
           /\ words.args \in Nat
<1>1. words \in Vocabularies BY DEF IndexInv, ParseInv
<1>2. /\ words.evals \cup words.procs \cup words.calls
             \subseteq Seq(Seq(STRING)) \ {<<>>}
      /\ words.params \subseteq Seq({"plain", "default", "args"})
      /\ words.args \in 0..MaxArgs
  BY <1>1, VocabularyAssumption
<1> QED BY <1>2, IndexBounds DEF Texts, Identifier, ParameterLists

LEMMA ParseStepInv == ASSUME IndexInv, ParseStep PROVE IndexInv'
<1>1. /\ curNs \in Seq(Texts) /\ Len(curNs) > 0 /\ Len(curNs) \in Nat
      /\ Last(curNs) \in Texts
  BY FrontAndLast DEF IndexInv, ParseInv
<1>2. <<>> \in ParameterLists /\ EmptyText \in Texts
  BY EmptySeq, EmptyTextIsText DEF ParameterLists
<1>3. ASSUME NEW t \in Texts
      PROVE  Append(curNs, t) \in Seq(Texts) /\ Len(Append(curNs, t)) > 0
  BY <1>1
<1>4. ASSUME NEW name \in words.calls, NEW args \in 0..words.args, ParseCall(name, args)
      PROVE  IndexInv'
  <2> DEFINE c == Command("call", name, <<>>, args)
  <2>1. name \in Texts /\ args \in Nat BY VocabularyOfScript
  <2>2. c \in Commands /\ c.op = "call" /\ c.ns = Last(curNs)
    BY <1>1, <1>2, <2>1 DEF Command, Commands
  <2>3. Parse(c) /\ curNs' = curNs BY <1>4 DEF ParseCall
  <2> HIDE DEF c
  <2>4. curNs' = Behind(c, curNs) BY <2>2, <2>3 DEF Behind
  <2> QED BY <1>1, <2>2, <2>3, <2>4, ParseOne
<1>5. ASSUME NEW name \in words.evals, ParseEval(name) PROVE IndexInv'
  <2> DEFINE c == Command("eval", name, <<>>, 2)
             ns == Path(AbsPath(SplitName(name), Last(curNs)))
  <2>1. name \in Texts BY VocabularyOfScript
  <2>2. ns \in Texts BY <1>1, <2>1, AbsPathIsText
  <2>3. c \in Commands /\ c.op = "eval" /\ c.ns = Last(curNs) /\ c.name = name
    BY <1>1, <1>2, <2>1 DEF Command, Commands
  <2>4. Parse(c) /\ curNs' = Append(curNs, ns) BY <1>5 DEF ParseEval
  <2>5. Append(curNs, ns) = Behind(c, curNs) BY <2>3 DEF Behind
  <2> HIDE DEF c, ns
  <2> QED BY <1>3, <2>2, <2>3, <2>4, <2>5, ParseOne
<1>6. ASSUME NEW name \in words.procs, NEW params \in words.params,
             ParseProc(name, params)
      PROVE  IndexInv'
  <2> DEFINE c == Command("proc", name, params, 3)
             ns == Namespace(AbsPath(SplitName(name), Last(curNs)))
  <2>1. name \in Texts /\ params \in ParameterLists BY VocabularyOfScript
  <2>2. ns \in Texts BY <1>1, <2>1, AbsPathIsText
  <2>3. c \in Commands /\ c.op = "proc" /\ c.ns = Last(curNs) /\ c.name = name
    BY <1>1, <1>2, <2>1 DEF Command, Commands
  <2>4. Parse(c) /\ curNs' = Append(curNs, ns) BY <1>6 DEF ParseProc
  <2>5. Append(curNs, ns) = Behind(c, curNs) BY <2>3 DEF Behind
  <2> HIDE DEF c, ns
  <2> QED BY <1>3, <2>2, <2>3, <2>4, <2>5, ParseOne
<1>7. CASE ParseBlock
  <2> DEFINE c == Command("block", EmptyText, <<>>, 0)
  <2>1. c \in Commands /\ c.op = "block" /\ c.ns = Last(curNs)
    BY <1>1, <1>2 DEF Command, Commands
  <2>2. Parse(c) /\ curNs' = Append(curNs, Last(curNs)) BY <1>7 DEF ParseBlock
  <2> HIDE DEF c
  <2>3. Append(curNs, Last(curNs)) = Behind(c, curNs) BY <2>1 DEF Behind
  <2> QED BY <1>1, <1>3, <2>1, <2>2, <2>3, ParseOne
<1>8. CASE ParseEnd
  <2>1. End \in Commands /\ End.op = "end" BY <1>2 DEF End, Commands
  <2>2. Parse(End) /\ curNs' = Front(curNs) /\ Len(curNs) > 1 BY <1>8 DEF ParseEnd
  <2>3. Front(curNs) \in Seq(Texts) /\ Len(Front(curNs)) > 0
    <3>1. Front(curNs) \in Seq(Texts) /\ Len(Front(curNs)) = Len(curNs) - 1
      BY <1>1, FrontAndLast
    <3> QED BY <1>1, <2>2, <3>1
  <2>4. Front(curNs) = Behind(End, curNs) BY <2>1 DEF Behind
  <2> QED BY <2>1, <2>2, <2>3, <2>4, ParseOne
<1>9. CASE ParsedAll
  <2>1. /\ phase = "parse" /\ phase' = "scan" /\ words' = words /\ at' = at /\ at = 1
        /\ curNs' = <<EmptyText>> /\ UNCHANGED <<nsPath, tables, answer>>
        /\ script' = script \o [i \in 1..(Len(curNs) - 1) |-> End]
    BY <1>9 DEF ParsedAll, IndexInv, ParseInv
  <2>2. PICK levels : /\ Levels(levels, script) /\ curNs = levels[Len(script)]
                      /\ Len(nsPath) = Len(levels[0])
    <3>1. at - 1 = 0 BY <2>1
    <3> QED BY <2>1, <3>1 DEF IndexInv, NestingInv
  <2>3. script \in Seq(Commands) /\ Len(script) \in Nat BY DEF IndexInv, ParseInv
  <2>4. /\ script' \in Seq(Commands)
        /\ \E l : Levels(l, script') /\ Len(l[Len(script')]) = 1
    BY <2>1, <2>2, <2>3, LevelsEnded
  <2>5. PICK l : Levels(l, script') /\ Len(l[Len(script')]) = 1 BY <2>4
  <2>6. Len(nsPath) = Len(l[0])
    BY <2>2, <2>5 DEF Levels
  <2>7. at' - 1 = 0 /\ nsPath' = nsPath BY <2>1
  <2>8. NestingInv' BY <2>1, <2>5, <2>6, <2>7 DEF NestingInv
  <2>9. Len(script') \in Nat /\ Len(script) <= Len(script')
    <3> DEFINE ends == [i \in 1..(Len(curNs) - 1) |-> End]
    <3>1. End \in Commands BY <1>2 DEF End, Commands
    <3>2. ends \in Seq(Commands) BY <1>1, <3>1
    <3>4. script' = script \o ends BY <2>1
    <3> HIDE DEF ends
    <3>3. Len(script \o ends) = Len(script) + Len(ends) /\ Len(ends) \in Nat
      BY <2>3, <3>2, JoinedLength
    <3> QED BY <2>3, <3>3, <3>4
  <2>10. ParseInv'
    <3>1. <<EmptyText>> \in Seq(Texts) /\ Len(<<EmptyText>>) = 1 BY <1>2
    <3> QED BY <2>1, <2>4, <2>9, <3>1 DEF IndexInv, ParseInv
  <2>11. /\ namespaces' \in Trees /\ PathInv' /\ ProcsInv' /\ ReferencesInv' /\ AnswerInv'
    BY <2>1, <2>4, <2>9, TablesStay
  <2> QED BY <2>8, <2>10, <2>11 DEF IndexInv
<1> QED BY <1>4, <1>5, <1>6, <1>7, <1>8, <1>9 DEF ParseStep

-----------------------------------------------------------------------------
(* The walks.                                                              *)

Opens == {"eval", "proc", "block"}

\* The depth behind a command, from that before it.
LEMMA DepthBehind ==
    ASSUME NEW levels, Levels(levels, script), script \in Seq(Commands),
           NEW i \in 1..Len(script)
    PROVE  /\ Len(levels[i - 1]) \in Nat /\ Len(levels[i]) \in Nat
           /\ Len(levels[i - 1]) > 0 /\ Len(levels[i]) > 0
           /\ script[i].op \in Opens => Len(levels[i]) = Len(levels[i - 1]) + 1
           /\ script[i].op = "end" => Len(levels[i]) = Len(levels[i - 1]) - 1
           /\ script[i].op = "call" => Len(levels[i]) = Len(levels[i - 1])
<1>1. i - 1 \in 0..Len(script) /\ i \in 0..Len(script) OBVIOUS
<1>2. script[i] \in Commands OBVIOUS
<1> DEFINE before == levels[i - 1]
           behind == levels[i]
           c == script[i]
<1>3. /\ before \in Seq(Texts) /\ behind \in Seq(Texts)
      /\ Len(before) > 0 /\ Len(behind) > 0 /\ behind = Behind(c, before)
  BY <1>1 DEF Levels
<1>4. c.name \in Texts BY <1>2 DEF Commands
<1> HIDE DEF before, behind, c
<1>5. Len(before) \in Nat /\ Len(behind) \in Nat /\ Last(before) \in Texts
  BY <1>3, FrontAndLast
<1>6. ASSUME NEW t PROVE Len(Append(before, t)) = Len(before) + 1
  BY <1>3, <1>5
<1>7. c.op \in Opens => Len(behind) = Len(before) + 1
  <2>1. CASE c.op = "eval"
    <3>1. behind = Append(before, Path(AbsPath(SplitName(c.name), Last(before))))
      BY <1>3, <2>1 DEF Behind
    <3> QED BY <1>6, <3>1
  <2>2. CASE c.op = "proc"
    <3>1. behind = Append(before, Namespace(AbsPath(SplitName(c.name), Last(before))))
      BY <1>3, <2>2 DEF Behind
    <3> QED BY <1>6, <3>1
  <2>3. CASE c.op = "block"
    <3>1. behind = Append(before, Last(before)) BY <1>3, <2>3 DEF Behind
    <3> QED BY <1>6, <3>1
  <2> QED BY <2>1, <2>2, <2>3 DEF Opens
<1>8. c.op = "end" => Len(behind) = Len(before) - 1
  <2>1. c.op = "end" => behind = Front(before) BY <1>3 DEF Behind
  <2>2. Len(Front(before)) = Len(before) - 1 BY <1>3, FrontAndLast
  <2> QED BY <2>1, <2>2
<1>9. c.op = "call" => Len(behind) = Len(before)
  BY <1>3 DEF Behind
<1> QED BY <1>3, <1>5, <1>7, <1>8, <1>9 DEF before, behind, c

LEMMA WalkOne ==
    ASSUME IndexInv, Walk, phase \in {"scan", "index"}, at \in 1..Len(script),
           Len(nsPath') \in Nat,
           /\ script[at].op \in Opens => Len(nsPath') = Len(nsPath) + 1
           /\ script[at].op = "end" => Len(nsPath') = Len(nsPath) - 1
           /\ script[at].op = "call" => Len(nsPath') = Len(nsPath),
           namespaces' \in Trees, PathInv', ProcsInv', ReferencesInv'
    PROVE  IndexInv'
<1>1. /\ at' = at + 1 /\ words' = words /\ script' = script /\ phase' = phase
      /\ curNs' = curNs /\ answer' = answer
  BY DEF Walk
<1>2. script \in Seq(Commands) /\ Len(script) \in Nat
  BY DEF IndexInv, ParseInv
<1>3. ParseInv'
  BY <1>1, <1>2 DEF IndexInv, ParseInv
<1>4. NestingInv'
  <2>1. PICK levels : /\ Levels(levels, script) /\ Len(levels[Len(script)]) = 1
                      /\ Len(nsPath) = Len(levels[at - 1])
    BY DEF IndexInv, NestingInv
  <2>2. script[at].op \in Opens \/ script[at].op = "end" \/ script[at].op = "call"
    <3>1. script[at] \in Commands BY <1>2
    <3> QED BY <3>1 DEF Commands, Opens
  <2>3. Len(nsPath') = Len(levels[at]) BY <1>2, <2>1, <2>2, DepthBehind
  <2>4. at' - 1 = at BY <1>1
  <2> QED BY <1>1, <2>1, <2>3, <2>4 DEF NestingInv
<1>5. AnswerInv' BY <1>1 DEF IndexInv, AnswerInv
<1> QED BY <1>3, <1>4, <1>5 DEF IndexInv

LEMMA PathEnters ==
    ASSUME IndexInv, namespaces' \in Trees, Grown(namespaces, namespaces'),
           NEW id \in 1..Len(namespaces'), Enter(id)
    PROVE  PathInv' /\ Len(nsPath') = Len(nsPath) + 1 /\ Len(nsPath') \in Nat
<1>1. /\ nsPath \in Seq(1..Len(namespaces)) /\ Len(nsPath) > 0 /\ nsPath[1] = Global
      /\ Len(nsPath) \in Nat
  BY DEF IndexInv, PathInv
<1>2. 1..Len(namespaces) \subseteq 1..Len(namespaces')
  <2>1. Len(namespaces) \in Nat /\ Len(namespaces') \in Nat
    BY RowsOfTree DEF IndexInv
  <2> QED BY <2>1 DEF Grown
<1>3. nsPath \in Seq(1..Len(namespaces')) BY <1>1, <1>2, SeqMonotonic
<1>4. nsPath' = Append(nsPath, id) BY DEF Enter
<1>5. /\ nsPath' \in Seq(1..Len(namespaces')) /\ Len(nsPath') = Len(nsPath) + 1
      /\ nsPath'[1] = Global
  BY <1>1, <1>3, <1>4
<1> QED BY <1>1, <1>5 DEF PathInv

LEMMA HereIsPlace ==
    ASSUME IndexInv
    PROVE  /\ namespaces \in Trees /\ Here \in 1..Len(namespaces)
           /\ Len(nsPath) \in Nat
<1>1. nsPath \in Seq(1..Len(namespaces)) /\ Len(nsPath) > 0
  BY DEF IndexInv, PathInv
<1> QED BY <1>1, FrontAndLast DEF IndexInv, Here

LEMMA CommandAt ==
    ASSUME IndexInv, NEW i \in 1..Len(script)
    PROVE  /\ script[i] \in Commands
           /\ script[i].name \in Texts /\ script[i].ns \in Texts
           /\ SplitName(script[i].name) \in QualifiedNames
           /\ NamespaceParts(SplitName(script[i].name)) \in Seq(Identifier)
           /\ NamespaceParts(EvalName(script[i].name)) \in Seq(Identifier)
           /\ Parts(SplitName(script[i].ns)) \in Seq(Identifier)
           /\ script[i].params \in ParameterLists
<1>1. script[i] \in Commands BY DEF IndexInv, ParseInv
<1>2. /\ script[i].name \in Texts /\ script[i].ns \in Texts
      /\ script[i].params \in ParameterLists
  BY <1>1 DEF Commands
<1>3. /\ SplitName(script[i].name) \in QualifiedNames
      /\ SplitName(script[i].ns) \in QualifiedNames
  BY <1>2, SplitNameIsQualified
<1>4. EvalName(script[i].name) \in QualifiedNames
  BY <1>2, EmptyTextIsText DEF EvalName, QualifiedNames, Texts
<1> QED BY <1>1, <1>2, <1>3, <1>4, PartsOfName

LEMMA GrownKeepsProcs ==
    ASSUME IndexInv, namespaces' \in Trees, Grown(namespaces, namespaces'),
           procs' = procs
    PROVE  ProcsInv'
<1>1. 1..Len(namespaces) \subseteq 1..Len(namespaces')
  <2>1. Len(namespaces) \in Nat /\ Len(namespaces') \in Nat
    BY RowsOfTree DEF IndexInv
  <2> QED BY <2>1 DEF Grown
<1> QED BY <1>1 DEF IndexInv, ProcsInv

LEMMA SameReferences ==
    ASSUME IndexInv, procs' = procs, references' = references, script' = script
    PROVE  ReferencesInv'
BY DEF IndexInv, ReferencesInv

LEMMA OneMoreReference ==
    ASSUME IndexInv, script' = script, at \in 1..Len(script),
           Len(procs') \in Nat, Len(procs) <= Len(procs'),
           NEW id \in 1..Len(procs'), NEW type \in {"DEFINITION", "USAGE"},
           AddReference(id, type)
    PROVE  ReferencesInv'
<1> DEFINE row == [location |-> at, id |-> id, type |-> type]
<1>1. /\ references \in Seq(ReferenceRows) /\ Len(references) \in Nat
      /\ Len(procs) \in Nat
      /\ \A i \in 1..Len(references) : /\ references[i].id \in 1..Len(procs)
                                       /\ references[i].location \in 1..Len(script)
  BY DEF IndexInv, ReferencesInv, ProcsInv
<1>2. row \in ReferenceRows /\ row.id = id /\ row.location = at
  BY DEF ReferenceRows
<1>3. references' = Append(references, row) BY DEF AddReference, NewReference
<1> HIDE DEF row
<1>4. /\ references' \in Seq(ReferenceRows) /\ Len(references') = Len(references) + 1
      /\ \A i \in 1..Len(references) : references'[i] = references[i]
      /\ references'[Len(references) + 1] = row
  BY <1>1, <1>2, <1>3
<1>5. ASSUME NEW i \in 1..Len(references')
      PROVE  /\ references'[i].id \in 1..Len(procs')
             /\ references'[i].location \in 1..Len(script')
  <2>1. CASE i \in 1..Len(references)
    <3>1. references'[i] = references[i] BY <1>4, <2>1
    <3>2. references[i].id \in 1..Len(procs') BY <1>1, <2>1
    <3> QED BY <1>1, <2>1, <3>1, <3>2
  <2>2. CASE i = Len(references) + 1 BY <1>2, <1>4, <2>2
  <2>3. i \in 1..Len(references) \/ i = Len(references) + 1 BY <1>1, <1>4
  <2> QED BY <2>1, <2>2, <2>3
<1> QED BY <1>4, <1>5 DEF ReferencesInv

\* Both walks: a namespace, a block and an end.
LEMMA EvalInv ==
    ASSUME IndexInv, NEW walk \in {"scan", "index"}, EvalNamespace(walk)
    PROVE  IndexInv'
<1> DEFINE target == ResolveNamespace(namespaces, EvalName(script[at].name), Here)
<1>1. /\ phase = walk /\ at \in 1..Len(script) /\ script[at].op = "eval"
      /\ Walk /\ Enter(target.id) /\ namespaces' = target.table
      /\ procs' = procs /\ references' = references /\ script' = script
  BY DEF EvalNamespace, At, Walk, IndexInv, ParseInv
<1>2. target \in Places /\ Grown(namespaces, target.table)
  BY <1>1, HereIsPlace, CommandAt, ResolveLeads
<1> HIDE DEF target
<1>3. /\ namespaces' \in Trees /\ Grown(namespaces, namespaces')
      /\ target.id \in 1..Len(namespaces')
  BY <1>1, <1>2 DEF Places
<1>4. PathInv' /\ Len(nsPath') = Len(nsPath) + 1 /\ Len(nsPath') \in Nat
  BY <1>1, <1>3, PathEnters
<1>5. ProcsInv' /\ ReferencesInv' BY <1>1, <1>3, GrownKeepsProcs, SameReferences
<1>6. phase \in {"scan", "index"} BY <1>1
<1> QED BY <1>1, <1>3, <1>4, <1>5, <1>6, WalkOne

LEMMA BlockInv ==
    ASSUME IndexInv, NEW walk \in {"scan", "index"}, EnterBlock(walk)
    PROVE  IndexInv'
<1>1. /\ phase = walk /\ at \in 1..Len(script) /\ script[at].op = "block"
      /\ Walk /\ Enter(Here) /\ namespaces' = namespaces
      /\ procs' = procs /\ references' = references /\ script' = script
  BY DEF EnterBlock, At, Walk, tables, IndexInv, ParseInv
<1>2. /\ namespaces' \in Trees /\ Grown(namespaces, namespaces')
      /\ Here \in 1..Len(namespaces')
  BY <1>1, HereIsPlace, GrownReflexive
<1>3. PathInv' /\ Len(nsPath') = Len(nsPath) + 1 /\ Len(nsPath') \in Nat
  BY <1>1, <1>2, PathEnters
<1>4. ProcsInv' /\ ReferencesInv' BY <1>1, <1>2, GrownKeepsProcs, SameReferences
<1>5. phase \in {"scan", "index"} BY <1>1
<1> QED BY <1>1, <1>2, <1>3, <1>4, <1>5, WalkOne

LEMMA LeaveInv ==
    ASSUME IndexInv, NEW walk \in {"scan", "index"}, Leave(walk)
    PROVE  IndexInv'
<1>1. /\ phase = walk /\ at \in 1..Len(script) /\ script[at].op = "end"
      /\ Walk /\ nsPath' = Front(nsPath) /\ namespaces' = namespaces
      /\ procs' = procs /\ references' = references /\ script' = script
  BY DEF Leave, At, Walk, tables, IndexInv, ParseInv
<1>2. /\ nsPath \in Seq(1..Len(namespaces)) /\ Len(nsPath) > 0 /\ nsPath[1] = Global
      /\ script \in Seq(Commands)
  BY DEF IndexInv, PathInv, ParseInv
<1>3. Len(nsPath) \in Nat /\ Len(nsPath) > 1
  <2>1. PICK levels : /\ Levels(levels, script) /\ Len(nsPath) = Len(levels[at - 1])
    BY DEF IndexInv, NestingInv
  <2>2. /\ Len(levels[at]) \in Nat /\ Len(levels[at]) > 0
        /\ Len(levels[at]) = Len(levels[at - 1]) - 1 /\ Len(levels[at - 1]) \in Nat
    BY <1>1, <1>2, <2>1, DepthBehind
  <2> QED BY <2>1, <2>2
<1>4. /\ nsPath' \in Seq(1..Len(namespaces)) /\ Len(nsPath') = Len(nsPath) - 1
      /\ \A i \in 1..(Len(nsPath) - 1) : nsPath'[i] = nsPath[i]
  BY <1>1, <1>2, FrontAndLast
<1>5. PathInv'
  <2>1. 1 \in 1..(Len(nsPath) - 1) /\ Len(nsPath') > 0 BY <1>3, <1>4
  <2> QED BY <1>1, <1>2, <1>4, <2>1 DEF PathInv
<1>6. Len(nsPath') = Len(nsPath) - 1 /\ Len(nsPath') \in Nat BY <1>3, <1>4
<1>7. namespaces' \in Trees /\ Grown(namespaces, namespaces')
  BY <1>1, HereIsPlace, GrownReflexive
<1>8. ProcsInv' /\ ReferencesInv' BY <1>1, <1>7, GrownKeepsProcs, SameReferences
<1>9. phase \in {"scan", "index"} BY <1>1
<1> QED BY <1>1, <1>5, <1>6, <1>7, <1>8, <1>9, WalkOne DEF Opens

\* A row of a namespace may list one more proc.
LEMMA OneMoreProc ==
    ASSUME NEW t \in Trees, NEW id \in 1..Len(t),
           NEW u, u = [t EXCEPT ![id].procs = Append(@, 0)]
    PROVE  u \in Trees /\ Len(u) = Len(t) /\ Grown(t, u)
<1>1. /\ t \in Seq(Row) /\ Len(t) \in Nat /\ Len(t) > 0 /\ Tree(t)
      /\ Global \in 1..Len(t)
      /\ \A n \in 1..Len(t) : t[n] \in Row
  BY RowsOfTree DEF Trees
<1> DEFINE row == [t[id] EXCEPT !.procs = Append(@, 0)]
<1>2. t[id].procs \in Seq({0}) BY <1>1 DEF Row
<1>3. Append(t[id].procs, 0) \in Seq({0}) BY <1>2
<1>4. /\ row \in Row /\ row.name = t[id].name /\ row.parent = t[id].parent
      /\ row.children = t[id].children
  BY <1>1, <1>3 DEF Row
<1>5. u = [t EXCEPT ![id] = row] OBVIOUS
<1> HIDE DEF row
<1>6. /\ u \in Seq(Row) /\ Len(u) = Len(t)
      /\ \A n \in 1..Len(t) : u[n] = IF n = id THEN row ELSE t[n]
  <2> DEFINE v == [t EXCEPT ![id] = row]
  <2>1. /\ v \in Seq(Row) /\ Len(v) = Len(t)
        /\ \A n \in 1..Len(t) : v[n] = IF n = id THEN row ELSE t[n]
    BY <1>1, <1>4, ExceptSeq
  <2> HIDE DEF v
  <2>2. u = v BY <1>5 DEF v
  <2> QED BY <2>1, <2>2
<1>7. \A n \in 1..Len(t) : /\ u[n].name = t[n].name /\ u[n].parent = t[n].parent
                           /\ u[n].children = t[n].children
  BY <1>4, <1>6
<1>8. u[Global].parent = 0 BY <1>1, <1>7 DEF Tree
<1>9. ASSUME NEW n \in 2..Len(u)
      PROVE  u[n].parent \in 1..(n - 1) /\ n \in ToSet(u[u[n].parent].children)
  <2>1. t[n].parent \in 1..(n - 1) /\ n \in ToSet(t[t[n].parent].children)
    BY <1>1, <1>6 DEF Tree
  <2>2. n \in 1..Len(t) /\ t[n].parent \in 1..Len(t) BY <1>1, <1>6, <2>1
  <2> QED BY <1>7, <2>1, <2>2
<1>10. ASSUME NEW n \in 1..Len(u),
              NEW i \in 1..Len(u[n].children), NEW j \in 1..Len(u[n].children)
       PROVE  /\ u[n].children[i] \in 1..Len(u) /\ u[u[n].children[i]].parent = n
              /\ i # j => u[u[n].children[i]].name # u[u[n].children[j]].name
  <2>1. n \in 1..Len(t) /\ u[n].children = t[n].children BY <1>6, <1>7
  <2>2. i \in 1..Len(t[n].children) /\ j \in 1..Len(t[n].children) BY <2>1
  <2>3. /\ t[n].children[i] \in 1..Len(t) /\ t[n].children[j] \in 1..Len(t)
        /\ t[t[n].children[i]].parent = n
        /\ i # j => t[t[n].children[i]].name # t[t[n].children[j]].name
    BY <2>1, <2>2, ChildrenOfTree
  <2> QED BY <1>6, <1>7, <2>1, <2>3
<1>11. Tree(u)
  <2>1. \A n \in 2..Len(u) :
           u[n].parent \in 1..(n - 1) /\ n \in ToSet(u[u[n].parent].children)
    BY <1>9
  <2>2. \A n \in 1..Len(u) : \A i, j \in 1..Len(u[n].children) :
           /\ u[n].children[i] \in 1..Len(u) /\ u[u[n].children[i]].parent = n
           /\ i # j => u[u[n].children[i]].name # u[u[n].children[j]].name
    BY <1>10
  <2> QED BY <1>8, <2>1, <2>2 DEF Tree
<1>12. u \in Trees BY <1>1, <1>6, <1>11 DEF Trees
<1>13. Grown(t, u) BY <1>1, <1>6, <1>7 DEF Grown
<1> QED BY <1>6, <1>12, <1>13

LEMMA ScanProcInv == ASSUME IndexInv, ScanProc PROVE IndexInv'
<1> DEFINE qn == SplitName(script[at].name)
           target == IF HasNamespace(qn) THEN ResolveNamespace(namespaces, qn, Here)
                     ELSE [table |-> namespaces, id |-> Here]
           row == NewProc(qn.name, target.id, script[at].params)
<1>1. /\ phase = "scan" /\ at \in 1..Len(script) /\ script[at].op = "proc"
      /\ Walk /\ Enter(Here) /\ script' = script
      /\ namespaces' = [target.table EXCEPT ![target.id].procs = Append(@, 0)]
      /\ procs' = Append(procs, row) /\ AddReference(Len(procs) + 1, "DEFINITION")
  <2>1. At("scan", "proc") /\ Walk /\ Enter(Here) BY DEF ScanProc
  <2>2. /\ namespaces' = [target.table EXCEPT ![target.id].procs = Append(@, 0)]
        /\ procs' = Append(procs, row) /\ AddReference(Len(procs) + 1, "DEFINITION")
    BY DEF ScanProc, Insert, NextId
  <2>3. at \in 1..(Len(script) + 1) /\ Len(script) \in Nat
    BY DEF IndexInv, ParseInv
  <2>4. phase = "scan" /\ at <= Len(script) /\ script[at].op = "proc" /\ script' = script
    BY <2>1 DEF At, Walk
  <2>5. at \in 1..Len(script) BY <2>3, <2>4
  <2> HIDE DEF row, target
  <2> QED BY <2>1, <2>2, <2>4, <2>5
<1>2. /\ qn \in QualifiedNames /\ NamespaceParts(qn) \in Seq(Identifier)
      /\ script[at].params \in ParameterLists
  BY <1>1, CommandAt
<1>3. /\ namespaces \in Trees /\ Here \in 1..Len(namespaces) BY HereIsPlace
<1>4. target \in Places /\ Grown(namespaces, target.table)
  <2>1. CASE HasNamespace(qn) BY <1>2, <1>3, <2>1, ResolveLeads
  <2>2. CASE ~HasNamespace(qn)
    <3>1. Here \in Nat BY <1>3, RowsOfTree
    <3> QED BY <1>3, <2>2, <3>1, GrownReflexive DEF Places
  <2> QED BY <2>1, <2>2
<1> HIDE DEF target
<1>5. /\ target.table \in Trees /\ target.id \in 1..Len(target.table) /\ target.id \in Nat
  BY <1>4 DEF Places
<1>6. /\ namespaces' \in Trees /\ Len(namespaces') = Len(target.table)
      /\ Grown(target.table, namespaces')
  BY <1>1, <1>5, OneMoreProc
<1>7. Grown(namespaces, namespaces')
  BY <1>3, <1>4, <1>5, <1>6, GrownTransitive
<1>8. /\ Len(namespaces) \in Nat /\ Len(namespaces') \in Nat
      /\ Len(namespaces) <= Len(namespaces')
  BY <1>3, <1>6, <1>7, RowsOfTree DEF Grown
<1>9. PathInv' /\ Len(nsPath') = Len(nsPath) + 1 /\ Len(nsPath') \in Nat
  <2>1. Here \in 1..Len(namespaces') BY <1>3, <1>8
  <2> QED BY <1>1, <1>6, <1>7, <2>1, PathEnters
<1>10. row \in ProcRows /\ row.parent = target.id
  <2>1. qn.name \in Identifier BY <1>2 DEF QualifiedNames
  <2>2. row \in ProcRows BY <1>2, <1>5, <2>1, NewProcIsRow
  <2> QED BY <2>2 DEF NewProc
<1> HIDE DEF row, qn
<1>11. /\ procs \in Seq(ProcRows) /\ Len(procs) \in Nat
       /\ \A p \in 1..Len(procs) : procs[p].parent \in 1..Len(namespaces)
  BY DEF IndexInv, ProcsInv
<1>12. /\ procs' \in Seq(ProcRows) /\ Len(procs') = Len(procs) + 1
       /\ \A p \in 1..Len(procs) : procs'[p] = procs[p]
       /\ procs'[Len(procs) + 1] = row
  BY <1>1, <1>10, <1>11
<1>13. ProcsInv'
  <2>1. ASSUME NEW p \in 1..Len(procs') PROVE procs'[p].parent \in 1..Len(namespaces')
    <3>1. CASE p \in 1..Len(procs)
      <4>1. procs[p].parent \in 1..Len(namespaces) BY <1>11, <3>1
      <4> QED BY <1>8, <1>12, <3>1, <4>1
    <3>2. CASE p = Len(procs) + 1 BY <1>5, <1>6, <1>10, <1>12, <3>2
    <3>3. p \in 1..Len(procs) \/ p = Len(procs) + 1 BY <1>11, <1>12
    <3> QED BY <3>1, <3>2, <3>3
  <2> QED BY <1>12, <2>1 DEF ProcsInv
<1>14. ReferencesInv'
  <2>1. /\ Len(procs') \in Nat /\ Len(procs) <= Len(procs')
        /\ Len(procs) + 1 \in 1..Len(procs')
    BY <1>11, <1>12
  <2> QED BY <1>1, <2>1, OneMoreReference
<1>15. script[at].op \in Opens BY <1>1 DEF Opens
<1> QED BY <1>1, <1>6, <1>9, <1>13, <1>14, <1>15, WalkOne

LEMMA IndexProcInv == ASSUME IndexInv, IndexProc PROVE IndexInv'
<1> DEFINE target == ResolveNamespace(namespaces, SplitName(script[at].name), Here)
<1>1. /\ phase = "index" /\ at \in 1..Len(script) /\ script[at].op = "proc"
      /\ Walk /\ Enter(target.id) /\ namespaces' = target.table
      /\ procs' = procs /\ references' = references /\ script' = script
  BY DEF IndexProc, At, Walk, IndexInv, ParseInv
<1>2. target \in Places /\ Grown(namespaces, target.table)
  BY <1>1, HereIsPlace, CommandAt, ResolveLeads
<1> HIDE DEF target
<1>3. /\ namespaces' \in Trees /\ Grown(namespaces, namespaces')
      /\ target.id \in 1..Len(namespaces')
  BY <1>1, <1>2 DEF Places
<1>4. PathInv' /\ Len(nsPath') = Len(nsPath) + 1 /\ Len(nsPath') \in Nat
  BY <1>1, <1>3, PathEnters
<1>5. ProcsInv' /\ ReferencesInv' BY <1>1, <1>3, GrownKeepsProcs, SameReferences
<1> QED BY <1>1, <1>3, <1>4, <1>5, WalkOne

LEMMA CallFinds ==
    ASSUME IndexInv, NEW id \in 1..Len(namespaces), NEW i \in 1..Len(script), NEW args,
           NEW lookup, lookup = FindProc(namespaces, procs, id, script[i].name),
           NEW best, best = BestFitProcToCall(procs, lookup.found, args)
    PROVE  /\ lookup.table \in Trees /\ Grown(namespaces, lookup.table)
           /\ best = 0 \/ best \in 1..Len(procs)
<1>1. namespaces \in Trees /\ Len(procs) \in Nat BY DEF IndexInv, ProcsInv
<1>2. NamespaceParts(SplitName(script[i].name)) \in Seq(Identifier)
  BY CommandAt
<1>3. /\ lookup.table \in Trees /\ Grown(namespaces, lookup.table)
      /\ lookup.found \in SUBSET (1..Len(procs))
  BY <1>1, <1>2, FindProcLeads
<1>4. best = 0 \/ best \in lookup.found
  BY <1>1, <1>3, BestFitIsFound
<1> QED BY <1>3, <1>4

LEMMA IndexCallInv == ASSUME IndexInv, IndexCall PROVE IndexInv'
<1> DEFINE lookup == FindProc(namespaces, procs, Here, script[at].name)
           best == BestFitProcToCall(procs, lookup.found, script[at].args)
<1>1. /\ phase = "index" /\ at \in 1..Len(script) /\ script[at].op = "call"
      /\ Walk /\ script' = script /\ namespaces' = lookup.table
      /\ IF best = 0 THEN references' = references ELSE AddReference(best, "USAGE")
      /\ nsPath' = nsPath /\ procs' = procs
  <2>1. At("index", "call") /\ Walk BY DEF IndexCall
  <2>2. /\ namespaces' = lookup.table
        /\ IF best = 0 THEN references' = references ELSE AddReference(best, "USAGE")
        /\ nsPath' = nsPath /\ procs' = procs
    BY DEF IndexCall
  <2>3. at \in 1..(Len(script) + 1) /\ Len(script) \in Nat
    BY DEF IndexInv, ParseInv
  <2>4. phase = "index" /\ at <= Len(script) /\ script[at].op = "call" /\ script' = script
    BY <2>1 DEF At, Walk
  <2>5. at \in 1..Len(script) BY <2>3, <2>4
  <2> HIDE DEF lookup, best
  <2> QED BY <2>1, <2>2, <2>4, <2>5
<1>2. /\ lookup.table \in Trees /\ Grown(namespaces, lookup.table)
      /\ best = 0 \/ best \in 1..Len(procs)
  BY <1>1, HereIsPlace, CallFinds
<1> HIDE DEF lookup, best
<1>3. namespaces' \in Trees /\ Grown(namespaces, namespaces') BY <1>1, <1>2
<1>4. PathInv'
  <2>1. 1..Len(namespaces) \subseteq 1..Len(namespaces')
    <3>1. Len(namespaces) \in Nat /\ Len(namespaces') \in Nat
      BY <1>3, RowsOfTree DEF IndexInv
    <3> QED BY <1>3, <3>1 DEF Grown
  <2>2. nsPath \in Seq(1..Len(namespaces)) /\ Len(nsPath) > 0 /\ nsPath[1] = Global
    BY DEF IndexInv, PathInv
  <2>3. nsPath \in Seq(1..Len(namespaces')) BY <2>1, <2>2, SeqMonotonic
  <2> QED BY <1>1, <2>2, <2>3 DEF PathInv
<1>5. ProcsInv' BY <1>1, <1>3, GrownKeepsProcs
<1>6. ReferencesInv'
  <2>1. CASE best = 0 BY <1>1, <2>1, SameReferences
  <2>2. CASE best # 0
    <3>1. Len(procs) \in Nat BY DEF IndexInv, ProcsInv
    <3>2. best \in 1..Len(procs') /\ AddReference(best, "USAGE") BY <1>1, <1>2, <2>2
    <3>3. Len(procs') \in Nat /\ Len(procs) <= Len(procs') BY <1>1, <3>1
    <3> QED BY <1>1, <3>2, <3>3, OneMoreReference
  <2> QED BY <2>1, <2>2
<1>7. Len(nsPath') = Len(nsPath) /\ Len(nsPath') \in Nat BY <1>1, HereIsPlace
<1> QED BY <1>1, <1>3, <1>4, <1>5, <1>6, <1>7, WalkOne DEF Opens

LEMMA ScanCallInv == ASSUME IndexInv, ScanCall PROVE IndexInv'
<1>1. /\ phase = "scan" /\ at \in 1..Len(script) /\ script[at].op = "call"
      /\ Walk /\ script' = script /\ nsPath' = nsPath /\ namespaces' = namespaces
      /\ procs' = procs /\ references' = references
  BY DEF ScanCall, At, Walk, tables, IndexInv, ParseInv
<1>2. namespaces' \in Trees /\ PathInv' /\ ProcsInv' /\ ReferencesInv'
  BY <1>1 DEF IndexInv, PathInv, ProcsInv, ReferencesInv
<1>3. Len(nsPath') = Len(nsPath) /\ Len(nsPath') \in Nat BY <1>1, HereIsPlace
<1> QED BY <1>1, <1>2, <1>3, WalkOne DEF Opens

\* A walk is over, and the next begins at the first command.
LEMMA WalkedInv ==
    ASSUME IndexInv, phase \in {"scan", "index"}, at > Len(script),
           phase' \in {"index", "ready"}, at' \in {1, at},
           phase' = "ready" => at' = at,
           UNCHANGED <<words, script, curNs, nsPath, tables, answer>>
    PROVE  IndexInv'
<1>1. at = Len(script) + 1 /\ Len(script) \in Nat /\ script \in Seq(Commands)
  BY DEF IndexInv, ParseInv
<1>2. /\ script' = script /\ words' = words /\ curNs' = curNs /\ nsPath' = nsPath
      /\ UNCHANGED <<nsPath, tables, answer>>
  OBVIOUS
<1>3. ParseInv'
  BY <1>1, <1>2 DEF IndexInv, ParseInv
<1>4. NestingInv'
  <2>1. PICK levels : /\ Levels(levels, script) /\ Len(levels[Len(script)]) = 1
                      /\ Len(nsPath) = Len(levels[at - 1])
    BY DEF IndexInv, NestingInv
  <2>2. Len(levels[0]) = 1
    <3>1. levels[0] = <<EmptyText>> BY <2>1 DEF Levels
    <3> QED BY <3>1
  <2>3. at - 1 = Len(script) BY <1>1
  <2>4. Len(nsPath') = Len(levels[at' - 1])
    <3>1. CASE at' = 1
      <4>1. at' - 1 = 0 BY <3>1
      <4> QED BY <1>2, <2>1, <2>2, <2>3, <4>1
    <3>2. CASE at' = at BY <1>2, <2>1, <3>2
    <3> QED BY <3>1, <3>2
  <2> QED BY <1>2, <2>1, <2>4 DEF NestingInv
<1>5. /\ namespaces' \in Trees /\ PathInv' /\ ProcsInv' /\ ReferencesInv' /\ AnswerInv'
  BY <1>1, <1>2, TablesStay
<1> QED BY <1>3, <1>4, <1>5 DEF IndexInv

LEMMA WalkStepInv == ASSUME IndexInv, ScanStep \/ IndexStep PROVE IndexInv'
<1>1. CASE ScannedAll
  BY <1>1, WalkedInv DEF ScannedAll
<1>2. CASE IndexedAll
  BY <1>2, WalkedInv DEF IndexedAll
<1> QED
  BY <1>1, <1>2, EvalInv, BlockInv, LeaveInv, ScanProcInv, ScanCallInv,
     IndexProcInv, IndexCallInv
  DEF ScanStep, IndexStep

-----------------------------------------------------------------------------
(* Requests.                                                               *)

\* Whatever text is looked up, namespaces are added at most.
LEMMA AskGrows ==
    ASSUME IndexInv, NEW i \in 1..Len(script), NEW text \in Texts, NEW args, NEW types,
           Ask(i, text, args, types)
    PROVE  /\ phase = "ready" /\ phase' = "ready" /\ words' = words /\ script' = script
           /\ at' = at /\ curNs' = curNs /\ nsPath' = nsPath /\ procs' = procs
           /\ references' = references
           /\ namespaces' \in Trees /\ Grown(namespaces, namespaces')
<1> DEFINE ns == FindNamespace(namespaces, script[i].ns)
           lookup == IF ns = 0 THEN [table |-> namespaces, found |-> {}]
                     ELSE FindProc(namespaces, procs, ns, text)
<1>1. /\ phase = "ready" /\ namespaces' = lookup.table
      /\ words' = words /\ script' = script /\ phase' = phase /\ at' = at
      /\ curNs' = curNs /\ nsPath' = nsPath /\ procs' = procs
      /\ references' = references
  BY DEF Ask
<1>2. namespaces \in Trees BY DEF IndexInv
<1>3. ns \in 0..Len(namespaces) BY <1>2, CommandAt, FindNamespaceLeads
<1>4. lookup.table \in Trees /\ Grown(namespaces, lookup.table)
  <2>1. CASE ns = 0 BY <1>2, <2>1, GrownReflexive
  <2>2. CASE ns # 0
    <3>1. ns \in 1..Len(namespaces) BY <1>2, <1>3, <2>2, RowsOfTree
    <3>2. lookup = FindProc(namespaces, procs, ns, text) BY <2>2
    <3>3. NamespaceParts(SplitName(text)) \in Seq(Identifier)
      BY SplitNameIsQualified, PartsOfName
    <3> QED BY <1>2, <3>1, <3>2, <3>3, FindProcLeads
  <2> QED BY <2>1, <2>2
<1> HIDE DEF lookup, ns
<1> QED BY <1>1, <1>4

\* The locations that are answered are those of references.
LEMMA AskAnswers ==
    ASSUME IndexInv, NEW i \in 1..Len(script), NEW text, NEW args,
           NEW types \in SUBSET {"DEFINITION", "USAGE"}, Ask(i, text, args, types)
    PROVE  /\ answer' \in [of : Nat, types : SUBSET {"DEFINITION", "USAGE"},
                            locations : SUBSET Nat]
           /\ answer'.locations \subseteq 1..Len(script)
<1>1. PICK best : answer' = [of |-> IF WasIndexed(i, text, args) THEN i ELSE 0,
                             types |-> types,
                             locations |-> {r.location : r \in ReferencesTo(best, types)}]
  BY DEF Ask
<1> DEFINE of == IF WasIndexed(i, text, args) THEN i ELSE 0
           places == {r.location : r \in ReferencesTo(best, types)}
<1>2. ASSUME NEW r \in ToSet(references) PROVE r.location \in 1..Len(script)
  <2>1. references \in Seq(ReferenceRows) BY DEF IndexInv, ReferencesInv
  <2>2. PICK k \in 1..Len(references) : r = references[k] BY <2>1 DEF ToSet
  <2> QED BY <2>2 DEF IndexInv, ReferencesInv
<1>3. places \subseteq 1..Len(script) BY <1>2 DEF ReferencesTo
<1>4. of \in Nat OBVIOUS
<1>5. 1..Len(script) \subseteq Nat OBVIOUS
<1>6. answer' = [of |-> of, types |-> types, locations |-> places] BY <1>1
<1> HIDE DEF of, places
<1> QED BY <1>3, <1>4, <1>5, <1>6

LEMMA AskInv ==
    ASSUME IndexInv, NEW i \in 1..Len(script), NEW text \in Texts, NEW args,
           NEW types \in SUBSET {"DEFINITION", "USAGE"}, Ask(i, text, args, types)
    PROVE  IndexInv'
<1>1. /\ phase = "ready" /\ phase' = "ready" /\ words' = words /\ script' = script
      /\ at' = at /\ curNs' = curNs /\ nsPath' = nsPath /\ procs' = procs
      /\ references' = references
      /\ namespaces' \in Trees /\ Grown(namespaces, namespaces')
  BY AskGrows
<1>2. ParseInv' /\ NestingInv'
  BY <1>1 DEF IndexInv, ParseInv, NestingInv
<1>3. PathInv'
  <2>1. 1..Len(namespaces) \subseteq 1..Len(namespaces')
    <3>1. Len(namespaces) \in Nat /\ Len(namespaces') \in Nat
      BY <1>1, RowsOfTree DEF IndexInv
    <3> QED BY <1>1, <3>1 DEF Grown
  <2>2. nsPath \in Seq(1..Len(namespaces)) /\ Len(nsPath) > 0 /\ nsPath[1] = Global
    BY DEF IndexInv, PathInv
  <2>3. nsPath \in Seq(1..Len(namespaces')) BY <2>1, <2>2, SeqMonotonic
  <2> QED BY <1>1, <2>2, <2>3 DEF PathInv
<1>4. ProcsInv' BY <1>1, GrownKeepsProcs
<1>5. ReferencesInv' BY <1>1, SameReferences
<1>6. AnswerInv' BY <1>1, AskAnswers DEF AnswerInv
<1> QED BY <1>1, <1>2, <1>3, <1>4, <1>5, <1>6 DEF IndexInv

LEMMA RequestInv == ASSUME IndexInv, AskReferences \/ AskDefinition PROVE IndexInv'
<1>1. PICK types \in SUBSET {"DEFINITION", "USAGE"} : AskFor(types)
  BY DEF AskReferences, AskDefinition
<1>2. PICK i \in 1..Len(script), text \in words.calls, args \in 0..words.args :
         Ask(i, text, args, types)
  BY <1>1 DEF AskFor
<1>3. text \in Texts BY VocabularyOfScript
<1> QED BY <1>2, <1>3, AskInv

LEMMA IndexNext == IndexInv /\ [Next]_vars => IndexInv'
<1> SUFFICES ASSUME IndexInv, [Next]_vars PROVE IndexInv'
  OBVIOUS
<1>1. CASE AskReferences BY <1>1, RequestInv
<1>2. CASE AskDefinition BY <1>2, RequestInv
<1>3. CASE UNCHANGED vars
  BY <1>3 DEF vars, tables, IndexInv, ParseInv, NestingInv, PathInv, ProcsInv,
              ReferencesInv, AnswerInv
<1> QED
  BY <1>1, <1>2, <1>3, ParseStepInv, WalkStepInv DEF Next, Idle

\* Of all scripts: the walks leave what they enter, and what the tables refer
\* to is in the tables (index.cpp:363-466, 627-691).
THEOREM IndexTypes == Spec => []TypeOK
<1>1. IndexInv => TypeOK
  <2> SUFFICES ASSUME IndexInv PROVE TypeOK
    OBVIOUS
  <2>1. phase \in {"parse", "scan", "index", "ready"} /\ at \in 1..(Len(script) + 1)
    BY DEF IndexInv, ParseInv
  <2>2. \A i \in 1..Len(nsPath) : nsPath[i] \in 1..Len(namespaces)
    BY DEF IndexInv, PathInv
  <2>3. ASSUME phase = "ready" \/ at = 1 PROVE nsPath = <<Global>>
    <3>1. PICK levels : /\ Levels(levels, script)
                        /\ phase # "parse" => Len(levels[Len(script)]) = 1
                        /\ Len(nsPath) = Len(levels[at - 1])
      BY DEF IndexInv, NestingInv
    <3>2. Len(levels[0]) = 1
      <4>1. levels[0] = <<EmptyText>> BY <3>1 DEF Levels
      <4> QED BY <4>1
    <3>3. Len(levels[at - 1]) = 1
      <4>1. CASE at = 1
        <5>1. at - 1 = 0 BY <4>1
        <5> QED BY <3>2, <5>1
      <4>2. CASE phase = "ready"
        <5>1. at - 1 = Len(script) BY <4>2 DEF IndexInv, ParseInv
        <5> QED BY <3>1, <4>2, <5>1
      <4> QED BY <2>3, <4>1, <4>2
    <3>4. /\ nsPath \in Seq(1..Len(namespaces)) /\ Len(nsPath) = 1 /\ nsPath[1] = Global
      BY <3>1, <3>3 DEF IndexInv, PathInv
    <3>5. Global \in 1..Len(namespaces) BY RowsOfTree DEF IndexInv
    <3> QED BY <3>4, <3>5
  <2>4. \A p \in 1..Len(procs) : procs[p].parent \in 1..Len(namespaces)
    BY DEF IndexInv, ProcsInv
  <2>5. ASSUME NEW r \in ToSet(references) PROVE r.id \in 1..Len(procs)
    <3>1. references \in Seq(ReferenceRows) BY DEF IndexInv, ReferencesInv
    <3>2. PICK k \in 1..Len(references) : r = references[k] BY <3>1 DEF ToSet
    <3> QED BY <3>2 DEF IndexInv, ReferencesInv
  <2>6. answer.locations \subseteq 1..Len(script) BY DEF IndexInv, AnswerInv
  <2> QED BY <2>1, <2>2, <2>3, <2>4, <2>5, <2>6 DEF TypeOK
<1> QED BY <1>1, IndexInit, IndexNext, PTL DEF Spec

\* Of all scripts: the namespaces are a tree, to which the walks and the
\* requests only add (index.cpp:216-254).
THEOREM NamespacesAreATree == Spec => []NamespaceTree
<1>1. IndexInv => NamespaceTree
  BY DEF IndexInv, Trees, NamespaceTree
<1> QED BY <1>1, IndexInit, IndexNext, PTL DEF Spec
=============================================================================
