---------------------------- MODULE CursorProofs ----------------------------
(***************************************************************************)
(* Theorems about Cursor and the modules it is made of, SourceLocation and *)
(* Words, for texts of any length.                                         *)
(***************************************************************************)
EXTENDS Cursor, Iteration, FiniteSetTheorems, TLAPS

-----------------------------------------------------------------------------
(* Lines.                                                                  *)

\* The offsets ascend.
Sorted == \A i, j \in 1..Len(newlines) : i < j => newlines[i] < newlines[j]

\* What has been looked at is listed, and nothing but newlines and the end is.
Listed ==
    /\ \A i \in 1..Len(newlines) :
          /\ newlines[i] < scanAt
          /\ \/ Byte(newlines[i]) = "newline"
             \/ Scanned /\ i = Len(newlines)
    /\ \A k \in Offsets : k < scanAt /\ Byte(k) = "newline" =>
          \E i \in 1..Len(newlines) : newlines[i] = k
    /\ Scanned => Len(newlines) > 0 /\ newlines[Len(newlines)] = Len(contents)

IsFirst(i, offset) ==
    /\ newlines[i] >= offset
    /\ \A j \in 1..(i - 1) : newlines[j] < offset

\* If a line ends at or after an offset, there is a first one that does.
FirstExists ==
    \A offset \in Nat :
        (\E i \in 1..Len(newlines) : newlines[i] >= offset) =>
        \E i \in 1..Len(newlines) : IsFirst(i, offset)

FileInv == FileTypeOK /\ Sorted /\ Listed /\ FirstExists

LEMMA FileInitInv == FileInit => FileInv
BY ContentsAssumption DEF FileInit, FileInv, FileTypeOK, Sorted, Listed,
   FirstExists, Offsets, Scanned

\* What both steps do: they may append an offset that is larger than all.
LEMMA AppendKeepsFirst ==
    ASSUME FileInv, NEW o \in Nat, newlines' = Append(newlines, o),
           \A i \in 1..Len(newlines) : newlines[i] < o
    PROVE  Sorted' /\ FirstExists'
<1> USE DEF FileInv, FileTypeOK, Offsets
<1>1. /\ Len(newlines') = Len(newlines) + 1
      /\ newlines'[Len(newlines) + 1] = o
      /\ \A i \in 1..Len(newlines) : newlines'[i] = newlines[i]
  OBVIOUS
<1>2. Sorted'
  <2>1. ASSUME NEW i \in 1..Len(newlines'), NEW j \in 1..Len(newlines'), i < j
        PROVE  newlines'[i] < newlines'[j]
    <3>1. i \in 1..Len(newlines) /\ newlines'[i] = newlines[i]
      BY <1>1, <2>1
    <3>2. CASE j = Len(newlines) + 1
      BY <1>1, <3>1, <3>2
    <3>3. CASE j \in 1..Len(newlines)
      <4>1. newlines[i] < newlines[j] BY <2>1, <3>1, <3>3 DEF Sorted
      <4> QED BY <1>1, <3>1, <3>3, <4>1
    <3> QED BY <1>1, <3>2, <3>3
  <2> QED BY <2>1 DEF Sorted
<1>3. ASSUME NEW offset \in Nat, NEW k \in 1..Len(newlines'), newlines'[k] >= offset
      PROVE  \E i \in 1..Len(newlines') : IsFirst(i, offset)'
  <2>1. CASE \E i \in 1..Len(newlines) : newlines[i] >= offset
    <3>1. PICK i \in 1..Len(newlines) : IsFirst(i, offset)
      BY <2>1 DEF FirstExists
    <3>2. IsFirst(i, offset)'
      BY <3>1, <1>1 DEF IsFirst
    <3>. QED
      BY <3>2, <1>1
  <2>2. CASE \A i \in 1..Len(newlines) : newlines[i] < offset
    <3>1. k = Len(newlines) + 1
      BY <1>1, <1>3, <2>2
    <3>2. IsFirst(k, offset)'
      BY <1>1, <1>3, <2>2, <3>1 DEF IsFirst
    <3>. QED
      BY <3>2
  <2>. QED
    BY <2>1, <2>2
<1>. QED
  BY <1>2, <1>3 DEF FirstExists

LEMMA FileNextInv == FileInv /\ [FileNext]_fileVars => FileInv'
<1> SUFFICES ASSUME FileInv, [FileNext]_fileVars PROVE FileInv'
  OBVIOUS
<1> USE DEF FileInv, FileTypeOK, Offsets, Scanned, Byte
<1>1. CASE ScanByte
  <2>0. contents' = contents /\ scanAt' = scanAt + 1 /\ scanAt \in Offsets
    BY <1>1 DEF ScanByte
  <2>1. CASE Byte(scanAt) = "newline"
    <3>1. newlines' = Append(newlines, scanAt)
      BY <1>1, <2>1 DEF ScanByte
    <3>2. \A i \in 1..Len(newlines) : newlines[i] < scanAt
      BY DEF Listed
    <3>3. Sorted' /\ FirstExists'
      BY <3>1, <3>2, <2>0, AppendKeepsFirst
    <3>4. FileTypeOK'
      BY <2>0, <3>1
    <3>5. Listed'
      <4>1. /\ Len(newlines') = Len(newlines) + 1
            /\ newlines'[Len(newlines) + 1] = scanAt
            /\ \A i \in 1..Len(newlines) : newlines'[i] = newlines[i]
        BY <2>0, <3>1
      <4>2. ~Scanned /\ ~Scanned'
        BY <2>0, <2>1
      <4>3. ASSUME NEW i \in 1..Len(newlines')
            PROVE  newlines'[i] < scanAt' /\ Byte(newlines'[i]) = "newline"
        <5>1. CASE i \in 1..Len(newlines)
          BY <2>0, <4>1, <4>2, <5>1 DEF Listed
        <5>2. CASE i = Len(newlines) + 1
          BY <2>0, <2>1, <4>1, <5>2
        <5>3. i \in 1..Len(newlines) \/ i = Len(newlines) + 1
          BY <4>1
        <5>. QED
          BY <5>1, <5>2, <5>3
      <4>4. ASSUME NEW k \in Offsets, k < scanAt', Byte(k) = "newline"
            PROVE  \E i \in 1..Len(newlines') : newlines'[i] = k
        <5>1. CASE k = scanAt
          BY <4>1, <5>1
        <5>2. CASE k < scanAt
          <6>1. PICK i \in 1..Len(newlines) : newlines[i] = k
            BY <4>4, <5>2 DEF Listed
          <6>. QED
            BY <4>1, <6>1
        <5>. QED
          BY <2>0, <4>4, <5>1, <5>2
      <4>. QED
        BY <2>0, <4>2, <4>3, <4>4 DEF Listed
    <3>. QED
      BY <3>3, <3>4, <3>5
  <2>2. CASE Byte(scanAt) # "newline"
    <3>1. newlines' = newlines
      BY <1>1, <2>2 DEF ScanByte
    <3>. QED
      BY <2>0, <2>2, <3>1 DEF Listed, Sorted, FirstExists, IsFirst
  <2>. QED
    BY <2>1, <2>2
<1>2. CASE EndScan
  <2>0. /\ contents' = contents /\ scanAt' = Len(contents) + 2
        /\ newlines' = Append(newlines, Len(contents))
        /\ scanAt = Len(contents) + 1
    BY <1>2 DEF EndScan
  <2>1. \A i \in 1..Len(newlines) : newlines[i] < Len(contents)
    BY <2>0 DEF Listed
  <2>2. Sorted' /\ FirstExists'
    <3> HIDE DEF FileInv, FileTypeOK, Offsets, Scanned, Byte
    <3>1. Len(contents) \in Nat
      BY DEF FileInv, FileTypeOK
    <3>. QED
      BY <2>0, <2>1, <3>1, AppendKeepsFirst
  <2>3. FileTypeOK'
    BY <2>0
  <2>4. Listed'
    <3>1. /\ Len(newlines') = Len(newlines) + 1
          /\ newlines'[Len(newlines) + 1] = Len(contents)
          /\ \A i \in 1..Len(newlines) : newlines'[i] = newlines[i]
      BY <2>0
    <3>2. \A k \in 0..Len(contents) : Byte(k) = "newline" => k < Len(contents)
      OBVIOUS
    <3>3. ~Scanned
      BY <2>0
    <3>4. \A i \in 1..Len(newlines') :
             /\ newlines'[i] < scanAt'
             /\ \/ Byte(newlines'[i]) = "newline"
                \/ i = Len(newlines')
      <4>1. ASSUME NEW i \in 1..Len(newlines)
            PROVE  newlines'[i] < scanAt' /\ Byte(newlines'[i]) = "newline"
        <5>1. newlines'[i] = newlines[i] /\ newlines[i] \in Nat
          BY <3>1
        <5>2. newlines[i] < Len(contents) /\ Byte(newlines[i]) = "newline"
          BY <2>1, <3>3 DEF Listed
        <5>. QED
          BY <2>0, <5>1, <5>2
      <4>2. \A i \in 1..Len(newlines') : i \in 1..Len(newlines) \/ i = Len(newlines')
        BY <3>1
      <4>3. newlines'[Len(newlines')] < scanAt'
        BY <2>0, <3>1
      <4>. QED
        BY <4>1, <4>2, <4>3
    <3>5. ASSUME NEW k \in 0..Len(contents), Byte(k) = "newline"
          PROVE  \E i \in 1..Len(newlines') : newlines'[i] = k
      <4>1. k \in Offsets /\ k < scanAt
        BY <2>0, <3>2, <3>5
      <4>2. PICK i \in 1..Len(newlines) : newlines[i] = k
        BY <3>5, <4>1 DEF Listed
      <4>3. i \in 1..Len(newlines')
        BY <3>1
      <4>. QED
        BY <3>1, <4>2, <4>3
    <3>. QED
      BY <2>0, <3>1, <3>4, <3>5 DEF Listed
  <2>. QED
    BY <2>2, <2>3, <2>4
<1>3. CASE UNCHANGED fileVars
  BY <1>3 DEF fileVars, Listed, Sorted, FirstExists, IsFirst
<1>. QED
  BY <1>1, <1>2, <1>3 DEF FileNext

LEMMA FileInvariant == FileSpec => []FileInv
BY FileInitInv, FileNextInv, PTL DEF FileSpec

-----------------------------------------------------------------------------
\* The table of newlines holds offsets of the file (source_location.cpp:32-48).
THEOREM FileTyped == FileSpec => []FileTypeOK
<1>1. FileInv => FileTypeOK
  BY DEF FileInv
<1>. QED
  BY <1>1, FileInvariant, PTL

LEMMA LineFound ==
    ASSUME FileInv, Scanned, NEW offset \in Offsets
    PROVE  LineOf(offset) \in 1..Len(newlines) /\ IsFirst(LineOf(offset), offset)
<1>1. Len(newlines) \in 1..Len(newlines) /\ newlines[Len(newlines)] >= offset
  BY DEF FileInv, FileTypeOK, Listed, Offsets
<1>2. \E i \in 1..Len(newlines) : IsFirst(i, offset)
  BY <1>1 DEF FileInv, FirstExists, Offsets
<1>. QED
  BY <1>2 DEF LineOf, IsFirst

\* assert( false && "Invalid offset" ) (source_location.cpp:84) is not reached
\* from an offset of the file.
THEOREM OffsetsAreValid == FileSpec => []OffsetsValid
<1>1. FileInv => OffsetsValid
  BY LineFound DEF OffsetsValid, IsFirst
<1>. QED
  BY <1>1, FileInvariant, PTL

\* The newlines before an offset are the ends of the lines before its own.
LEMMA NewlinesBefore ==
    ASSUME FileInv, Scanned, NEW offset \in Offsets
    PROVE  {k \in 0..(offset - 1) : Byte(k) = "newline"}
              = {newlines[j] : j \in 1..(LineOf(offset) - 1)}
<1> DEFINE line == LineOf(offset)
<1>1. line \in 1..Len(newlines) /\ IsFirst(line, offset)
  BY LineFound
<1>2. ASSUME NEW k \in 0..(offset - 1), Byte(k) = "newline"
      PROVE  \E j \in 1..(line - 1) : newlines[j] = k
  <2>1. PICK j \in 1..Len(newlines) : newlines[j] = k
    <3>1. k \in Offsets /\ k < scanAt
      BY DEF FileInv, FileTypeOK, Offsets, Scanned
    <3>. QED
      BY <1>2, <3>1 DEF FileInv, Listed
  <2>2. ~(j > line)
    BY <1>1, <2>1 DEF FileInv, FileTypeOK, Sorted, IsFirst, Offsets
  <2>3. j # line
    BY <1>1, <2>1 DEF FileInv, FileTypeOK, IsFirst, Offsets
  <2>. QED
    BY <1>1, <2>1, <2>2, <2>3
<1>3. ASSUME NEW j \in 1..(line - 1)
      PROVE  newlines[j] \in 0..(offset - 1) /\ Byte(newlines[j]) = "newline"
  <2>1. j \in 1..Len(newlines) /\ j # Len(newlines)
    BY <1>1
  <2>2. newlines[j] \in Offsets
    BY <2>1 DEF FileInv, FileTypeOK
  <2>3. newlines[j] < offset
    BY <1>1, <1>3 DEF IsFirst
  <2>4. Byte(newlines[j]) = "newline"
    BY <2>1 DEF FileInv, Listed
  <2>. QED
    BY <2>2, <2>3, <2>4 DEF Offsets
<1>. QED
  BY <1>2, <1>3

LEMMA LinesCounted ==
    ASSUME FileInv, Scanned, NEW offset \in Offsets
    PROVE  Cardinality({k \in 0..(offset - 1) : Byte(k) = "newline"})
              = LineOf(offset) - 1
<1> DEFINE n == LineOf(offset) - 1
           S == {newlines[j] : j \in 1..n}
           f == [j \in 1..n |-> newlines[j]]
<1>1. n \in 0..(Len(newlines) - 1)
  BY LineFound DEF FileInv, FileTypeOK
<1>2. f \in Bijection(1..n, S)
  <2>1. f \in Surjection(1..n, S)
    BY DEF Surjection
  <2>2. \A i, j \in 1..n : f[i] = f[j] => i = j
    <3> HIDE DEF n
    <3>1. \A i \in 1..n : newlines[i] \in Int
      BY <1>1 DEF FileInv, FileTypeOK, Offsets
    <3>2. \A i, j \in 1..n : i < j => newlines[i] < newlines[j]
      BY <1>1 DEF FileInv, FileTypeOK, Sorted
    <3>. QED
      BY <3>1, <3>2
  <2>3. f \in Injection(1..n, S)
    BY <2>1, <2>2, Zenon DEF Injection, IsInjective, Surjection
  <2>. QED
    BY <2>1, <2>3 DEF Bijection
<1>3. ExistsBijection(1..n, S)
  BY <1>2 DEF ExistsBijection
<1>4. IsFiniteSet(1..n) /\ Cardinality(1..n) = n
  BY <1>1, FS_Interval
<1>5. Cardinality(S) = n
  BY <1>3, <1>4, FS_Bijection
<1>. QED
  BY <1>5, NewlinesBefore

LEMMA ExactPositions == FileInv => PositionsExact
<1>1. ASSUME FileInv, Scanned, NEW offset \in Offsets
      PROVE  LET where == OffsetToLineByte(offset)
                 start == offset - where.column
             IN  /\ where.line = Cardinality({i \in 0..(offset - 1) : Byte(i) = "newline"})
                 /\ start \in 0..offset
                 /\ start = 0 \/ Byte(start - 1) = "newline"
                 /\ \A i \in start..(offset - 1) : Byte(i) # "newline"
  <2> DEFINE line == LineOf(offset)
             start == StartOfLine(line)
  <2>1. line \in 1..Len(newlines) /\ IsFirst(line, offset)
    BY <1>1, LineFound
  <2>2. start \in 0..offset /\ (start = 0 \/ Byte(start - 1) = "newline")
    <3>1. CASE line = 1
      BY <1>1, <3>1 DEF StartOfLine, Offsets, FileInv, FileTypeOK
    <3>2. CASE line > 1
      <4>1. line - 1 \in 1..Len(newlines) /\ newlines[line - 1] < offset
        BY <2>1, <3>2 DEF IsFirst
      <4>. QED
        BY <1>1, <2>1, <3>2, <4>1 DEF StartOfLine, Offsets, FileInv, FileTypeOK, Listed
    <3>. QED
      BY <2>1, <3>1, <3>2
  <2>3. ASSUME NEW i \in start..(offset - 1), Byte(i) = "newline"
        PROVE  FALSE
    <3>1. i \in 0..(offset - 1)
      BY <2>2, <2>3 DEF Offsets
    <3>2. PICK j \in 1..(line - 1) : newlines[j] = i
      BY <1>1, <3>1, <2>3, NewlinesBefore
    <3>3. newlines[j] <= newlines[line - 1]
      <4>1. line - 1 \in 1..Len(newlines) /\ j \in 1..Len(newlines) /\ j <= line - 1
        BY <2>1
      <4> HIDE DEF line
      <4>2. newlines[line - 1] \in Nat
        BY <1>1, <4>1 DEF FileInv, FileTypeOK, Offsets
      <4>3. j < line - 1 => newlines[j] < newlines[line - 1]
        BY <1>1, <4>1 DEF FileInv, Sorted
      <4>4. newlines[j] \in Nat
        BY <1>1, <4>1 DEF FileInv, FileTypeOK, Offsets
      <4>. QED
        BY <4>1, <4>2, <4>3, <4>4
    <3>. QED
      BY <1>1, <2>1, <2>3, <3>2, <3>3 DEF StartOfLine, FileInv, FileTypeOK, Offsets
  <2>4. OffsetToLineByte(offset) = [line |-> line - 1, column |-> offset - start]
    BY DEF OffsetToLineByte
  <2>5. offset - (offset - start) = start
    BY <2>2 DEF Offsets
  <2>6. Cardinality({i \in 0..(offset - 1) : Byte(i) = "newline"}) = line - 1
    BY <1>1, LinesCounted
  <2> HIDE DEF line, start
  <2>. QED
    BY <2>2, <2>3, <2>4, <2>5, <2>6
<1>. QED
  BY <1>1 DEF PositionsExact

\* OffsetToLineByte counts lines and columns as its comment says
\* (source_location.cpp:67-86).
THEOREM PositionsAreExact == FileSpec => []PositionsExact
BY ExactPositions, FileInvariant, PTL

LEMMA LocationsOrdered == FileInv => OrderPreserved
<1>1. ASSUME FileInv, Scanned, NEW o1 \in Offsets, NEW o2 \in Offsets, o1 < o2
      PROVE  Before(OffsetToLineByte(o1), OffsetToLineByte(o2))
  <2> DEFINE l1 == LineOf(o1)
             l2 == LineOf(o2)
  <2>1. /\ l1 \in 1..Len(newlines) /\ IsFirst(l1, o1)
        /\ l2 \in 1..Len(newlines) /\ IsFirst(l2, o2)
    BY <1>1, LineFound
  <2>2. l1 <= l2
    <3> HIDE DEF l1, l2
    <3> SUFFICES ASSUME l2 < l1 PROVE FALSE
      BY <2>1
    <3>1. newlines[l2] \in Int /\ newlines[l2] >= o2
      BY <1>1, <2>1 DEF IsFirst, FileInv, FileTypeOK, Offsets
    <3>2. newlines[l2] < o1
      BY <2>1 DEF IsFirst
    <3>. QED
      BY <1>1, <3>1, <3>2 DEF Offsets
  <2>3. StartOfLine(l1) \in Int
    BY <1>1, <2>1 DEF StartOfLine, FileInv, FileTypeOK, Offsets
  <2> HIDE DEF l1, l2
  <2>4. OffsetToLineByte(o1) = [line |-> l1 - 1, column |-> o1 - StartOfLine(l1)]
    BY DEF OffsetToLineByte, l1
  <2>5. OffsetToLineByte(o2) = [line |-> l2 - 1, column |-> o2 - StartOfLine(l2)]
    BY DEF OffsetToLineByte, l2
  <2>. QED
    BY <1>1, <2>1, <2>2, <2>3, <2>4, <2>5 DEF Before, Offsets
<1>. QED
  BY <1>1 DEF OrderPreserved

\* To compare locations is to compare offsets (index.cpp:715-723).
THEOREM OrderIsPreserved == FileSpec => []OrderPreserved
BY LocationsOrdered, FileInvariant, PTL

LEMMA LocationTyped ==
    ASSUME FileInv, Scanned, NEW offset \in Offsets
    PROVE  OffsetToLineByte(offset).line \in Int /\ OffsetToLineByte(offset).column \in Int
<1> DEFINE l == LineOf(offset)
<1>1. l \in 1..Len(newlines) BY LineFound
<1>2. StartOfLine(l) \in Int /\ l \in Int /\ offset \in Int
  BY <1>1 DEF StartOfLine, FileInv, FileTypeOK, Offsets
<1> HIDE DEF l
<1>3. OffsetToLineByte(offset) = [line |-> l - 1, column |-> offset - StartOfLine(l)]
  BY DEF OffsetToLineByte, l
<1>. QED
  BY <1>2, <1>3

-----------------------------------------------------------------------------
(* Tokens.                                                                 *)

TokenTypes == {"simple", "word", "expand", "text", "command", "variable"}

\* What the texts of tokens are spelled like.
Spellings ==
    {"v", "a", OtherText} \cup UNION {s.names \cup s.texts : s \in Styles}

Tokens == [type : TokenTypes, n : Nat, at : Nat, size : Nat, text : Spellings,
           inside : Nat, list : BOOLEAN]

End(token) == token.at + token.size

\* Where tokens, and those of the commands of a script, lie in the text.
Lie(tokens, from, to) ==
    \A k \in 1..Len(tokens) : from <= tokens[k].at /\ End(tokens[k]) <= to

CommandsLie(commands, from, to) ==
    \A i \in 1..Len(commands) : Lie(commands[i], from, to)

\* Token j is k itself or one of its components.
Spans(tokens, k) == k..(k + tokens[k].n)

Nested(tokens) ==
    \A k \in 1..Len(tokens) :
        /\ k + tokens[k].n <= Len(tokens)
        /\ \A j \in Spans(tokens, k) : /\ j + tokens[j].n <= k + tokens[k].n
                                       /\ End(tokens[j]) <= End(tokens[k])

Ascend(tokens) == \A i, j \in 1..Len(tokens) : i < j => tokens[i].at <= tokens[j].at

\* What must follow a token of a type.
Regular(tokens) ==
    \A k \in 1..Len(tokens) :
        /\ tokens[k].type \in {"word", "expand", "variable"} => tokens[k].n > 0
        /\ tokens[k].type = "simple" => tokens[k].n = 1
        /\ tokens[k].type = "command" => tokens[k].inside # NoScript

\* The scripts in tokens are among the first ones of a table, and inside of them.
Encloses(tokens, table, most) ==
    \A k \in 1..Len(tokens) :
        /\ tokens[k].inside <= most
        /\ tokens[k].inside # NoScript =>
               CommandsLie(table[tokens[k].inside], tokens[k].at, End(tokens[k]))

WellFormed(tokens, table, most) ==
    /\ tokens \in Seq(Tokens)
    /\ Nested(tokens)
    /\ Ascend(tokens)
    /\ Regular(tokens)
    /\ Encloses(tokens, table, most)

LEMMA Joined ==
    ASSUME NEW S, NEW s \in Seq(S), NEW t \in Seq(S)
    PROVE  /\ s \o t \in Seq(S)
           /\ Len(s \o t) = Len(s) + Len(t)
           /\ \A k \in 1..Len(s) : (s \o t)[k] = s[k]
           /\ \A k \in 1..Len(t) : (s \o t)[Len(s) + k] = t[k]
           /\ \A k \in 1..Len(s \o t) :
                  k \in 1..Len(s) \/ (k - Len(s) \in 1..Len(t) /\ (s \o t)[k] = t[k - Len(s)])
OBVIOUS

LEMMA TokenTyped ==
    ASSUME NEW token \in Tokens
    PROVE  /\ token.type \in TokenTypes /\ token.n \in Nat /\ token.at \in Nat
           /\ token.size \in Nat /\ token.text \in Spellings /\ token.inside \in Nat
           /\ End(token) \in Nat /\ token.at <= End(token)
BY DEF Tokens, End

LEMMA TokensTyped ==
    ASSUME NEW tokens \in Seq(Tokens), NEW k \in 1..Len(tokens)
    PROVE  /\ tokens[k] \in Tokens
           /\ tokens[k].n \in Nat /\ tokens[k].at \in Nat /\ tokens[k].size \in Nat
           /\ tokens[k].inside \in Nat
           /\ End(tokens[k]) \in Nat /\ tokens[k].at <= End(tokens[k])
<1>1. tokens[k] \in Tokens OBVIOUS
<1> QED BY <1>1, TokenTyped

LEMMA JoinedLie ==
    ASSUME NEW s \in Seq(Tokens), NEW t \in Seq(Tokens), NEW from \in Int, NEW to \in Int
    PROVE  Lie(s \o t, from, to) <=> Lie(s, from, to) /\ Lie(t, from, to)
<1>1. Lie(s \o t, from, to) => Lie(s, from, to)
  BY Joined DEF Lie
<1>2. ASSUME Lie(s \o t, from, to), NEW k \in 1..Len(t)
      PROVE  from <= t[k].at /\ End(t[k]) <= to
  <2>1. Len(s) + k \in 1..Len(s \o t) /\ (s \o t)[Len(s) + k] = t[k] BY Joined
  <2> QED BY <1>2, <2>1 DEF Lie
<1>3. ASSUME Lie(s, from, to), Lie(t, from, to), NEW k \in 1..Len(s \o t)
      PROVE  from <= (s \o t)[k].at /\ End((s \o t)[k]) <= to
  BY <1>3, Joined DEF Lie
<1> QED BY <1>1, <1>2, <1>3 DEF Lie

LEMMA WiderLie ==
    ASSUME NEW s \in Seq(Tokens), NEW f1 \in Int, NEW t1 \in Int, NEW f2 \in Int, NEW t2 \in Int,
           Lie(s, f1, t1), f2 <= f1, t1 <= t2
    PROVE  Lie(s, f2, t2)
<1> QED BY TokensTyped DEF Lie

LEMMA JoinedNested ==
    ASSUME NEW s \in Seq(Tokens), NEW t \in Seq(Tokens), Nested(s), Nested(t)
    PROVE  Nested(s \o t)
<1> DEFINE u == s \o t
<1>0. /\ u \in Seq(Tokens) /\ Len(u) = Len(s) + Len(t)
      /\ \A k \in 1..Len(s) : u[k] = s[k]
      /\ \A k \in 1..Len(t) : u[Len(s) + k] = t[k]
  BY Joined
<1> HIDE DEF u
<1>n. \A k \in 1..Len(s) : s[k].n \in Nat BY TokensTyped
<1>m. \A k \in 1..Len(t) : t[k].n \in Nat BY TokensTyped
<1>1. ASSUME NEW k \in 1..Len(u)
      PROVE  /\ k + u[k].n <= Len(u)
             /\ \A j \in Spans(u, k) : /\ j + u[j].n <= k + u[k].n
                                       /\ End(u[j]) <= End(u[k])
  <2>1. CASE k \in 1..Len(s)
    <3>1. u[k] = s[k] /\ k + s[k].n <= Len(s) BY <1>0, <2>1 DEF Nested
    <3>2. ASSUME NEW j \in Spans(u, k)
          PROVE  j + u[j].n <= k + u[k].n /\ End(u[j]) <= End(u[k])
      <4>1. j \in Spans(s, k) /\ j \in 1..Len(s) BY <1>n, <2>1, <3>1, <3>2 DEF Spans
      <4>2. u[j] = s[j] BY <1>0, <4>1
      <4> QED BY <2>1, <3>1, <4>1, <4>2 DEF Nested
    <3> QED BY <1>0, <3>1, <3>2, <1>n, <2>1
  <2>2. CASE k \notin 1..Len(s)
    <3> DEFINE l == k - Len(s)
    <3>0. l \in 1..Len(t) /\ k = Len(s) + l BY <1>0, <2>2
    <3> HIDE DEF l
    <3>1. u[k] = t[l] /\ l + t[l].n <= Len(t) /\ t[l].n \in Nat BY <1>0, <3>0, <1>m DEF Nested
    <3>2. ASSUME NEW j \in Spans(u, k)
          PROVE  j + u[j].n <= k + u[k].n /\ End(u[j]) <= End(u[k])
      <4> DEFINE i == j - Len(s)
      <4>1. i \in Spans(t, l) /\ i \in 1..Len(t) /\ j = Len(s) + i BY <3>0, <3>1, <3>2 DEF Spans
      <4> HIDE DEF i
      <4>2. u[j] = t[i] BY <1>0, <4>1
      <4>3. i + t[i].n <= l + t[l].n /\ End(t[i]) <= End(t[l]) BY <3>0, <4>1 DEF Nested
      <4>4. t[i].n \in Nat BY <1>m, <4>1
      <4>5. Len(s) \in Nat /\ i \in Nat /\ l \in Nat BY <3>0, <4>1
      <4>6. j + u[j].n <= k + u[k].n
        <5>1. u[j].n = t[i].n /\ u[k].n = t[l].n BY <3>1, <4>2
        <5>2. \A a, b, c, d, e \in Nat : b + c <= d + e => (a + b) + c <= (a + d) + e OBVIOUS
        <5>3. j + t[i].n <= k + t[l].n BY <3>0, <3>1, <4>1, <4>3, <4>4, <4>5, <5>2
        <5> QED BY <5>1, <5>3
      <4> QED BY <3>1, <4>2, <4>3, <4>6
    <3> QED BY <1>0, <3>0, <3>1, <3>2
  <2> QED BY <2>1, <2>2
<1>2. Nested(u) BY <1>1 DEF Nested
<1> QED BY <1>2 DEF u

LEMMA JoinedAscend ==
    ASSUME NEW s \in Seq(Tokens), NEW t \in Seq(Tokens), Ascend(s), Ascend(t),
           NEW from \in Int, NEW at \in Int, NEW to \in Int, Lie(s, from, at), Lie(t, at, to)
    PROVE  Ascend(s \o t)
<1> DEFINE u == s \o t
<1>0. /\ u \in Seq(Tokens) /\ Len(u) = Len(s) + Len(t)
      /\ \A k \in 1..Len(s) : u[k] = s[k]
      /\ \A k \in 1..Len(u) : k \in 1..Len(s) \/ (k - Len(s) \in 1..Len(t) /\ u[k] = t[k - Len(s)])
  BY Joined
<1> HIDE DEF u
<1>1. \A k \in 1..Len(s) : s[k].at \in Nat /\ s[k].at <= at
  BY TokensTyped DEF Lie
<1>2. \A k \in 1..Len(t) : t[k].at \in Nat /\ at <= t[k].at
  BY TokensTyped DEF Lie
<1>3. ASSUME NEW i \in 1..Len(u), NEW j \in 1..Len(u), i < j PROVE u[i].at <= u[j].at
  <2>1. CASE j \in 1..Len(s)
    <3>1. i \in 1..Len(s) BY <1>3, <2>1
    <3> QED BY <1>0, <1>3, <2>1, <3>1 DEF Ascend
  <2>2. CASE i \in 1..Len(s) /\ j \notin 1..Len(s)
    <3>1. j - Len(s) \in 1..Len(t) /\ u[j] = t[j - Len(s)] /\ u[i] = s[i] BY <1>0, <2>2
    <3>2. u[i].at \in Nat /\ u[i].at <= at /\ u[j].at \in Nat /\ at <= u[j].at
      BY <1>1, <1>2, <3>1, <2>2
    <3> QED BY <3>2
  <2>3. CASE i \notin 1..Len(s) /\ j \notin 1..Len(s)
    <3>1. j - Len(s) \in 1..Len(t) /\ u[j] = t[j - Len(s)] BY <1>0, <2>3
    <3>2. i - Len(s) \in 1..Len(t) /\ u[i] = t[i - Len(s)] BY <1>0, <2>3
    <3>3. i - Len(s) < j - Len(s) BY <1>3
    <3> QED BY <3>1, <3>2, <3>3 DEF Ascend
  <2>4. i \in 1..Len(s) \/ j \notin 1..Len(s) BY <1>3
  <2> QED BY <2>1, <2>2, <2>3, <2>4
<1>4. Ascend(u) BY <1>3 DEF Ascend
<1> QED BY <1>4 DEF u

LEMMA JoinedParts ==
    ASSUME NEW table, NEW most \in Nat, NEW s, NEW t,
           WellFormed(s, table, most), WellFormed(t, table, most),
           NEW from \in Int, NEW at \in Int, NEW to \in Int, Lie(s, from, at), Lie(t, at, to)
    PROVE  WellFormed(s \o t, table, most)
<1>1. s \in Seq(Tokens) /\ t \in Seq(Tokens) BY DEF WellFormed
<1>2. Nested(s \o t) /\ Ascend(s \o t)
  BY <1>1, JoinedNested, JoinedAscend DEF WellFormed
<1> DEFINE u == s \o t
<1>3. /\ u \in Seq(Tokens)
      /\ \A k \in 1..Len(u) : \/ k \in 1..Len(s) /\ u[k] = s[k]
                              \/ k - Len(s) \in 1..Len(t) /\ u[k] = t[k - Len(s)]
  BY <1>1, Joined
<1> HIDE DEF u
<1>4. Regular(u) BY <1>3 DEF Regular, WellFormed
<1>5. Encloses(u, table, most)
  <2>1. ASSUME NEW k \in 1..Len(u)
        PROVE  /\ u[k].inside <= most
               /\ u[k].inside # NoScript => CommandsLie(table[u[k].inside], u[k].at, End(u[k]))
    <3>1. CASE k \in 1..Len(s) /\ u[k] = s[k] BY <3>1 DEF Encloses, WellFormed
    <3>2. CASE k - Len(s) \in 1..Len(t) /\ u[k] = t[k - Len(s)]
      BY <3>2 DEF Encloses, WellFormed
    <3> QED BY <1>3, <3>1, <3>2
  <2> QED BY <2>1 DEF Encloses
<1> QED BY <1>2, <1>3, <1>4, <1>5 DEF WellFormed, u

LEMMA Prefixed ==
    ASSUME NEW S, NEW h \in S, NEW s \in Seq(S)
    PROVE  /\ <<h>> \o s \in Seq(S)
           /\ Len(<<h>> \o s) = Len(s) + 1
           /\ (<<h>> \o s)[1] = h
           /\ \A k \in 1..Len(s) : (<<h>> \o s)[k + 1] = s[k]
           /\ \A k \in 1..Len(<<h>> \o s) :
                  k = 1 \/ (k - 1 \in 1..Len(s) /\ (<<h>> \o s)[k] = s[k - 1])
OBVIOUS

\* A token in front of its components.
LEMMA Wrapped ==
    ASSUME NEW table, NEW most \in Nat, NEW s, WellFormed(s, table, most),
           NEW h \in Tokens, h.n = Len(s), Lie(s, h.at, End(h)),
           h.type \in {"word", "expand", "variable"} => h.n > 0,
           h.type = "simple" => h.n = 1,
           h.type = "command" => h.inside # NoScript,
           h.inside <= most,
           h.inside # NoScript => CommandsLie(table[h.inside], h.at, End(h))
    PROVE  WellFormed(<<h>> \o s, table, most) /\ Lie(<<h>> \o s, h.at, End(h))
<1> DEFINE u == <<h>> \o s
<1>0. s \in Seq(Tokens) BY DEF WellFormed
<1>1. /\ u \in Seq(Tokens) /\ Len(u) = Len(s) + 1 /\ u[1] = h
      /\ \A k \in 1..Len(s) : u[k + 1] = s[k]
      /\ \A k \in 1..Len(u) : k = 1 \/ (k - 1 \in 1..Len(s) /\ u[k] = s[k - 1])
  BY <1>0, Prefixed
<1> HIDE DEF u
<1>2. \A k \in 1..Len(s) : /\ s[k].n \in Nat /\ s[k].at \in Nat /\ End(s[k]) \in Nat
                           /\ s[k].at <= End(s[k])
  BY <1>0, TokensTyped
<1>3. h.n \in Nat /\ h.at \in Nat /\ End(h) \in Nat /\ h.at <= End(h) BY TokenTyped
<1>l. Len(s) \in Nat BY <1>0
<1>4. Lie(u, h.at, End(h))
  <2>1. ASSUME NEW k \in 1..Len(u) PROVE h.at <= u[k].at /\ End(u[k]) <= End(h)
    <3>1. CASE k = 1 BY <3>1, <1>1, <1>3
    <3>2. CASE k - 1 \in 1..Len(s) /\ u[k] = s[k - 1] BY <3>2 DEF Lie
    <3> QED BY <3>1, <3>2, <1>1
  <2> QED BY <2>1 DEF Lie
<1>5. ASSUME NEW k \in 1..Len(u)
      PROVE  /\ k + u[k].n <= Len(u)
             /\ \A j \in Spans(u, k) : /\ j + u[j].n <= k + u[k].n
                                       /\ End(u[j]) <= End(u[k])
  <2>1. CASE k = 1
    <3>1. k + u[k].n = Len(u) BY <1>1, <1>3, <1>l, <2>1
    <3>2. ASSUME NEW j \in Spans(u, k)
          PROVE  j + u[j].n <= k + u[k].n /\ End(u[j]) <= End(u[k])
      <4>1. j \in 1..Len(u) BY <3>1, <3>2, <2>1 DEF Spans
      <4>2. CASE j = 1 BY <4>2, <2>1, <1>1, <1>3
      <4>3. CASE j - 1 \in 1..Len(s) /\ u[j] = s[j - 1]
        <5>1. (j - 1) + s[j - 1].n <= Len(s) BY <4>3 DEF WellFormed, Nested
        <5>2. j + u[j].n <= Len(u) BY <5>1, <4>3, <1>1, <1>2, <1>l, <4>1
        <5>3. End(s[j - 1]) <= End(h) BY <4>3 DEF Lie
        <5> QED BY <5>2, <5>3, <3>1, <4>3, <1>1, <2>1
      <4> QED BY <4>1, <4>2, <4>3, <1>1
    <3> QED BY <3>1, <3>2, <1>1, <1>l
  <2>2. CASE k # 1
    <3> DEFINE l == k - 1
    <3>1. l \in 1..Len(s) /\ u[k] = s[l] /\ k = l + 1 BY <1>1, <2>2
    <3> HIDE DEF l
    <3>2. l + s[l].n <= Len(s) /\ s[l].n \in Nat BY <3>1, <1>2 DEF WellFormed, Nested
    <3>3. k + u[k].n <= Len(u) BY <3>1, <3>2, <1>1, <1>l
    <3>4. ASSUME NEW j \in Spans(u, k)
          PROVE  j + u[j].n <= k + u[k].n /\ End(u[j]) <= End(u[k])
      <4> DEFINE i == j - 1
      <4>1. i \in Spans(s, l) /\ j = i + 1 /\ i \in 1..Len(s)
        BY <3>1, <3>2, <3>4, <1>l DEF Spans
      <4> HIDE DEF i
      <4>2. u[j] = s[i] BY <1>1, <4>1
      <4>3. i + s[i].n <= l + s[l].n /\ End(s[i]) <= End(s[l])
        BY <3>1, <4>1 DEF WellFormed, Nested
      <4>4. s[i].n \in Nat BY <4>1, <1>2
      <4>5. j + u[j].n <= k + u[k].n
        <5>1. \A a, b, c, d \in Nat : b + c <= d + a => (b + 1) + c <= (d + 1) + a OBVIOUS
        <5>2. u[j].n = s[i].n /\ u[k].n = s[l].n BY <3>1, <4>2
        <5>3. i \in Nat /\ l \in Nat BY <3>1, <4>1
        <5>4. (i + 1) + s[i].n <= (l + 1) + s[l].n BY <4>3, <4>4, <3>2, <5>1, <5>3
        <5> QED BY <5>2, <5>4, <4>1, <3>1
      <4> QED BY <4>2, <4>3, <4>5, <3>1
    <3> QED BY <3>3, <3>4
  <2> QED BY <2>1, <2>2
<1>6. Nested(u) BY <1>5 DEF Nested
<1>7. Ascend(u)
  <2>1. ASSUME NEW i \in 1..Len(u), NEW j \in 1..Len(u), i < j PROVE u[i].at <= u[j].at
    <3>1. j - 1 \in 1..Len(s) /\ u[j] = s[j - 1] BY <1>1, <2>1
    <3>2. CASE i = 1 BY <3>1, <3>2, <1>1 DEF Lie
    <3>3. CASE i # 1
      <4>1. i - 1 \in 1..Len(s) /\ u[i] = s[i - 1] BY <1>1, <3>3
      <4>2. i - 1 < j - 1 BY <2>1
      <4> QED BY <3>1, <4>1, <4>2 DEF WellFormed, Ascend
    <3> QED BY <3>2, <3>3
  <2> QED BY <2>1 DEF Ascend
<1>8. Regular(u)
  <2>1. ASSUME NEW k \in 1..Len(u), k # 1
        PROVE  /\ u[k].type \in {"word", "expand", "variable"} => u[k].n > 0
               /\ u[k].type = "simple" => u[k].n = 1
               /\ u[k].type = "command" => u[k].inside # NoScript
    <3>1. k - 1 \in 1..Len(s) /\ u[k] = s[k - 1] BY <1>1, <2>1
    <3> QED BY <3>1 DEF WellFormed, Regular
  <2> QED BY <2>1, <1>1 DEF Regular
<1>9. Encloses(u, table, most)
  <2>1. ASSUME NEW k \in 1..Len(u), k # 1
        PROVE  /\ u[k].inside <= most
               /\ u[k].inside # NoScript => CommandsLie(table[u[k].inside], u[k].at, End(u[k]))
    <3>1. k - 1 \in 1..Len(s) /\ u[k] = s[k - 1] BY <1>1, <2>1
    <3> QED BY <3>1 DEF WellFormed, Encloses
  <2> QED BY <2>1, <1>1 DEF Encloses
<1> QED BY <1>1, <1>4, <1>6, <1>7, <1>8, <1>9 DEF WellFormed, u

LEMMA NothingIsWellFormed ==
    ASSUME NEW table, NEW most \in Nat
    PROVE  WellFormed(<<>>, table, most) /\ \A from, to \in Int : Lie(<<>>, from, to)
BY DEF WellFormed, Nested, Ascend, Regular, Encloses, Lie

\* A token without components.
LEMMA Alone ==
    ASSUME NEW table, NEW most \in Nat,
           NEW h \in Tokens, h.n = 0,
           h.type \in {"text", "command"},
           h.type = "command" => h.inside # NoScript,
           h.inside <= most,
           h.inside # NoScript => CommandsLie(table[h.inside], h.at, End(h))
    PROVE  WellFormed(<<h>>, table, most) /\ Lie(<<h>>, h.at, End(h))
<1>1. h.at \in Int /\ End(h) \in Int BY TokenTyped
<1>2. WellFormed(<<h>> \o <<>>, table, most) /\ Lie(<<h>> \o <<>>, h.at, End(h))
  BY <1>1, NothingIsWellFormed, Wrapped
<1>3. <<h>> \o <<>> = <<h>>
  <2>1. <<h>> \in Seq(Tokens) OBVIOUS
  <2> QED BY <2>1
<1> QED BY <1>2, <1>3

-----------------------------------------------------------------------------
(* Commands.                                                               *)

\* Behind a word there is something between it and the next.
Spaced(tokens) ==
    \A k \in Arguments(tokens) : \A j \in 1..Len(tokens) :
        j > k + tokens[k].n => End(tokens[k]) < tokens[j].at

OfWords(tokens) ==
    \A k \in Arguments(tokens) : tokens[k].type \in {"simple", "word", "expand"}

\* Every simple word can be taken for a script.
Bodied(tokens) ==
    \A k \in Arguments(tokens) : tokens[k].type = "simple" => tokens[k + 1].inside # NoScript

CommandSoFar(tokens, table, most) ==
    WellFormed(tokens, table, most) /\ Spaced(tokens) /\ OfWords(tokens) /\ Bodied(tokens)

\* The command in a bare word has no script in it.
IsCommand(tokens, table, most) ==
    /\ WellFormed(tokens, table, most)
    /\ Spaced(tokens)
    /\ OfWords(tokens)
    /\ Bodied(tokens) \/ Len(tokens) = 2

\* The tokens of a word: one that is behind all others is a component of the first.
IsWord(tokens) ==
    /\ tokens # <<>>
    /\ tokens[1].n = Len(tokens) - 1
    /\ tokens[1].type \in {"simple", "word", "expand"}

LEMMA ArgumentsOfWord ==
    ASSUME NEW g \in Seq(Tokens), IsWord(g)
    PROVE  Arguments(g) = {1}
<1>1. Len(g) \in Nat /\ Len(g) > 0 BY DEF IsWord
<1>2. 1 \in Arguments(g) BY <1>1 DEF Arguments
<1>3. ASSUME NEW k \in Arguments(g), k # 1 PROVE FALSE
  <2>1. k \in 1..Len(g) /\ 1 \in 1..(k - 1) BY <1>3 DEF Arguments
  <2>2. 1 + g[1].n < k BY <2>1 DEF Arguments
  <2> QED BY <2>1, <2>2, <1>1 DEF IsWord
<1> QED BY <1>2, <1>3

LEMMA OneMoreArgument ==
    ASSUME NEW s \in Seq(Tokens), Nested(s), NEW g \in Seq(Tokens), IsWord(g)
    PROVE  Arguments(s \o g) = Arguments(s) \cup {Len(s) + 1}
<1> DEFINE u == s \o g
<1>0. /\ Len(u) = Len(s) + Len(g) /\ Len(s) \in Nat /\ Len(g) \in Nat
      /\ \A k \in 1..Len(s) : u[k] = s[k]
      /\ \A k \in 1..Len(g) : u[Len(s) + k] = g[k]
  BY Joined
<1> HIDE DEF u
<1>1. Len(g) > 0 /\ u[Len(s) + 1] = g[1] /\ g[1].n = Len(g) - 1 BY <1>0 DEF IsWord
<1>2. ASSUME NEW k \in 1..Len(s) PROVE k \in Arguments(u) <=> k \in Arguments(s)
  BY <1>0 DEF Arguments
<1>3. Len(s) + 1 \in Arguments(u)
  <2>1. ASSUME NEW j \in 1..Len(s) PROVE j + u[j].n < Len(s) + 1
    <3>1. j + s[j].n <= Len(s) /\ s[j].n \in Nat BY TokensTyped DEF Nested
    <3> QED BY <3>1, <1>0
  <2> QED BY <1>0, <1>1, <2>1 DEF Arguments
<1>4. ASSUME NEW k \in Arguments(u), k > Len(s) + 1 PROVE FALSE
  <2>1. k \in 1..Len(u) /\ Len(s) + 1 \in 1..(k - 1) BY <1>0, <1>4 DEF Arguments
  <2>2. (Len(s) + 1) + u[Len(s) + 1].n < k BY <2>1 DEF Arguments
  <2> QED BY <2>1, <2>2, <1>0, <1>1
<1>5. \A k \in Arguments(u) : k \in 1..Len(u) BY DEF Arguments
<1>6. \A k \in Arguments(s) : k \in 1..Len(s) BY DEF Arguments
<1>7. Arguments(u) \subseteq Arguments(s) \cup {Len(s) + 1} BY <1>0, <1>2, <1>4, <1>5
<1>8. Arguments(s) \cup {Len(s) + 1} \subseteq Arguments(u) BY <1>2, <1>3, <1>6
<1> QED BY <1>7, <1>8 DEF u

LEMMA WordAppended ==
    ASSUME NEW table, NEW most \in Nat, NEW s, NEW g,
           CommandSoFar(s, table, most), WellFormed(g, table, most), IsWord(g),
           g[1].type = "simple" => g[2].inside # NoScript,
           NEW from \in Int, NEW at \in Int, NEW to \in Int,
           Lie(s, from, at - 1), Lie(g, at, to)
    PROVE  CommandSoFar(s \o g, table, most)
<1> DEFINE u == s \o g
<1>0. /\ s \in Seq(Tokens) /\ g \in Seq(Tokens) BY DEF CommandSoFar, WellFormed
<1>1. /\ u \in Seq(Tokens) /\ Len(u) = Len(s) + Len(g) /\ Len(s) \in Nat /\ Len(g) \in Nat
      /\ \A k \in 1..Len(s) : u[k] = s[k]
      /\ \A k \in 1..Len(g) : u[Len(s) + k] = g[k]
      /\ \A k \in 1..Len(u) : k \in 1..Len(s) \/ (k - Len(s) \in 1..Len(g) /\ u[k] = g[k - Len(s)])
  BY <1>0, Joined
<1>2. WellFormed(u, table, most)
  <2>1. Lie(s, from, at) BY <1>0, WiderLie
  <2> QED BY <2>1, JoinedParts DEF CommandSoFar
<1>3. Arguments(u) = Arguments(s) \cup {Len(s) + 1}
  BY <1>0, OneMoreArgument DEF CommandSoFar, WellFormed
<1> HIDE DEF u
<1>4. \A k \in Arguments(s) : k \in 1..Len(s) BY DEF Arguments
<1>5. Len(g) > 0 /\ u[Len(s) + 1] = g[1] /\ g[1].n = Len(g) - 1 BY <1>0, <1>1 DEF IsWord
<1>6. Spaced(u)
  <2>1. ASSUME NEW k \in Arguments(s), NEW j \in 1..Len(u), j > k + u[k].n
        PROVE  End(u[k]) < u[j].at
    <3>1. k \in 1..Len(s) /\ u[k] = s[k] BY <1>1, <1>4
    <3>2. CASE j \in 1..Len(s)
      BY <1>1, <3>1, <3>2, <2>1 DEF CommandSoFar, Spaced
    <3>3. CASE j - Len(s) \in 1..Len(g) /\ u[j] = g[j - Len(s)]
      <4>1. at <= u[j].at BY <3>3 DEF Lie
      <4>2. End(u[k]) <= at - 1 BY <3>1 DEF Lie
      <4>3. End(u[k]) \in Nat /\ u[j].at \in Nat
        <5>1. k \in 1..Len(u) BY <3>1, <1>1
        <5> QED BY <5>1, <1>1, TokensTyped
      <4> QED BY <4>1, <4>2, <4>3
    <3> QED BY <1>1, <3>2, <3>3
  <2>2. ASSUME NEW j \in 1..Len(u), j > (Len(s) + 1) + u[Len(s) + 1].n PROVE FALSE
    BY <1>1, <1>5, <2>2
  <2> QED BY <1>3, <2>1, <2>2 DEF Spaced
<1>7. OfWords(u)
  BY <1>1, <1>3, <1>4, <1>5 DEF OfWords, IsWord, CommandSoFar
<1>8. Bodied(u)
  <2>1. ASSUME NEW k \in Arguments(s), u[k].type = "simple" PROVE u[k + 1].inside # NoScript
    <3>1. k \in 1..Len(s) /\ u[k] = s[k] BY <1>1, <1>4
    <3>2. k + 1 \in 1..Len(s)
      <4>1. s[k].n = 1 /\ k + s[k].n <= Len(s)
        BY <3>1, <2>1 DEF CommandSoFar, WellFormed, Regular, Nested
      <4> QED BY <4>1, <3>1, <1>1
    <3>3. u[k + 1] = s[k + 1] BY <1>1, <3>2
    <3> QED BY <3>1, <3>3, <2>1 DEF CommandSoFar, Bodied
  <2>2. ASSUME u[Len(s) + 1].type = "simple" PROVE u[(Len(s) + 1) + 1].inside # NoScript
    <3>1. g[1].type = "simple" BY <2>2, <1>5
    <3>2. g[1].n = 1
      <4>1. 1 \in 1..Len(g) BY <1>5, <1>1
      <4>2. Regular(g) BY DEF WellFormed
      <4> QED BY <3>1, <4>1, <4>2 DEF Regular
    <3>3. 2 \in 1..Len(g) BY <3>2, <1>5, <1>1
    <3>4. u[Len(s) + 2] = g[2] /\ Len(s) + 2 = (Len(s) + 1) + 1 BY <3>3, <1>1
    <3> QED BY <3>1, <3>4
  <2> QED BY <1>3, <2>1, <2>2 DEF Bodied
<1> QED BY <1>2, <1>6, <1>7, <1>8 DEF CommandSoFar, u

-----------------------------------------------------------------------------
(* The groups of tokens that are written.                                  *)

LEMMA SameSequence ==
    ASSUME NEW S, NEW s \in Seq(S), NEW t \in Seq(S), Len(s) = Len(t),
           \A k \in 1..Len(s) : s[k] = t[k]
    PROVE  s = t
OBVIOUS

LEMMA ChainedPair ==
    ASSUME NEW S, NEW t \in S, NEW x \in S
    PROVE  <<t>> \o <<x>> = <<t, x>>
<1> DEFINE u == <<t>> \o <<x>>
           v == <<t, x>>
<1>1. u \in Seq(S) /\ v \in Seq(S) OBVIOUS
<1>2. Len(u) = 2 /\ Len(v) = 2 OBVIOUS
<1>3. u[1] = t /\ u[2] = x /\ v[1] = t /\ v[2] = x OBVIOUS
<1> HIDE DEF u, v
<1>4. \A k \in 1..Len(u) : u[k] = v[k]
  <2>1. \A k \in 1..Len(u) : k = 1 \/ k = 2 BY <1>2
  <2> QED BY <1>3, <2>1
<1>5. u = v BY <1>1, <1>2, <1>4, SameSequence
<1> QED BY <1>5 DEF u, v

LEMMA Associative ==
    ASSUME NEW S, NEW a \in Seq(S), NEW b \in Seq(S), NEW c \in Seq(S)
    PROVE  a \o (b \o c) = (a \o b) \o c
<1> DEFINE p == b \o c
           q == a \o b
<1>1. /\ p \in Seq(S) /\ Len(p) = Len(b) + Len(c)
      /\ \A k \in 1..Len(b) : p[k] = b[k]
      /\ \A k \in 1..Len(c) : p[Len(b) + k] = c[k]
  BY Joined
<1>2. /\ q \in Seq(S) /\ Len(q) = Len(a) + Len(b)
      /\ \A k \in 1..Len(a) : q[k] = a[k]
      /\ \A k \in 1..Len(b) : q[Len(a) + k] = b[k]
  BY Joined
<1>3. Len(a) \in Nat /\ Len(b) \in Nat /\ Len(c) \in Nat OBVIOUS
<1> HIDE DEF p, q
<1> DEFINE u == a \o p
           v == q \o c
<1>4. /\ u \in Seq(S) /\ Len(u) = Len(a) + Len(p)
      /\ \A k \in 1..Len(a) : u[k] = a[k]
      /\ \A k \in 1..Len(p) : u[Len(a) + k] = p[k]
  <2>1. p \in Seq(S) BY <1>1
  <2> QED BY <2>1, Joined
<1>5. /\ v \in Seq(S) /\ Len(v) = Len(q) + Len(c)
      /\ \A k \in 1..Len(q) : v[k] = q[k]
      /\ \A k \in 1..Len(c) : v[Len(q) + k] = c[k]
  <2>1. q \in Seq(S) BY <1>2
  <2> QED BY <2>1, Joined
<1> HIDE DEF u, v
<1>6. Len(u) = Len(a) + Len(b) + Len(c) /\ Len(v) = Len(u) BY <1>1, <1>2, <1>3, <1>4, <1>5
<1>7. ASSUME NEW k \in 1..Len(u) PROVE u[k] = v[k]
  <2>1. CASE k \in 1..Len(a)
    <3>1. k \in 1..Len(q) BY <1>2, <1>3, <2>1
    <3> QED BY <1>2, <1>4, <1>5, <2>1, <3>1
  <2>2. CASE k - Len(a) \in 1..Len(b)
    <3> DEFINE l == k - Len(a)
    <3>1. l \in 1..Len(b) /\ k = Len(a) + l /\ l \in 1..Len(p) /\ k \in 1..Len(q)
      BY <1>1, <1>2, <1>3, <2>2
    <3> HIDE DEF l
    <3>2. u[k] = b[l] BY <1>1, <1>4, <3>1
    <3>3. v[k] = b[l] BY <1>2, <1>5, <3>1
    <3> QED BY <3>2, <3>3
  <2>3. CASE k - Len(q) \in 1..Len(c)
    <3> DEFINE l == k - Len(q)
    <3>1. /\ l \in 1..Len(c) /\ k = Len(q) + l /\ Len(b) + l \in 1..Len(p)
          /\ k = Len(a) + (Len(b) + l)
      BY <1>1, <1>2, <1>3, <2>3
    <3> HIDE DEF l
    <3>2. u[k] = c[l] BY <1>1, <1>4, <3>1
    <3>3. v[k] = c[l] BY <1>5, <3>1
    <3> QED BY <3>2, <3>3
  <2> QED BY <1>2, <1>3, <1>6, <2>1, <2>2, <2>3
<1>8. u = v BY <1>4, <1>5, <1>6, <1>7, SameSequence
<1> QED BY <1>8 DEF u, v, p, q

LEMMA NamesOfTypes ==
    /\ "simple" \in TokenTypes /\ "word" \in TokenTypes /\ "expand" \in TokenTypes
    /\ "text" \in TokenTypes /\ "command" \in TokenTypes /\ "variable" \in TokenTypes
    /\ TRUE \in BOOLEAN /\ FALSE \in BOOLEAN /\ NoScript \in Nat /\ NoScript = 0
BY DEF TokenTypes, NoScript

LEMMA TextAlone ==
    ASSUME NEW table, NEW most \in Nat, NEW text \in Spellings, NEW at \in Nat, NEW size \in Nat,
           NEW inside \in 0..most, NEW list \in BOOLEAN,
           inside # NoScript => CommandsLie(table[inside], at, at + size)
    PROVE  /\ WellFormed(<<Text(text, at, size, inside, list)>>, table, most)
           /\ Lie(<<Text(text, at, size, inside, list)>>, at, at + size)
<1> DEFINE t == Text(text, at, size, inside, list)
<1>0. inside \in Nat /\ 0 \in Nat OBVIOUS
<1>1. /\ t \in Tokens /\ t.type = "text" /\ t.n = 0 /\ t.at = at /\ End(t) = at + size
      /\ t.inside = inside
  BY <1>0 DEF Text, Token, Tokens, End, TokenTypes
<1> HIDE DEF t
<1>2. "text" \in {"text", "command"} /\ "text" # "command" /\ inside <= most OBVIOUS
<1>3. WellFormed(<<t>>, table, most) /\ Lie(<<t>>, t.at, End(t)) BY <1>1, <1>2, Alone
<1> QED BY <1>1, <1>3 DEF t

LEMMA CommandAlone ==
    ASSUME NEW table, NEW most \in Nat, NEW text \in Spellings, NEW at \in Nat, NEW size \in Nat,
           NEW inside \in 1..most, CommandsLie(table[inside], at, at + size)
    PROVE  LET t == Token("command", 0, at, size, text, inside, FALSE)
           IN  WellFormed(<<t>>, table, most) /\ Lie(<<t>>, at, at + size)
<1> DEFINE t == Token("command", 0, at, size, text, inside, FALSE)
<1>0. inside \in Nat /\ 0 \in Nat /\ inside # 0 /\ inside <= most OBVIOUS
<1>1. /\ t \in Tokens /\ t.type = "command" /\ t.n = 0 /\ t.at = at /\ End(t) = at + size
      /\ t.inside = inside
  BY <1>0 DEF Token, Tokens, End, TokenTypes, NoScript
<1> HIDE DEF t
<1>2. "command" \in {"text", "command"} /\ inside # NoScript BY <1>0 DEF NoScript
<1>3. WellFormed(<<t>>, table, most) /\ Lie(<<t>>, t.at, End(t)) BY <1>0, <1>1, <1>2, Alone
<1> QED BY <1>1, <1>3 DEF t

\* A token that says nothing of scripts, in front of its components.
LEMMA PlainWrapped ==
    ASSUME NEW table, NEW most \in Nat, NEW s, WellFormed(s, table, most), s # <<>>,
           NEW t \in Tokens, t.type \in {"word", "expand", "variable"}, t.n = Len(s),
           t.inside = NoScript, Lie(s, t.at, End(t))
    PROVE  WellFormed(<<t>> \o s, table, most) /\ Lie(<<t>> \o s, t.at, End(t))
<1>0. s \in Seq(Tokens) BY DEF WellFormed
<1>1. Len(s) \in Nat /\ Len(s) > 0 BY <1>0
<1>2. t.type # "simple" /\ t.type # "command" OBVIOUS
<1>3. NoScript <= most BY DEF NoScript
<1> QED BY <1>1, <1>2, <1>3, Wrapped

\* The name of a variable.
LEMMA NameAlone ==
    ASSUME NEW table, NEW most \in Nat, NEW at \in Nat, NEW name \in Spellings
    PROVE  LET x == Text(name, at + 1, 1, NoScript, FALSE)
           IN  /\ WellFormed(<<x>>, table, most) /\ Lie(<<x>>, at, at + 2)
               /\ <<x>> \in Seq(Tokens) /\ x \in Tokens
<1> DEFINE x == Text(name, at + 1, 1, NoScript, FALSE)
<1>1. WellFormed(<<x>>, table, most) /\ Lie(<<x>>, at + 1, (at + 1) + 1)
  <2>1. NoScript \in 0..most /\ ~(NoScript # NoScript) /\ at + 1 \in Nat /\ 1 \in Nat BY DEF NoScript
  <2> QED BY <2>1, NamesOfTypes, TextAlone
<1>2. x \in Tokens BY DEF Text, Token, Tokens, TokenTypes, NoScript
<1> HIDE DEF x
<1>3. <<x>> \in Seq(Tokens) BY <1>2
<1>4. /\ at + 1 \in Int /\ (at + 1) + 1 \in Int /\ at \in Int /\ at + 2 \in Int
      /\ at <= at + 1 /\ (at + 1) + 1 <= at + 2
  OBVIOUS
<1>5. Lie(<<x>>, at, at + 2) BY <1>1, <1>3, <1>4, WiderLie
<1> QED BY <1>1, <1>2, <1>3, <1>5 DEF x

LEMMA VariablePart ==
    ASSUME NEW table, NEW most \in Nat, NEW at \in Nat, NEW name \in Spellings
    PROVE  LET g == <<Token("variable", 1, at, 2, name, NoScript, FALSE),
                      Text(name, at + 1, 1, NoScript, FALSE)>>
           IN  WellFormed(g, table, most) /\ Lie(g, at, at + 2)
<1> DEFINE x == Text(name, at + 1, 1, NoScript, FALSE)
           t == Token("variable", 1, at, 2, name, NoScript, FALSE)
<1>1. WellFormed(<<x>>, table, most) /\ Lie(<<x>>, at, at + 2) /\ x \in Tokens
  BY NameAlone
<1>2. /\ t \in Tokens /\ t.type = "variable" /\ t.n = 1 /\ t.at = at /\ End(t) = at + 2
      /\ t.inside = NoScript
  BY DEF Token, Tokens, End, TokenTypes, NoScript
<1> HIDE DEF x, t
<1>3. Len(<<x>>) = 1 /\ <<x>> # <<>> OBVIOUS
<1>4. t.type \in {"word", "expand", "variable"} BY <1>2
<1>5. WellFormed(<<t>> \o <<x>>, table, most) /\ Lie(<<t>> \o <<x>>, at, at + 2)
  BY <1>1, <1>2, <1>3, <1>4, PlainWrapped
<1>6. <<t>> \o <<x>> = <<t, x>>
  <2>1. <<x>> \in Seq(Tokens) BY <1>1
  <2> QED BY <1>1, <1>2, <2>1, ChainedPair
<1> QED BY <1>5, <1>6 DEF t, x

LEMMA ArrayPart ==
    ASSUME NEW table, NEW most \in Nat, NEW at \in Nat, NEW size \in Nat, NEW name \in Spellings,
           NEW items, WellFormed(items, table, most), Lie(items, at + 2, at + size), size >= 2
    PROVE  LET g == <<Token("variable", 1 + Len(items), at, size, name, NoScript, FALSE),
                      Text(name, at + 1, 1, NoScript, FALSE)>> \o items
           IN  WellFormed(g, table, most) /\ Lie(g, at, at + size)
<1> DEFINE x == Text(name, at + 1, 1, NoScript, FALSE)
           t == Token("variable", 1 + Len(items), at, size, name, NoScript, FALSE)
           s == <<x>> \o items
<1>0. items \in Seq(Tokens) BY DEF WellFormed
<1>l. Len(items) \in Nat BY <1>0
<1>1. WellFormed(<<x>>, table, most) /\ Lie(<<x>>, at, at + 2) /\ x \in Tokens /\ <<x>> \in Seq(Tokens)
  BY NameAlone
<1>t. /\ t \in Tokens /\ t.type = "variable" /\ t.n = 1 + Len(items) /\ t.at = at
      /\ End(t) = at + size /\ t.inside = NoScript
  BY <1>l DEF Token, Tokens, End, TokenTypes, NoScript
<1> HIDE DEF x, t
<1>2. /\ at \in Int /\ at + 2 \in Int /\ at + size \in Int
      /\ at <= at /\ at <= at + 2 /\ at + 2 <= at + size /\ at + size <= at + size
  OBVIOUS
<1>3. WellFormed(s, table, most) BY <1>1, <1>2, JoinedParts
<1>4. Lie(<<x>>, at, at + size) /\ Lie(items, at, at + size)
  BY <1>0, <1>1, <1>2, WiderLie
<1>5. Lie(s, at, at + size)
  <2>1. at \in Int /\ at + size \in Int OBVIOUS
  <2> QED BY <1>0, <1>1, <1>4, <2>1, JoinedLie
<1>6. Len(s) = 1 + Len(items) /\ s # <<>>
  <2>1. Len(s) = Len(<<x>>) + Len(items) BY <1>0, <1>1, Joined
  <2>2. Len(<<x>>) = 1 OBVIOUS
  <2> HIDE DEF s
  <2> QED BY <2>1, <2>2, <1>l
<1> HIDE DEF s
<1>7. t.type \in {"word", "expand", "variable"} BY <1>t
<1>8. WellFormed(<<t>> \o s, table, most) /\ Lie(<<t>> \o s, at, at + size)
  BY <1>3, <1>5, <1>6, <1>7, <1>t, PlainWrapped
<1>10. <<t>> \o s = <<t, x>> \o items
  <2>1. t \in Tokens /\ x \in Tokens BY <1>1, <1>t
  <2>2. <<t>> \in Seq(Tokens) /\ <<x>> \in Seq(Tokens) BY <2>1
  <2>3. <<t>> \o <<x>> = <<t, x>> BY <2>1, ChainedPair
  <2> DEFINE a == <<t>>
             b == <<x>>
  <2> HIDE DEF a, b
  <2>4. a \o (b \o items) = (a \o b) \o items BY <1>0, <2>2, Associative DEF a, b
  <2> QED BY <2>3, <2>4 DEF s, a, b
<1> QED BY <1>8, <1>10 DEF t, x

LEMMA WordIs ==
    ASSUME NEW table, NEW most \in Nat, NEW parts, WellFormed(parts, table, most), parts # <<>>,
           NEW t \in Tokens, t.type \in {"word", "expand"}, t.n = Len(parts),
           t.inside = NoScript, Lie(parts, t.at, End(t))
    PROVE  /\ WellFormed(<<t>> \o parts, table, most) /\ Lie(<<t>> \o parts, t.at, End(t))
           /\ IsWord(<<t>> \o parts) /\ (<<t>> \o parts)[1].type # "simple"
<1> DEFINE g == <<t>> \o parts
<1>0. parts \in Seq(Tokens) BY DEF WellFormed
<1>1. t.type \in {"word", "expand", "variable"} /\ t.type # "simple" OBVIOUS
<1>2. WellFormed(g, table, most) /\ Lie(g, t.at, End(t)) BY <1>1, PlainWrapped
<1>3. Len(g) = Len(parts) + 1 /\ g[1] = t /\ Len(parts) \in Nat BY <1>0, Prefixed
<1> HIDE DEF g
<1>4. g # <<>> BY <1>3
<1>5. IsWord(g) /\ g[1].type # "simple" BY <1>1, <1>3, <1>4 DEF IsWord
<1> QED BY <1>2, <1>5 DEF g

IsSimple(g, text, at, size, inside) ==
    \E list \in BOOLEAN : g = Simple(text, at, size, inside, list)

LEMMA SimpleIs ==
    ASSUME NEW table, NEW most \in Nat, NEW text \in Spellings, NEW at \in Nat, NEW size \in Nat,
           NEW inside \in 0..most, inside # NoScript => CommandsLie(table[inside], at, at + size),
           NEW g, IsSimple(g, text, at, size, inside)
    PROVE  /\ WellFormed(g, table, most) /\ Lie(g, at, at + size) /\ IsWord(g)
           /\ Len(g) = 2 /\ g[2].inside = inside
<1>0. PICK list \in BOOLEAN : g = Simple(text, at, size, inside, list) BY DEF IsSimple
<1> DEFINE x == Text(text, at, size, inside, list)
           t == Token("simple", 1, at, size, text, NoScript, FALSE)
<1>s. g = <<t, x>> BY <1>0 DEF Simple
<1>1. WellFormed(<<x>>, table, most) /\ Lie(<<x>>, at, at + size)
  BY TextAlone
<1>3. x \in Tokens /\ x.inside = inside
  BY DEF Text, Token, Tokens, TokenTypes
<1>4. /\ t \in Tokens /\ t.type = "simple" /\ t.n = 1 /\ t.at = at /\ End(t) = at + size
      /\ t.inside = NoScript
  BY DEF Token, Tokens, End, TokenTypes, NoScript
<1> HIDE DEF x, t
<1>5. /\ Len(<<x>>) = 1 /\ t.type \notin {"word", "expand", "variable"} /\ t.type # "command"
      /\ <<x>> \in Seq(Tokens)
  BY <1>3, <1>4
<1>6. NoScript <= most BY DEF NoScript
<1>7. WellFormed(<<t>> \o <<x>>, table, most) /\ Lie(<<t>> \o <<x>>, at, at + size)
  BY <1>1, <1>4, <1>5, <1>6, Wrapped
<1>8. <<t>> \o <<x>> = g BY <1>s, <1>3, <1>4, <1>5, ChainedPair
<1>9. Len(g) = 2 /\ g[1] = t /\ g[2] = x /\ g # <<>> BY <1>s
<1>10. IsWord(g) BY <1>4, <1>9 DEF IsWord
<1> QED BY <1>3, <1>4, <1>7, <1>8, <1>9, <1>10

-----------------------------------------------------------------------------
(* Tables of scripts.                                                      *)

LEMMA StaysWellFormed ==
    ASSUME NEW t1, NEW t2, NEW m1 \in Nat, NEW m2 \in Nat, m1 <= m2,
           \A i \in 1..m1 : t2[i] = t1[i],
           NEW s, WellFormed(s, t1, m1)
    PROVE  WellFormed(s, t2, m2)
<1>0. s \in Seq(Tokens) BY DEF WellFormed
<1>1. ASSUME NEW k \in 1..Len(s)
      PROVE  /\ s[k].inside <= m2
             /\ s[k].inside # NoScript => CommandsLie(t2[s[k].inside], s[k].at, End(s[k]))
  <2>1. s[k].inside \in Nat BY <1>0, TokensTyped
  <2>2. /\ s[k].inside <= m1
        /\ s[k].inside # NoScript => CommandsLie(t1[s[k].inside], s[k].at, End(s[k]))
    BY DEF WellFormed, Encloses
  <2>3. s[k].inside # NoScript => s[k].inside \in 1..m1 BY <2>1, <2>2 DEF NoScript
  <2> QED BY <2>1, <2>2, <2>3
<1>2. Encloses(s, t2, m2) BY <1>1 DEF Encloses
<1> QED BY <1>2 DEF WellFormed

LEMMA StaysCommandSoFar ==
    ASSUME NEW t1, NEW t2, NEW m1 \in Nat, NEW m2 \in Nat, m1 <= m2,
           \A i \in 1..m1 : t2[i] = t1[i],
           NEW s, CommandSoFar(s, t1, m1)
    PROVE  CommandSoFar(s, t2, m2)
BY StaysWellFormed DEF CommandSoFar

LEMMA StaysCommand ==
    ASSUME NEW t1, NEW t2, NEW m1 \in Nat, NEW m2 \in Nat, m1 <= m2,
           \A i \in 1..m1 : t2[i] = t1[i],
           NEW s, IsCommand(s, t1, m1)
    PROVE  IsCommand(s, t2, m2)
BY StaysWellFormed DEF IsCommand

Commands == Seq(Seq(Tokens))

\* The commands of a script, one behind the other with something between them.
IsScript(commands, table, most) ==
    /\ commands \in Commands
    /\ \A i \in 1..Len(commands) : IsCommand(commands[i], table, most)
    /\ \A i, j \in 1..Len(commands) : i < j =>
           \A k \in 1..Len(commands[i]), l \in 1..Len(commands[j]) :
               End(commands[i][k]) < commands[j][l].at

LEMMA StaysScript ==
    ASSUME NEW t1, NEW t2, NEW m1 \in Nat, NEW m2 \in Nat, m1 <= m2,
           \A i \in 1..m1 : t2[i] = t1[i],
           NEW s, IsScript(s, t1, m1)
    PROVE  IsScript(s, t2, m2)
<1>1. \A i \in 1..Len(s) : IsCommand(s[i], t2, m2) BY StaysCommand DEF IsScript
<1> QED BY <1>1 DEF IsScript

\* A table of the scripts in the text so far, each behind those in it.
IsTable(table, end) ==
    /\ table \in Seq(Commands)
    /\ \A s \in 1..Len(table) : IsScript(table[s], table, s - 1) /\ CommandsLie(table[s], 0, end)

LEMMA WiderCommandsLie ==
    ASSUME NEW s \in Commands, NEW f1 \in Int, NEW t1 \in Int, NEW f2 \in Int, NEW t2 \in Int,
           CommandsLie(s, f1, t1), f2 <= f1, t1 <= t2
    PROVE  CommandsLie(s, f2, t2)
<1>1. \A i \in 1..Len(s) : s[i] \in Seq(Tokens) BY DEF Commands
<1> QED BY <1>1, WiderLie DEF CommandsLie

LEMMA CommandAppended ==
    ASSUME NEW table, NEW most \in Nat, NEW s, IsScript(s, table, most), NEW c, IsCommand(c, table, most),
           NEW from \in Int, NEW at \in Int, NEW to \in Int, CommandsLie(s, from, at - 1),
           Lie(c, at, to), from <= at, at - 1 <= to
    PROVE  IsScript(s \o <<c>>, table, most) /\ CommandsLie(s \o <<c>>, from, to)
<1> DEFINE u == s \o <<c>>
<1>0. s \in Commands /\ c \in Seq(Tokens) BY DEF IsScript, IsCommand, WellFormed
<1>1. /\ u \in Commands /\ Len(u) = Len(s) + 1 /\ Len(s) \in Nat
      /\ \A k \in 1..Len(u) : (k \in 1..Len(s) /\ u[k] = s[k]) \/ (k = Len(s) + 1 /\ u[k] = c)
  BY <1>0 DEF Commands
<1> HIDE DEF u
<1>2. \A i \in 1..Len(u) : IsCommand(u[i], table, most) BY <1>1 DEF IsScript
<1>3. ASSUME NEW i \in 1..Len(u), NEW j \in 1..Len(u), i < j,
             NEW k \in 1..Len(u[i]), NEW l \in 1..Len(u[j])
      PROVE  End(u[i][k]) < u[j][l].at
  <2>1. i \in 1..Len(s) /\ u[i] = s[i] BY <1>1, <1>3
  <2>2. CASE j \in 1..Len(s) /\ u[j] = s[j] BY <1>3, <2>1, <2>2 DEF IsScript
  <2>3. CASE u[j] = c
    <3>1. End(u[i][k]) <= at - 1 BY <2>1 DEF CommandsLie, Lie
    <3>2. at <= u[j][l].at BY <2>3 DEF Lie
    <3>3. u[i] \in Seq(Tokens) /\ u[j] \in Seq(Tokens) BY <1>1 DEF Commands
    <3>4. End(u[i][k]) \in Nat /\ u[j][l].at \in Nat BY <3>3, TokensTyped
    <3> QED BY <3>1, <3>2, <3>4
  <2> QED BY <1>1, <2>2, <2>3
<1>4. CommandsLie(u, from, to)
  <2>1. CommandsLie(s, from, to) BY <1>0, WiderCommandsLie
  <2>2. Lie(c, from, to) BY <1>0, WiderLie
  <2> QED BY <1>1, <2>1, <2>2 DEF CommandsLie
<1> QED BY <1>1, <1>2, <1>3, <1>4 DEF IsScript, u

LEMMA TableAppended ==
    ASSUME NEW table, NEW e1 \in Nat, NEW e2 \in Nat, IsTable(table, e1), e1 <= e2,
           NEW s, IsScript(s, table, Len(table)), CommandsLie(s, 0, e2)
    PROVE  /\ IsTable(Append(table, s), e2)
           /\ Len(Append(table, s)) = Len(table) + 1
           /\ Append(table, s)[Len(table) + 1] = s
           /\ \A i \in 1..Len(table) : Append(table, s)[i] = table[i]
<1> DEFINE u == Append(table, s)
<1>0. table \in Seq(Commands) /\ s \in Commands BY DEF IsTable, IsScript
<1>1. /\ u \in Seq(Commands) /\ Len(u) = Len(table) + 1 /\ Len(table) \in Nat
      /\ u[Len(table) + 1] = s
      /\ \A i \in 1..Len(table) : u[i] = table[i]
  BY <1>0
<1> HIDE DEF u
<1>2. ASSUME NEW i \in 1..Len(u)
      PROVE  IsScript(u[i], u, i - 1) /\ CommandsLie(u[i], 0, e2)
  <2>1. CASE i \in 1..Len(table)
    <3>1. IsScript(table[i], table, i - 1) /\ CommandsLie(table[i], 0, e1) BY <2>1 DEF IsTable
    <3>2. i - 1 \in Nat /\ \A j \in 1..(i - 1) : u[j] = table[j] BY <1>1, <2>1
    <3>3. IsScript(table[i], u, i - 1) BY <3>1, <3>2, StaysScript
    <3>4. table[i] \in Commands BY <1>0, <2>1
    <3>5. CommandsLie(table[i], 0, e2) BY <3>1, <3>4, WiderCommandsLie
    <3> QED BY <1>1, <2>1, <3>3, <3>5
  <2>2. CASE i = Len(table) + 1
    <3>1. IsScript(s, u, Len(table)) BY <1>1, StaysScript
    <3> QED BY <1>1, <2>2, <3>1
  <2> QED BY <1>1, <2>1, <2>2
<1>3. IsTable(u, e2) BY <1>1, <1>2 DEF IsTable
<1> QED BY <1>1, <1>3 DEF u

LEMMA WiderTable ==
    ASSUME NEW table, NEW e1 \in Nat, NEW e2 \in Nat, IsTable(table, e1), e1 <= e2
    PROVE  IsTable(table, e2)
<1>1. \A s \in 1..Len(table) : table[s] \in Commands BY DEF IsTable
<1> QED BY <1>1, WiderCommandsLie DEF IsTable

-----------------------------------------------------------------------------
(* The stack of what is open.                                              *)

ScriptFrames == {"script", "brace", "bracket"}
WordFrames == {"quote", "bare", "expand", "array"}
Items == Seq(Tokens) \cup Commands
Frames == [type : ScriptFrames \cup WordFrames \cup {"command"}, at : Nat, items : Items]

\* What stands in front of the items.
Mark(type) == IF type \in {"expand", "array"} THEN 3
              ELSE IF type \in {"brace", "bracket", "quote"} THEN 1 ELSE 0

OnTop(below, above) ==
    \/ below \in ScriptFrames /\ above = "command"
    \/ below = "command" /\ above \in Openings
    \/ below \in WordFrames /\ above \in {"array", "bracket"}

\* What is in a frame is of its kind and ends where it may.
Holds(frame, end, table) ==
    \/ /\ frame.type \in ScriptFrames
       /\ IsScript(frame.items, table, Len(table))
       /\ CommandsLie(frame.items, frame.at + Mark(frame.type), end)
    \/ /\ frame.type = "command"
       /\ CommandSoFar(frame.items, table, Len(table))
       /\ Lie(frame.items, frame.at, end)
    \/ /\ frame.type \in WordFrames
       /\ WellFormed(frame.items, table, Len(table))
       /\ Lie(frame.items, frame.at + Mark(frame.type), end)

\* Behind a command there is something that ends it, behind a word a blank.
EndOnTop(type, here) == IF type \in ScriptFrames THEN here - 1 ELSE here
EndBelow(type, at) == IF type \in WordFrames THEN at ELSE at - 1

IsTop(frame, here, table) ==
    /\ frame.at + Mark(frame.type) <= here
    /\ Holds(frame, EndOnTop(frame.type, here), table)

IsBelow(frame, at, table) ==
    /\ frame.at + Mark(frame.type) <= at
    /\ Holds(frame, EndBelow(frame.type, at), table)

IsStack(stack, here, table) ==
    /\ stack \in Seq(Frames)
    /\ Len(stack) > 0
    /\ stack[1].type = "script"
    /\ \A i \in 1..(Len(stack) - 1) : /\ OnTop(stack[i].type, stack[i + 1].type)
                                      /\ IsBelow(stack[i], stack[i + 1].at, table)
    /\ IsTop(stack[Len(stack)], here, table)

\* Scripts are only added to a table.
Extends(table, longer) ==
    /\ table \in Seq(Commands) /\ longer \in Seq(Commands)
    /\ Len(table) <= Len(longer)
    /\ \A i \in 1..Len(table) : longer[i] = table[i]

LEMMA ExtendsItself ==
    ASSUME NEW table \in Seq(Commands)
    PROVE  Extends(table, table)
BY DEF Extends

LEMMA TypesApart ==
    /\ \A t \in ScriptFrames : t # "command" /\ t \notin WordFrames
    /\ \A t \in WordFrames : t # "command" /\ t \notin ScriptFrames
    /\ "command" \notin ScriptFrames /\ "command" \notin WordFrames
BY DEF ScriptFrames, WordFrames

LEMMA MarkTyped == \A type : Mark(type) \in 0..3
BY DEF Mark

LEMMA FrameTyped ==
    ASSUME NEW f \in Frames
    PROVE  /\ f.type \in ScriptFrames \cup WordFrames \cup {"command"}
           /\ f.at \in Nat /\ f.items \in Items
BY DEF Frames

LEMMA StaysHolds ==
    ASSUME NEW table, NEW longer, Extends(table, longer), NEW f, NEW end, Holds(f, end, table)
    PROVE  Holds(f, end, longer)
<1>1. /\ Len(table) \in Nat /\ Len(longer) \in Nat /\ Len(table) <= Len(longer)
      /\ \A i \in 1..Len(table) : longer[i] = table[i]
  BY DEF Extends
<1>2. CASE f.type \in ScriptFrames /\ IsScript(f.items, table, Len(table))
  BY <1>1, <1>2, StaysScript, TypesApart DEF Holds
<1>3. CASE f.type = "command" /\ CommandSoFar(f.items, table, Len(table))
  BY <1>1, <1>3, StaysCommandSoFar, TypesApart DEF Holds
<1>4. CASE f.type \in WordFrames /\ WellFormed(f.items, table, Len(table))
  BY <1>1, <1>4, StaysWellFormed, TypesApart DEF Holds
<1> QED BY <1>2, <1>3, <1>4 DEF Holds

\* A frame on top is replaced, those above it are gone.
LEMMA TopReplaced ==
    ASSUME NEW table, NEW longer, Extends(table, longer),
           NEW st, NEW here, IsStack(st, here, table),
           NEW new \in Seq(Frames), Len(new) \in 1..Len(st),
           \A i \in 1..(Len(new) - 1) : new[i] = st[i],
           new[Len(new)].type = st[Len(new)].type,
           new[Len(new)].at = st[Len(new)].at,
           NEW now, IsTop(new[Len(new)], now, longer)
    PROVE  IsStack(new, now, longer)
<1>0. st \in Seq(Frames) /\ Len(st) \in Nat /\ Len(new) \in Nat BY DEF IsStack
<1>1. \A i \in 1..Len(new) : new[i].type = st[i].type /\ new[i].at = st[i].at
  <2>1. \A i \in 1..Len(new) : i = Len(new) \/ i \in 1..(Len(new) - 1) BY <1>0
  <2> QED BY <2>1
<1>2. new[1].type = "script"
  <2>1. 1 \in 1..Len(new) BY <1>0
  <2> QED BY <1>1, <2>1 DEF IsStack
<1>3. ASSUME NEW i \in 1..(Len(new) - 1)
      PROVE  OnTop(new[i].type, new[i + 1].type) /\ IsBelow(new[i], new[i + 1].at, longer)
  <2>1. i \in 1..(Len(st) - 1) /\ i \in 1..Len(new) /\ i + 1 \in 1..Len(new) BY <1>0
  <2>2. OnTop(st[i].type, st[i + 1].type) /\ IsBelow(st[i], st[i + 1].at, table)
    BY <2>1 DEF IsStack
  <2>3. IsBelow(st[i], st[i + 1].at, longer) BY <2>2, StaysHolds DEF IsBelow
  <2> QED BY <1>1, <2>1, <2>2, <2>3
<1> QED BY <1>0, <1>2, <1>3 DEF IsStack

LEMMA Pushed ==
    ASSUME NEW table, NEW longer, Extends(table, longer),
           NEW st, NEW here, IsStack(st, here, table),
           NEW f \in Frames, OnTop(st[Len(st)].type, f.type),
           IsBelow(st[Len(st)], f.at, table),
           NEW now, IsTop(f, now, longer)
    PROVE  IsStack(Append(st, f), now, longer)
<1> DEFINE new == Append(st, f)
<1>0. st \in Seq(Frames) /\ Len(st) \in Nat /\ Len(st) > 0 BY DEF IsStack
<1>1. /\ new \in Seq(Frames) /\ Len(new) = Len(st) + 1 /\ new[Len(st) + 1] = f
      /\ \A i \in 1..Len(st) : new[i] = st[i]
  BY <1>0
<1> HIDE DEF new
<1>2. new[1].type = "script"
  <2>1. 1 \in 1..Len(st) BY <1>0
  <2> QED BY <1>1, <2>1 DEF IsStack
<1>3. ASSUME NEW i \in 1..(Len(new) - 1)
      PROVE  OnTop(new[i].type, new[i + 1].type) /\ IsBelow(new[i], new[i + 1].at, longer)
  <2>1. CASE i = Len(st)
    <3>1. new[i] = st[i] /\ new[i + 1] = f BY <1>0, <1>1, <2>1
    <3> QED BY <2>1, <3>1, StaysHolds DEF IsBelow
  <2>2. CASE i \in 1..(Len(st) - 1)
    <3>1. new[i] = st[i] /\ new[i + 1] = st[i + 1] BY <1>0, <1>1, <2>2
    <3>2. OnTop(st[i].type, st[i + 1].type) /\ IsBelow(st[i], st[i + 1].at, table)
      BY <2>2 DEF IsStack
    <3> QED BY <3>1, <3>2, StaysHolds DEF IsBelow
  <2> QED BY <1>0, <1>1, <2>1, <2>2
<1>4. new[Len(new)] = f BY <1>1
<1> QED BY <1>0, <1>1, <1>2, <1>3, <1>4 DEF IsStack, new

LEMMA Replaced ==
    ASSUME NEW S, NEW s \in Seq(S), NEW m \in 1..Len(s), NEW e \in S
    PROVE  /\ [s EXCEPT ![m] = e] \in Seq(S) /\ Len([s EXCEPT ![m] = e]) = Len(s)
           /\ [s EXCEPT ![m] = e][m] = e
           /\ \A i \in 1..Len(s) : i # m => [s EXCEPT ![m] = e][i] = s[i]
OBVIOUS

\* More items in the frame at a place that ends up on top.
WithMore(stack, m, items) == [stack EXCEPT ![m].items = @ \o items]

LEMMA ItemsAdded ==
    ASSUME NEW st \in Seq(Frames), NEW m \in 1..Len(st), NEW items,
           st[m].items \o items \in Items
    PROVE  /\ WithMore(st, m, items) \in Seq(Frames)
           /\ Len(WithMore(st, m, items)) = Len(st)
           /\ \A i \in 1..Len(st) : i # m => WithMore(st, m, items)[i] = st[i]
           /\ WithMore(st, m, items)[m].type = st[m].type
           /\ WithMore(st, m, items)[m].at = st[m].at
           /\ WithMore(st, m, items)[m].items = st[m].items \o items
<1> DEFINE f == [st[m] EXCEPT !.items = @ \o items]
           new == WithMore(st, m, items)
<1>1. st[m] \in Frames OBVIOUS
<1>2. f \in Frames /\ f.type = st[m].type /\ f.at = st[m].at /\ f.items = st[m].items \o items
  BY <1>1 DEF Frames
<1>3. new = [st EXCEPT ![m] = f] BY DEF WithMore
<1> HIDE DEF f, new
<1>4. /\ new \in Seq(Frames) /\ Len(new) = Len(st) /\ new[m] = f
      /\ \A i \in 1..Len(st) : i # m => new[i] = st[i]
  BY <1>2, <1>3, Replaced
<1>5. /\ new \in Seq(Frames) /\ Len(new) = Len(st)
      /\ \A i \in 1..Len(st) : i # m => new[i] = st[i]
      /\ new[m].type = st[m].type /\ new[m].at = st[m].at
      /\ new[m].items = st[m].items \o items
  BY <1>2, <1>4
<1> QED BY <1>5 DEF new

LEMMA FrontIs ==
    ASSUME NEW st \in Seq(Frames), Len(st) > 0
    PROVE  /\ Front(st) \in Seq(Frames) /\ Len(Front(st)) = Len(st) - 1
           /\ \A i \in 1..(Len(st) - 1) : Front(st)[i] = st[i]
BY DEF Front

\* A frame with more items.
Grown(f2, f, items) == f2.type = f.type /\ f2.at = f.at /\ f2.items = f.items \o items

\* A part more in a word, a word more in a command, a command more in a script.
LEMMA PartAdded ==
    ASSUME NEW table, NEW longer, Extends(table, longer),
           NEW f \in Frames, f.type \in WordFrames, NEW at \in Nat, IsBelow(f, at, table),
           NEW g, WellFormed(g, longer, Len(longer)), NEW now \in Nat, Lie(g, at, now), at <= now
    PROVE  /\ f.items \o g \in Items
           /\ \A f2 : Grown(f2, f, g) => IsTop(f2, now, longer)
<1>0. f.at \in Nat /\ Mark(f.type) \in Nat BY FrameTyped, MarkTyped
<1>1. /\ WellFormed(f.items, table, Len(table))
      /\ Lie(f.items, f.at + Mark(f.type), at) /\ f.at + Mark(f.type) <= at
  BY TypesApart DEF IsBelow, Holds, EndBelow
<1>2. WellFormed(f.items, longer, Len(longer))
  <2>1. Len(table) \in Nat /\ Len(longer) \in Nat BY DEF Extends
  <2> QED BY <1>1, <2>1, StaysWellFormed DEF Extends
<1>3. f.items \in Seq(Tokens) /\ g \in Seq(Tokens) BY <1>1 DEF WellFormed
<1> DEFINE from == f.at + Mark(f.type)
<1>4. from \in Int /\ at \in Int /\ now \in Int /\ from <= at BY <1>0, <1>1
<1>5. Lie(f.items, from, at) BY <1>1
<1>t. Len(longer) \in Nat BY DEF Extends
<1> HIDE DEF from
<1>6. WellFormed(f.items \o g, longer, Len(longer))
  BY <1>2, <1>4, <1>5, <1>t, JoinedParts
<1>7. Lie(f.items, from, now) /\ Lie(g, from, now) BY <1>3, <1>4, <1>5, WiderLie
<1>8. Lie(f.items \o g, from, now) BY <1>3, <1>4, <1>7, JoinedLie
<1>10. f.items \o g \in Items BY <1>6 DEF WellFormed, Items
<1>11. EndOnTop(f.type, now) = now BY TypesApart DEF EndOnTop
<1>12. from <= now BY <1>4
<1> QED BY <1>6, <1>8, <1>10, <1>11, <1>12 DEF IsTop, Holds, Grown, from

LEMMA WordAdded ==
    ASSUME NEW table, NEW longer, Extends(table, longer),
           NEW f \in Frames, f.type = "command", NEW at \in Nat, IsBelow(f, at, table),
           NEW g, WellFormed(g, longer, Len(longer)), NEW now \in Nat, Lie(g, at, now), at <= now,
           IsWord(g), g[1].type = "simple" => g[2].inside # NoScript
    PROVE  /\ f.items \o g \in Items
           /\ \A f2 : Grown(f2, f, g) => IsTop(f2, now, longer)
<1>0. f.at \in Nat /\ Mark("command") = 0 BY FrameTyped DEF Mark
<1>1. /\ CommandSoFar(f.items, table, Len(table))
      /\ Lie(f.items, f.at, at - 1) /\ f.at <= at
  BY <1>0, TypesApart DEF IsBelow, Holds, EndBelow
<1>t. Len(table) \in Nat /\ Len(longer) \in Nat BY DEF Extends
<1>2. CommandSoFar(f.items, longer, Len(longer))
  BY <1>t, <1>1, StaysCommandSoFar DEF Extends
<1>3. f.items \in Seq(Tokens) /\ g \in Seq(Tokens) BY <1>1 DEF CommandSoFar, WellFormed
<1>4. f.at \in Int /\ at \in Int /\ now \in Int /\ at - 1 \in Int /\ at - 1 <= now /\ f.at <= now
  BY <1>0, <1>1
<1>6. CommandSoFar(f.items \o g, longer, Len(longer))
  BY <1>1, <1>2, <1>4, <1>t, WordAppended
<1>7. Lie(f.items, f.at, now) /\ Lie(g, f.at, now)
  <2>1. f.at <= f.at /\ now <= now BY <1>4
  <2> QED BY <1>1, <1>3, <1>4, <2>1, WiderLie
<1>8. Lie(f.items \o g, f.at, now) BY <1>3, <1>4, <1>7, JoinedLie
<1>9. f.at + Mark(f.type) <= now BY <1>0, <1>4
<1>10. f.items \o g \in Items BY <1>6 DEF CommandSoFar, WellFormed, Items
<1>11. EndOnTop(f.type, now) = now BY TypesApart DEF EndOnTop
<1> QED BY <1>6, <1>8, <1>9, <1>10, <1>11 DEF IsTop, Holds, Grown

LEMMA CommandAdded ==
    ASSUME NEW table, NEW longer, Extends(table, longer),
           NEW f \in Frames, f.type \in ScriptFrames, NEW at \in Nat, IsBelow(f, at, table),
           NEW c, IsCommand(c, longer, Len(longer)), NEW now \in Nat, Lie(c, at, now - 1), at < now
    PROVE  /\ f.items \o <<c>> \in Items
           /\ \A f2 : Grown(f2, f, <<c>>) => IsTop(f2, now, longer)
<1>0. f.at \in Nat /\ Mark(f.type) \in Nat BY FrameTyped, MarkTyped
<1>1. /\ IsScript(f.items, table, Len(table))
      /\ CommandsLie(f.items, f.at + Mark(f.type), at - 1) /\ f.at + Mark(f.type) <= at
  BY TypesApart DEF IsBelow, Holds, EndBelow
<1>t. Len(table) \in Nat /\ Len(longer) \in Nat BY DEF Extends
<1>2. IsScript(f.items, longer, Len(longer))
  BY <1>1, <1>t, StaysScript DEF Extends
<1> DEFINE from == f.at + Mark(f.type)
           to == now - 1
<1>4. from \in Int /\ at \in Int /\ to \in Int /\ from <= at /\ at - 1 <= to BY <1>0, <1>1
<1>5. CommandsLie(f.items, from, at - 1) /\ Lie(c, at, to) BY <1>1
<1> HIDE DEF from, to
<1>6. IsScript(f.items \o <<c>>, longer, Len(longer)) /\ CommandsLie(f.items \o <<c>>, from, to)
  BY <1>2, <1>4, <1>5, <1>t, CommandAppended
<1>9. EndOnTop(f.type, now) = to BY DEF to, EndOnTop
<1>10. f.items \o <<c>> \in Items BY <1>6 DEF IsScript, Items
<1>11. from <= now BY <1>4 DEF to
<1> QED BY <1>6, <1>9, <1>10, <1>11 DEF IsTop, Holds, Grown, from

\* A frame that has just been begun.
LEMMA NewFrame ==
    ASSUME NEW table \in Seq(Commands), NEW at \in Nat, NEW now \in Nat,
           NEW type \in ScriptFrames \cup WordFrames \cup {"command"}, at + Mark(type) <= now
    PROVE  Frame(type, at) \in Frames /\ IsTop(Frame(type, at), now, table)
<1> DEFINE f == Frame(type, at)
<1>1. f.type = type /\ f.at = at /\ f.items = <<>> BY DEF Frame
<1>2. f \in Frames
  <2>1. <<>> \in Items BY DEF Items
  <2> QED BY <2>1 DEF Frame, Frames
<1>3. Mark(type) \in Nat BY MarkTyped
<1>4. /\ at \in Int /\ at + Mark(type) \in Int /\ now \in Int /\ now - 1 \in Int
      /\ EndOnTop(type, now) \in Int
  BY <1>3 DEF EndOnTop
<1>5. Len(table) \in Nat OBVIOUS
<1>6. /\ WellFormed(<<>>, table, Len(table)) /\ Lie(<<>>, at + Mark(type), EndOnTop(type, now))
      /\ Lie(<<>>, at, EndOnTop(type, now))
  BY <1>4, <1>5, NothingIsWellFormed
<1>7. CommandSoFar(<<>>, table, Len(table))
  BY <1>6 DEF CommandSoFar, Spaced, OfWords, Bodied, Arguments
<1>8. IsScript(<<>>, table, Len(table)) /\ CommandsLie(<<>>, at + Mark(type), EndOnTop(type, now))
  BY DEF IsScript, CommandsLie, Commands
<1> HIDE DEF f
<1>9. Holds(f, EndOnTop(type, now), table) BY <1>1, <1>6, <1>7, <1>8 DEF Holds
<1> QED BY <1>1, <1>2, <1>9 DEF IsTop, f

\* What is on top can have something else put on it, from here on or behind a blank.
LEMMA TopIsBelow ==
    ASSUME NEW table, NEW f \in Frames, NEW here \in Nat, IsTop(f, here, table), NEW at \in Nat,
           here <= at, f.type = "command" => here < at \/ f.items = <<>>
    PROVE  IsBelow(f, at, table)
<1>0. f.at \in Nat /\ Mark(f.type) \in Nat BY FrameTyped, MarkTyped
<1> DEFINE from == f.at + Mark(f.type)
<1>1. from \in Int /\ from <= at /\ from <= here BY <1>0 DEF IsTop
<1> HIDE DEF from
<1>2. CASE /\ f.type \in ScriptFrames /\ IsScript(f.items, table, Len(table))
           /\ CommandsLie(f.items, from, here - 1)
  <2>1. f.items \in Commands BY <1>2 DEF IsScript
  <2>2. here - 1 \in Int /\ at - 1 \in Int /\ here - 1 <= at - 1 /\ from <= from BY <1>1
  <2>3. CommandsLie(f.items, from, at - 1) BY <1>1, <1>2, <2>1, <2>2, WiderCommandsLie
  <2> QED BY <1>1, <1>2, <2>3, TypesApart DEF IsBelow, Holds, EndBelow, from
<1>3. CASE f.type = "command" /\ CommandSoFar(f.items, table, Len(table)) /\ Lie(f.items, f.at, here)
  <2>1. f.items \in Seq(Tokens) BY <1>3 DEF CommandSoFar, WellFormed
  <2>2. Lie(f.items, f.at, at - 1)
    <3>1. CASE here < at
      <4>1. here \in Int /\ at - 1 \in Int /\ here <= at - 1 /\ f.at \in Int /\ f.at <= f.at
        BY <3>1, <1>0
      <4> QED BY <1>3, <2>1, <4>1, WiderLie
    <3>2. CASE f.items = <<>> BY <3>2 DEF Lie
    <3> QED BY <1>3, <3>1, <3>2
  <2> QED BY <1>1, <1>3, <2>2, TypesApart DEF IsBelow, Holds, EndBelow, from
<1>4. CASE f.type \in WordFrames /\ WellFormed(f.items, table, Len(table)) /\ Lie(f.items, from, here)
  <2>1. f.items \in Seq(Tokens) BY <1>4 DEF WellFormed
  <2>2. here \in Int /\ at \in Int /\ from <= from BY <1>1
  <2>3. Lie(f.items, from, at) BY <1>1, <1>4, <2>1, <2>2, WiderLie
  <2> QED BY <1>1, <1>4, <2>3, TypesApart DEF IsBelow, Holds, EndBelow, from
<1>5. Holds(f, EndOnTop(f.type, here), table) BY DEF IsTop
<1> QED BY <1>2, <1>3, <1>4, <1>5, TypesApart DEF Holds, EndOnTop, from

-----------------------------------------------------------------------------
(* The actions that write.                                                 *)

WritingInv ==
    /\ contents \in Seq(Bytes)
    /\ IsTable(texts, Here)
    /\ IsStack(open, Here, texts)

LEMMA WritingTyped ==
    ASSUME WritingInv
    PROVE  /\ open \in Seq(Frames) /\ Len(open) \in Nat /\ Len(open) > 0
           /\ Top = open[Len(open)] /\ Top \in Frames /\ IsTop(Top, Here, texts)
           /\ Here \in Nat
           /\ texts \in Seq(Commands) /\ Len(texts) \in Nat
           /\ Top.at \in Nat /\ Mark(Top.type) \in Nat /\ Top.at + Mark(Top.type) <= Here
<1>1. open \in Seq(Frames) /\ Len(open) > 0 /\ IsTop(open[Len(open)], Here, texts)
  BY DEF WritingInv, IsStack
<1>2. Top = open[Len(open)] BY DEF Top, Last
<1>3. Len(open) \in Nat /\ open[Len(open)] \in Frames BY <1>1
<1>4. texts \in Seq(Commands) /\ contents \in Seq(Bytes) BY DEF WritingInv, IsTable
<1>5. Here \in Nat /\ Len(texts) \in Nat BY <1>4 DEF Here
<1>6. Top.at \in Nat /\ Mark(Top.type) \in Nat BY <1>2, <1>3, FrameTyped, MarkTyped
<1> QED BY <1>1, <1>2, <1>3, <1>4, <1>5, <1>6 DEF IsTop

\* The frame below the top.
LEMMA BelowTop ==
    ASSUME WritingInv, Top.type # "script"
    PROVE  /\ Len(open) - 1 \in 1..Len(open)
           /\ open[Len(open) - 1] \in Frames
           /\ OnTop(open[Len(open) - 1].type, Top.type)
           /\ IsBelow(open[Len(open) - 1], Top.at, texts)
<1>1. /\ open \in Seq(Frames) /\ Len(open) \in Nat /\ Len(open) > 0
      /\ Top = open[Len(open)]
  BY WritingTyped
<1>2. Len(open) # 1 BY <1>1 DEF WritingInv, IsStack
<1>3. Len(open) - 1 \in 1..(Len(open) - 1) /\ (Len(open) - 1) + 1 = Len(open)
  <2> DEFINE n == Len(open)
  <2>1. n \in Nat /\ n > 0 /\ n # 1 BY <1>1, <1>2
  <2> HIDE DEF n
  <2>2. n - 1 \in 1..(n - 1) /\ (n - 1) + 1 = n BY <2>1
  <2> QED BY <2>2 DEF n
<1>4. OnTop(open[Len(open) - 1].type, Top.type) /\ IsBelow(open[Len(open) - 1], Top.at, texts)
  BY <1>1, <1>3 DEF WritingInv, IsStack
<1> QED BY <1>1, <1>3, <1>4

LEMMA SomeIs ==
    ASSUME NEW n \in Nat
    PROVE  Some(n) \in Seq(Bytes) /\ Len(Some(n)) = n
<1>1. "other" \in Bytes BY DEF Bytes
<1> QED BY <1>1 DEF Some

LEMMA Written ==
    ASSUME WritingInv, NEW bytes \in Seq(Bytes), NEW stack, Write(bytes, stack)
    PROVE  /\ contents' \in Seq(Bytes) /\ Here' = Here + Len(bytes) /\ Here' \in Nat
           /\ open' = stack
           /\ Here <= Here'
<1>1. contents \in Seq(Bytes) BY DEF WritingInv
<1>2. contents' = contents \o bytes /\ open' = stack BY DEF Write
<1>3. /\ contents' \in Seq(Bytes) /\ Len(contents') = Len(contents) + Len(bytes)
      /\ Len(contents) \in Nat /\ Len(bytes) \in Nat
  BY <1>1, <1>2
<1> QED BY <1>2, <1>3 DEF Here

LEMMA SameTexts ==
    ASSUME WritingInv, UNCHANGED texts, Here' \in Nat, Here <= Here'
    PROVE  Extends(texts, texts') /\ IsTable(texts', Here')
<1>1. Here \in Nat /\ texts \in Seq(Commands) BY WritingTyped
<1>2. IsTable(texts, Here') BY <1>1, WiderTable DEF WritingInv
<1> QED BY <1>1, <1>2, ExtendsItself

LEMMA MoreTexts ==
    ASSUME WritingInv, NEW s, Find(s), Here' \in Nat, Here <= Here',
           IsScript(s, texts, Len(texts)), CommandsLie(s, 0, Here')
    PROVE  /\ Extends(texts, texts') /\ IsTable(texts', Here')
           /\ Len(texts') = Len(texts) + 1
           /\ texts'[NextScript] = s
<1>1. Here \in Nat /\ texts \in Seq(Commands) /\ Len(texts) \in Nat BY WritingTyped
<1>2. texts' = Append(texts, s) BY DEF Find
<1>3. /\ IsTable(texts', Here') /\ Len(texts') = Len(texts) + 1
      /\ texts'[Len(texts) + 1] = s
      /\ \A i \in 1..Len(texts) : texts'[i] = texts[i]
  BY <1>1, <1>2, TableAppended DEF WritingInv
<1>4. texts' \in Seq(Commands) BY <1>3 DEF IsTable
<1> QED BY <1>1, <1>3, <1>4 DEF Extends, NextScript

LEMMA MoreKeeps ==
    ASSUME WritingInv, NEW items, open' = More(items), contents' \in Seq(Bytes),
           Extends(texts, texts'), IsTable(texts', Here'),
           Top.items \o items \in Items,
           \A f : Grown(f, Top, items) => IsTop(f, Here', texts')
    PROVE  WritingInv'
<1>1. /\ open \in Seq(Frames) /\ Len(open) \in Nat /\ Len(open) > 0
      /\ Top = open[Len(open)]
  BY WritingTyped
<1> DEFINE m == Len(open)
           new == WithMore(open, m, items)
<1>2. m \in 1..Len(open) BY <1>1
<1>3. open' = new BY DEF More, WithMore
<1>4. /\ new \in Seq(Frames) /\ Len(new) = m
      /\ \A i \in 1..(m - 1) : new[i] = open[i]
      /\ new[m].type = open[m].type /\ new[m].at = open[m].at
      /\ new[m].items = open[m].items \o items
  <2>1. open[m].items \o items \in Items BY <1>1
  <2> HIDE DEF m
  <2>2. /\ new \in Seq(Frames) /\ Len(new) = Len(open)
        /\ \A i \in 1..Len(open) : i # m => new[i] = open[i]
        /\ new[m].type = open[m].type /\ new[m].at = open[m].at
        /\ new[m].items = open[m].items \o items
    BY <1>1, <1>2, <2>1, ItemsAdded
  <2> HIDE DEF new
  <2>3. \A i \in 1..(m - 1) : i \in 1..Len(open) /\ i # m BY <1>1 DEF m
  <2>4. Len(open) = m BY DEF m
  <2> QED BY <2>2, <2>3, <2>4
<1> HIDE DEF new
<1>5. IsTop(new[m], Here', texts') BY <1>1, <1>4 DEF Grown
<1>6. IsStack(new, Here', texts')
  <2>1. IsStack(open, Here, texts) BY DEF WritingInv
  <2> QED BY <1>2, <1>4, <1>5, <2>1, TopReplaced
<1> QED BY <1>3, <1>6 DEF WritingInv

LEMMA EndedKeeps ==
    ASSUME WritingInv, Top.type # "script", NEW items, open' = EndedAs(items), contents' \in Seq(Bytes),
           Extends(texts, texts'), IsTable(texts', Here'),
           open[Len(open) - 1].items \o items \in Items,
           \A f : Grown(f, open[Len(open) - 1], items) => IsTop(f, Here', texts')
    PROVE  WritingInv'
<1>1. open \in Seq(Frames) /\ Len(open) \in Nat /\ Len(open) > 0 BY WritingTyped
<1> DEFINE m == Len(open) - 1
           base == Front(open)
           new == WithMore(base, m, items)
<1>2. m \in 1..Len(open) BY BelowTop
<1>3. open' = new BY DEF EndedAs, WithMore
<1>b. base \in Seq(Frames) /\ Len(base) = m /\ \A i \in 1..m : base[i] = open[i]
  BY <1>1, FrontIs
<1> HIDE DEF base
<1>4. /\ new \in Seq(Frames) /\ Len(new) = m
      /\ \A i \in 1..(m - 1) : new[i] = open[i]
      /\ new[m].type = open[m].type /\ new[m].at = open[m].at
      /\ new[m].items = open[m].items \o items
  <2>1. open[m].items \o items \in Items OBVIOUS
  <2> HIDE DEF m
  <2>b. m \in 1..Len(base) /\ base[m] = open[m] BY <1>2, <1>b
  <2>2. /\ new \in Seq(Frames) /\ Len(new) = Len(base)
        /\ \A i \in 1..Len(base) : i # m => new[i] = base[i]
        /\ new[m].type = base[m].type /\ new[m].at = base[m].at
        /\ new[m].items = base[m].items \o items
    BY <1>b, <2>1, <2>b, ItemsAdded
  <2> HIDE DEF new
  <2>3. \A i \in 1..(m - 1) : i \in 1..Len(base) /\ i # m /\ i \in 1..m BY <1>b, <1>2
  <2> QED BY <1>b, <2>b, <2>2, <2>3
<1> HIDE DEF new
<1>5. IsTop(new[m], Here', texts') BY <1>4 DEF Grown
<1> HIDE DEF m
<1>6. IsStack(new, Here', texts')
  <2>1. IsStack(open, Here, texts) BY DEF WritingInv
  <2> QED BY <1>2, <1>4, <1>5, <2>1, TopReplaced
<1> QED BY <1>3, <1>6 DEF WritingInv

LEMMA PushKeeps ==
    ASSUME WritingInv, NEW f \in Frames, open' = Append(open, f), contents' \in Seq(Bytes),
           Extends(texts, texts'), IsTable(texts', Here'),
           OnTop(Top.type, f.type), IsBelow(Top, f.at, texts), IsTop(f, Here', texts')
    PROVE  WritingInv'
<1>1. Top = open[Len(open)] BY WritingTyped
<1>2. IsStack(open, Here, texts) BY DEF WritingInv
<1>3. IsStack(Append(open, f), Here', texts') BY <1>1, <1>2, Pushed
<1> QED BY <1>3 DEF WritingInv

\* What stands on top of the stack can be continued.
LEMMA TopContinues ==
    ASSUME WritingInv, NEW at \in Nat, Here <= at, Top.type = "command" => Here < at \/ Top.items = <<>>
    PROVE  IsBelow(Top, at, texts)
<1>1. Top \in Frames /\ Here \in Nat /\ IsTop(Top, Here, texts) BY WritingTyped
<1> QED BY <1>1, TopIsBelow

\* A part of a word that has no script in it.
LEMMA PartWritten ==
    ASSUME WritingInv, InWord, NEW bytes \in Seq(Bytes), NEW g, Write(bytes, More(g)), UNCHANGED texts,
           WellFormed(g, texts, Len(texts)), Lie(g, Here, Here + Len(bytes))
    PROVE  WritingInv'
<1>1. /\ contents' \in Seq(Bytes) /\ Here' = Here + Len(bytes) /\ Here' \in Nat
      /\ open' = More(g) /\ Here <= Here'
  BY Written
<1>2. Extends(texts, texts') /\ IsTable(texts', Here') BY <1>1, SameTexts
<1>3. Top \in Frames /\ Here \in Nat /\ Top.type \in WordFrames
  BY WritingTyped DEF InWord, WordFrames
<1>4. IsBelow(Top, Here, texts) BY <1>3, TopContinues, TypesApart
<1>5. WellFormed(g, texts', Len(texts')) /\ Lie(g, Here, Here') BY <1>1
<1>6. /\ Top.items \o g \in Items
      /\ \A f2 : Grown(f2, Top, g) => IsTop(f2, Here', texts')
  BY <1>1, <1>2, <1>3, <1>4, <1>5, PartAdded
<1> QED BY <1>1, <1>2, <1>6, MoreKeeps

LEMMA WriteTextKeeps ==
    ASSUME WritingInv, NEW text \in Spellings, WriteText(text)
    PROVE  WritingInv'
<1> DEFINE g == <<Text(text, Here, 1, NoScript, FALSE)>>
<1>1. Here \in Nat /\ Len(texts) \in Nat BY WritingTyped
<1>2. WellFormed(g, texts, Len(texts)) /\ Lie(g, Here, Here + 1)
  <2>1. NoScript \in 0..Len(texts) /\ ~(NoScript # NoScript) /\ 1 \in Nat BY <1>1 DEF NoScript
  <2> QED BY <1>1, <2>1, NamesOfTypes, TextAlone
<1>3. Some(1) \in Seq(Bytes) /\ Len(Some(1)) = 1 BY SomeIs
<1>4. InWord /\ Write(Some(1), More(g)) /\ UNCHANGED texts BY DEF WriteText
<1> HIDE DEF g
<1> QED BY <1>2, <1>3, <1>4, PartWritten

LEMMA WriteVariableKeeps ==
    ASSUME WritingInv, NEW name \in Spellings, WriteVariable(name)
    PROVE  WritingInv'
<1> DEFINE g == <<Token("variable", 1, Here, 2, name, NoScript, FALSE),
                  Text(name, Here + 1, 1, NoScript, FALSE)>>
<1>1. Here \in Nat /\ Len(texts) \in Nat BY WritingTyped
<1>2. WellFormed(g, texts, Len(texts)) /\ Lie(g, Here, Here + 2) BY <1>1, VariablePart
<1>3. Some(2) \in Seq(Bytes) /\ Len(Some(2)) = 2 BY SomeIs
<1>4. InWord /\ Write(Some(2), More(g)) /\ UNCHANGED texts BY DEF WriteVariable
<1> HIDE DEF g
<1> QED BY <1>2, <1>3, <1>4, PartWritten

\* Something is begun on top of what is open.
LEMMA FrameWritten ==
    ASSUME WritingInv, NEW bytes \in Seq(Bytes), NEW type, NEW at \in Nat,
           Write(bytes, Append(open, Frame(type, at))), UNCHANGED texts,
           type \in ScriptFrames \cup WordFrames \cup {"command"},
           OnTop(Top.type, type), Here <= at, Top.type = "command" => Here < at,
           at + Mark(type) <= Here + Len(bytes)
    PROVE  WritingInv'
<1>1. /\ contents' \in Seq(Bytes) /\ Here' = Here + Len(bytes) /\ Here' \in Nat
      /\ open' = Append(open, Frame(type, at)) /\ Here <= Here'
  BY Written
<1>2. Extends(texts, texts') /\ IsTable(texts', Here') BY <1>1, SameTexts
<1>3. IsBelow(Top, at, texts) BY TopContinues
<1>4. texts' \in Seq(Commands) BY <1>2 DEF IsTable
<1>5. Frame(type, at) \in Frames /\ IsTop(Frame(type, at), Here', texts')
  BY <1>1, <1>4, NewFrame
<1>6. Frame(type, at).type = type /\ Frame(type, at).at = at BY DEF Frame
<1> DEFINE f == Frame(type, at)
<1>7. /\ f \in Frames /\ OnTop(Top.type, f.type) /\ IsBelow(Top, f.at, texts) /\ IsTop(f, Here', texts')
      /\ open' = Append(open, f)
  BY <1>1, <1>3, <1>5, <1>6
<1> HIDE DEF f
<1> QED BY <1>1, <1>2, <1>7, PushKeeps

LEMMA OpenArrayKeeps ==
    ASSUME WritingInv, OpenArray
    PROVE  WritingInv'
<1>1. Here \in Nat BY WritingTyped
<1>2. Some(3) \in Seq(Bytes) /\ Len(Some(3)) = 3 BY SomeIs
<1>3. Write(Some(3), Append(open, Frame("array", Here))) /\ UNCHANGED texts BY DEF OpenArray
<1>4. Top.type \in WordFrames BY DEF OpenArray, InWord, WordFrames
<1>5. OnTop(Top.type, "array") /\ "array" \in WordFrames BY <1>4 DEF OnTop, WordFrames
<1>6. Top.type # "command" BY <1>4, TypesApart
<1>7. Here <= Here /\ Here + Mark("array") <= Here + 3 BY <1>1 DEF Mark
<1> QED BY <1>1, <1>2, <1>3, <1>5, <1>6, <1>7, FrameWritten

LEMMA OpenBracketKeeps ==
    ASSUME WritingInv, OpenBracket
    PROVE  WritingInv'
<1>1. Here \in Nat BY WritingTyped
<1>2. Some(1) \in Seq(Bytes) /\ Len(Some(1)) = 1 BY SomeIs
<1>3. Write(Some(1), Append(open, Frame("bracket", Here))) /\ UNCHANGED texts BY DEF OpenBracket
<1>4. Top.type \in WordFrames BY DEF OpenBracket, InWord, WordFrames
<1>5. OnTop(Top.type, "bracket") /\ "bracket" \in ScriptFrames BY <1>4 DEF OnTop, ScriptFrames
<1>6. Top.type # "command" BY <1>4, TypesApart
<1>7. Here <= Here /\ Here + Mark("bracket") <= Here + 1 BY <1>1 DEF Mark
<1> QED BY <1>1, <1>2, <1>3, <1>5, <1>6, <1>7, FrameWritten

LEMMA OpeningIs ==
    ASSUME NEW opening \in Openings
    PROVE  /\ opening \in ScriptFrames \cup WordFrames \cup {"command"}
           /\ Mark(opening) = MarkSize(opening) /\ MarkSize(opening) \in Nat
BY DEF Openings, ScriptFrames, WordFrames, Mark, MarkSize

LEMMA OpenKeeps ==
    ASSUME WritingInv, NEW opening \in Openings, Open(opening)
    PROVE  WritingInv'
<1> DEFINE n == MarkSize(opening)
<1>0. /\ opening \in ScriptFrames \cup WordFrames \cup {"command"}
      /\ Mark(opening) = n /\ n \in Nat
  BY OpeningIs
<1>3. Write(Some(1 + n), Append(open, Frame(opening, Here + 1))) /\ UNCHANGED texts BY DEF Open
<1>4. Top.type = "command" BY DEF Open, InCommand
<1> HIDE DEF n
<1>1. Here \in Nat BY WritingTyped
<1>2. Some(1 + n) \in Seq(Bytes) /\ Len(Some(1 + n)) = 1 + n
  <2>1. 1 + n \in Nat BY <1>0
  <2> QED BY <2>1, SomeIs
<1>5. OnTop(Top.type, opening) BY <1>4 DEF OnTop
<1>7. /\ Here + 1 \in Nat /\ Here <= Here + 1 /\ Here < Here + 1
      /\ (Here + 1) + Mark(opening) <= Here + (1 + n)
  BY <1>0, <1>1
<1> QED BY <1>0, <1>2, <1>3, <1>5, <1>7, FrameWritten

\* As a script a bare word is one command, the bare word.
LEMMA BareScript ==
    ASSUME NEW table, NEW most \in Nat, NEW text \in Spellings, NEW at \in Nat
    PROVE  LET s == <<Simple(text, at, 1, NoScript, FALSE)>>
           IN  IsScript(s, table, most) /\ CommandsLie(s, at, at + 1)
<1> DEFINE c == Simple(text, at, 1, NoScript, FALSE)
           s == <<c>>
<1>1. WellFormed(c, table, most) /\ Lie(c, at, at + 1) /\ IsWord(c) /\ Len(c) = 2
  <2>1. PICK inside \in 0..most : inside = NoScript BY DEF NoScript
  <2>2. IsSimple(c, text, at, 1, NoScript)
    <3> USE DEF IsSimple
    <3> WITNESS FALSE \in BOOLEAN
    <3> QED OBVIOUS
  <2> HIDE DEF c, s
  <2>3. IsSimple(c, text, at, 1, inside) BY <2>1, <2>2
  <2>4. inside # NoScript => CommandsLie(table[inside], at, at + 1) BY <2>1
  <2> QED BY <2>3, <2>4, SimpleIs
<1> HIDE DEF c
<1>2. c \in Seq(Tokens) BY <1>1 DEF WellFormed
<1>3. Arguments(c) = {1} BY <1>1, <1>2, ArgumentsOfWord
<1>4. Spaced(c) BY <1>1, <1>3 DEF Spaced, IsWord
<1>5. OfWords(c) BY <1>1, <1>3 DEF OfWords, IsWord
<1>6. IsCommand(c, table, most) BY <1>1, <1>4, <1>5 DEF IsCommand
<1>7. s \in Commands /\ Len(s) = 1 /\ s[1] = c /\ \A i \in 1..Len(s) : i = 1 BY <1>2 DEF Commands
<1> HIDE DEF s
<1>8. IsScript(s, table, most) BY <1>6, <1>7 DEF IsScript
<1>9. CommandsLie(s, at, at + 1) BY <1>1, <1>7 DEF CommandsLie
<1> QED BY <1>8, <1>9 DEF s, c

LEMMA BareWordFound ==
    ASSUME WritingInv, NEW text \in Spellings, NEW at \in Nat, FindBareWord(text, at),
           Here' \in Nat, Here <= Here', at + 1 <= Here'
    PROVE  LET g == BareWord(text, at)
           IN  /\ Extends(texts, texts') /\ IsTable(texts', Here')
               /\ WellFormed(g, texts', Len(texts')) /\ Lie(g, at, at + 1)
               /\ IsWord(g) /\ g[2].inside # NoScript
<1> DEFINE s == <<Simple(text, at, 1, NoScript, FALSE)>>
           g == BareWord(text, at)
<1>1. Len(texts) \in Nat BY WritingTyped
<1>2. IsScript(s, texts, Len(texts)) /\ CommandsLie(s, at, at + 1) BY <1>1, BareScript
<1>3. Find(s) BY DEF FindBareWord
<1> HIDE DEF s
<1>4. CommandsLie(s, 0, Here')
  <2>1. s \in Commands BY <1>2 DEF IsScript
  <2>2. at \in Int /\ at + 1 \in Int /\ 0 \in Int /\ Here' \in Int /\ 0 <= at /\ at + 1 <= Here' OBVIOUS
  <2> QED BY <1>2, <2>1, <2>2, WiderCommandsLie
<1>5. /\ Extends(texts, texts') /\ IsTable(texts', Here')
      /\ Len(texts') = Len(texts) + 1
      /\ texts'[NextScript] = s
  BY <1>2, <1>3, <1>4, MoreTexts
<1>6. NextScript \in 0..Len(texts') /\ NextScript # NoScript /\ Len(texts') \in Nat
  BY <1>1, <1>5 DEF NextScript, NoScript
<1>7. /\ WellFormed(g, texts', Len(texts')) /\ Lie(g, at, at + 1) /\ IsWord(g)
      /\ g[2].inside = NextScript
  <2>1. NextScript # NoScript => CommandsLie(texts'[NextScript], at, at + 1) BY <1>2, <1>5
  <2>2. 1 \in Nat OBVIOUS
  <2>3. IsSimple(g, text, at, 1, NextScript)
    <3> USE DEF IsSimple
    <3> WITNESS FALSE \in BOOLEAN
    <3> QED BY DEF BareWord
  <2> HIDE DEF g
  <2> QED BY <1>6, <2>1, <2>2, <2>3, SimpleIs
<1> QED BY <1>5, <1>6, <1>7

LEMMA WriteBareKeeps ==
    ASSUME WritingInv, NEW text \in Spellings, WriteBare(text)
    PROVE  WritingInv'
<1> DEFINE g == BareWord(text, Here + 1)
<1>0. Here \in Nat /\ Top \in Frames BY WritingTyped
<1>1. Some(2) \in Seq(Bytes) /\ Len(Some(2)) = 2 BY SomeIs
<1>2. /\ Top.type = "command" /\ Write(Some(2), More(g)) /\ FindBareWord(text, Here + 1)
  BY DEF WriteBare, InCommand
<1>3. /\ contents' \in Seq(Bytes) /\ Here' = Here + 2 /\ Here' \in Nat
      /\ open' = More(g) /\ Here <= Here'
  BY <1>1, <1>2, Written
<1>4. /\ Extends(texts, texts') /\ IsTable(texts', Here')
      /\ WellFormed(g, texts', Len(texts')) /\ Lie(g, Here + 1, (Here + 1) + 1)
      /\ IsWord(g) /\ g[2].inside # NoScript
  <2>1. Here + 1 \in Nat /\ (Here + 1) + 1 <= Here' BY <1>0, <1>3
  <2> QED BY <1>2, <1>3, <2>1, BareWordFound
<1> HIDE DEF g
<1>5. Here + 1 \in Nat /\ Here < Here + 1 /\ Here <= Here + 1 /\ (Here + 1) + 1 = Here' /\ Here + 1 <= Here'
  BY <1>0, <1>3
<1>6. IsBelow(Top, Here + 1, texts) BY <1>5, TopContinues
<1>7. /\ Top.items \o g \in Items
      /\ \A f2 : Grown(f2, Top, g) => IsTop(f2, Here', texts')
  BY <1>0, <1>2, <1>3, <1>4, <1>5, <1>6, WordAdded
<1> QED BY <1>3, <1>4, <1>7, MoreKeeps

LEMMA InScriptIs ==
    ASSUME WritingInv, InScript
    PROVE  /\ Top.type \in ScriptFrames /\ Top.type # "command"
           /\ OnTop(Top.type, "command")
           /\ IsBelow(Top, Here, texts)
           /\ Frame("command", Here) \in Frames
           /\ IsTop(Frame("command", Here), Here, texts)
           /\ IsBelow(Frame("command", Here), Here, texts)
<1>1. Top.type \in ScriptFrames BY DEF InScript, ScriptFrames
<1>2. Top.type # "command" /\ OnTop(Top.type, "command") BY <1>1, TypesApart DEF OnTop
<1>3. Here \in Nat /\ texts \in Seq(Commands) /\ Here <= Here BY WritingTyped
<1>4. IsBelow(Top, Here, texts) BY <1>2, <1>3, TopContinues
<1>5. Here + Mark("command") <= Here BY <1>3 DEF Mark
<1>6. Frame("command", Here) \in Frames /\ IsTop(Frame("command", Here), Here, texts)
  BY <1>3, <1>5, NewFrame
<1>7. Frame("command", Here).items = <<>> BY DEF Frame
<1>8. IsBelow(Frame("command", Here), Here, texts) BY <1>3, <1>6, <1>7, TopIsBelow
<1> QED BY <1>1, <1>2, <1>4, <1>6, <1>8

LEMMA WriteNameKeeps ==
    ASSUME WritingInv, NEW name \in Spellings, WriteName(name)
    PROVE  WritingInv'
<1> DEFINE g == BareWord(name, Here)
           c == Frame("command", Here)
           f == [c EXCEPT !.items = g]
<1>0. Here \in Nat /\ Top \in Frames BY WritingTyped
<1>1. Some(1) \in Seq(Bytes) /\ Len(Some(1)) = 1 BY SomeIs
<1>2. InScript /\ Write(Some(1), Append(open, f)) /\ FindBareWord(name, Here)
  BY DEF WriteName
<1>3. /\ contents' \in Seq(Bytes) /\ Here' = Here + 1 /\ Here' \in Nat
      /\ open' = Append(open, f) /\ Here <= Here'
  <2> HIDE DEF f
  <2> QED BY <1>1, <1>2, Written
<1>4. /\ Extends(texts, texts') /\ IsTable(texts', Here')
      /\ WellFormed(g, texts', Len(texts')) /\ Lie(g, Here, Here + 1)
      /\ IsWord(g) /\ g[2].inside # NoScript
  <2>1. Here + 1 <= Here' BY <1>0, <1>3
  <2> HIDE DEF f
  <2> QED BY <1>0, <1>2, <1>3, <2>1, BareWordFound
<1> HIDE DEF g
<1>5. /\ OnTop(Top.type, "command") /\ IsBelow(Top, Here, texts)
      /\ c \in Frames /\ IsBelow(c, Here, texts)
  BY <1>2, InScriptIs
<1>6. c.type = "command" /\ c.at = Here /\ c.items = <<>> BY DEF Frame
<1>7. f.type = "command" /\ f.at = Here /\ f.items = g BY <1>6 DEF Frame
<1> HIDE DEF c
<1>8. g \in Seq(Tokens) BY <1>4 DEF WellFormed
<1>9. <<>> \o g = g BY <1>8
<1>10. Grown(f, c, g) BY <1>6, <1>7, <1>9 DEF Grown
<1>11. c.items \o g \in Items /\ \A f2 : Grown(f2, c, g) => IsTop(f2, Here', texts')
  BY <1>0, <1>3, <1>4, <1>5, <1>6, WordAdded
<1>12. IsTop(f, Here', texts') BY <1>10, <1>11
<1>13. f \in Frames
  <2>1. g \in Items BY <1>6, <1>9, <1>11
  <2> QED BY <1>5, <2>1 DEF Frames
<1> HIDE DEF f
<1>14. OnTop(Top.type, f.type) /\ IsBelow(Top, f.at, texts) BY <1>5, <1>7
<1> QED BY <1>3, <1>4, <1>12, <1>13, <1>14, PushKeeps

LEMMA OpenFirstKeeps ==
    ASSUME WritingInv, NEW opening \in Openings, OpenFirst(opening)
    PROVE  WritingInv'
<1> DEFINE n == MarkSize(opening)
           c == Frame("command", Here)
           f == Frame(opening, Here)
           stack == open \o <<c, f>>
<1>0. /\ opening \in ScriptFrames \cup WordFrames \cup {"command"}
      /\ Mark(opening) = n /\ n \in Nat
  BY OpeningIs
<1>1. InScript /\ Write(Some(n), stack) /\ UNCHANGED texts BY DEF OpenFirst
<1>2. Here \in Nat /\ open \in Seq(Frames) /\ texts \in Seq(Commands) BY WritingTyped
<1>3. Some(n) \in Seq(Bytes) /\ Len(Some(n)) = n BY <1>0, SomeIs
<1> HIDE DEF n
<1>4. /\ contents' \in Seq(Bytes) /\ Here' = Here + n /\ Here' \in Nat
      /\ open' = stack /\ Here <= Here'
  <2> HIDE DEF stack
  <2> QED BY <1>1, <1>3, Written
<1>5. Extends(texts, texts') /\ IsTable(texts', Here') BY <1>1, <1>4, SameTexts
<1>6. /\ OnTop(Top.type, "command") /\ IsBelow(Top, Here, texts)
      /\ c \in Frames /\ IsTop(c, Here, texts) /\ IsBelow(c, Here, texts)
  BY <1>1, InScriptIs
<1>7. c.type = "command" /\ c.at = Here /\ f.type = opening /\ f.at = Here BY DEF Frame
<1>8. f \in Frames /\ IsTop(f, Here', texts')
  <2>1. Here + Mark(opening) <= Here' BY <1>0, <1>2, <1>4
  <2>2. texts' \in Seq(Commands) BY <1>5 DEF IsTable
  <2> QED BY <1>0, <1>2, <1>4, <2>1, <2>2, NewFrame
<1> HIDE DEF c, f
<1>9. stack = Append(Append(open, c), f) BY <1>2, <1>6, <1>8
<1> HIDE DEF stack
<1> DEFINE st == Append(open, c)
<1>10. Top = open[Len(open)] BY WritingTyped
<1>11. IsStack(open, Here, texts) BY DEF WritingInv
<1>12. st[Len(st)] = c
  <2>1. open \in Seq(Frames) /\ c \in Frames BY <1>2, <1>6
  <2> QED BY <2>1
<1>13. IsStack(st, Here, texts)
  <2>1. Extends(texts, texts) BY <1>2, ExtendsItself
  <2> QED BY <1>6, <1>7, <1>10, <1>11, <2>1, Pushed
<1> HIDE DEF st
<1>14. OnTop(st[Len(st)].type, f.type) /\ IsBelow(st[Len(st)], f.at, texts)
  BY <1>6, <1>7, <1>12 DEF OnTop
<1>15. IsStack(Append(st, f), Here', texts') BY <1>5, <1>8, <1>13, <1>14, Pushed
<1> QED BY <1>4, <1>5, <1>9, <1>15 DEF WritingInv, st

\* A frame below one of these kinds is of that kind.
LEMMA KindBelow ==
    /\ \A type : OnTop(type, "array") => type \in WordFrames
    /\ \A type : OnTop(type, "bracket") => type \in WordFrames
    /\ \A type : OnTop(type, "command") => type \in ScriptFrames
    /\ \A type : \A opening \in Openings : OnTop(type, opening) => type = "command"
BY DEF OnTop, Openings, WordFrames, ScriptFrames

LEMMA CloseArrayKeeps ==
    ASSUME WritingInv, NEW name \in Spellings, CloseArray(name)
    PROVE  WritingInv'
<1> DEFINE below == open[Len(open) - 1]
           at == Top.at
           items == Top.items
           size == Here + 1 - at
           g == <<Token("variable", 1 + Len(items), at, size, name, NoScript, FALSE),
                  Text(name, at + 1, 1, NoScript, FALSE)>> \o items
<1>0. /\ Top.type = "array" /\ Write(Some(1), EndedAs(g)) /\ UNCHANGED texts
  BY DEF CloseArray
<1>1. Some(1) \in Seq(Bytes) /\ Len(Some(1)) = 1 BY SomeIs
<1> HIDE DEF g
<1>2. /\ contents' \in Seq(Bytes) /\ Here' = Here + 1 /\ Here' \in Nat
      /\ open' = EndedAs(g) /\ Here <= Here'
  BY <1>0, <1>1, Written
<1>3. Extends(texts, texts') /\ IsTable(texts', Here') BY <1>0, <1>2, SameTexts
<1>4. Here \in Nat /\ at \in Nat /\ at + 3 <= Here /\ Len(texts) \in Nat
      /\ IsTop(Top, Here, texts)
  BY <1>0, WritingTyped DEF Mark
<1>5. "array" \in WordFrames BY DEF WordFrames
<1>6. WellFormed(items, texts, Len(texts)) /\ Lie(items, at + 3, Here)
  <2>1. EndOnTop("array", Here) = Here /\ Mark("array") = 3 BY <1>5, TypesApart DEF EndOnTop, Mark
  <2> QED BY <1>0, <1>4, <1>5, <2>1, TypesApart DEF IsTop, Holds
<1> HIDE DEF at, items
<1>7. size \in Nat /\ size >= 2 /\ at + size = Here' BY <1>2, <1>4
<1>8. Lie(items, at + 2, at + size)
  <2>1. items \in Seq(Tokens) BY <1>6 DEF WellFormed
  <2>2. at + 3 \in Int /\ Here \in Int /\ at + 2 \in Int /\ at + size \in Int
        /\ at + 2 <= at + 3 /\ Here <= at + size
    BY <1>2, <1>4
  <2> QED BY <1>6, <2>1, <2>2, WiderLie
<1> HIDE DEF size
<1>9. WellFormed(g, texts, Len(texts)) /\ Lie(g, at, at + size)
  BY <1>4, <1>6, <1>7, <1>8, ArrayPart DEF g
<1>10. WellFormed(g, texts', Len(texts')) /\ Lie(g, at, Here') BY <1>0, <1>7, <1>9
<1>11. below \in Frames /\ below.type \in WordFrames /\ IsBelow(below, at, texts)
  <2>1. Top.type # "script" BY <1>0
  <2> QED BY <1>0, <2>1, BelowTop, KindBelow DEF at
<1>12. at <= Here' BY <1>2, <1>4
<1> HIDE DEF below
<1>13. /\ below.items \o g \in Items
       /\ \A f2 : Grown(f2, below, g) => IsTop(f2, Here', texts')
  BY <1>2, <1>3, <1>4, <1>10, <1>11, <1>12, PartAdded
<1>14. Top.type # "script" BY <1>0
<1> QED BY <1>2, <1>3, <1>13, <1>14, EndedKeeps DEF below

\* The script that is ended on top of the stack.
LEMMA ScriptOnTop ==
    ASSUME WritingInv, Top.type \in ScriptFrames
    PROVE  /\ IsScript(Top.items, texts, Len(texts))
           /\ CommandsLie(Top.items, Top.at + Mark(Top.type), Here - 1)
           /\ \A to \in Nat : Here - 1 <= to => CommandsLie(Top.items, 0, to)
<1>1. /\ IsTop(Top, Here, texts) /\ Here \in Nat /\ Top.at \in Nat /\ Mark(Top.type) \in Nat
  BY WritingTyped
<1>2. IsScript(Top.items, texts, Len(texts))
      /\ CommandsLie(Top.items, Top.at + Mark(Top.type), Here - 1)
  BY <1>1, TypesApart DEF IsTop, Holds, EndOnTop
<1>3. ASSUME NEW to \in Nat, Here - 1 <= to PROVE CommandsLie(Top.items, 0, to)
  <2> DEFINE from == Top.at + Mark(Top.type)
  <2>1. Top.items \in Commands BY <1>2 DEF IsScript
  <2>2. from \in Int /\ Here - 1 \in Int /\ 0 \in Int /\ to \in Int /\ 0 <= from BY <1>1
  <2>3. CommandsLie(Top.items, from, Here - 1) BY <1>2
  <2> HIDE DEF from
  <2> QED BY <1>3, <2>1, <2>2, <2>3, WiderCommandsLie
<1> QED BY <1>2, <1>3

LEMMA CloseBracketKeeps ==
    ASSUME WritingInv, CloseBracket
    PROVE  WritingInv'
<1> DEFINE below == open[Len(open) - 1]
           at == Top.at
           size == Here + 1 - at
           g == <<Token("command", 0, at, size, OtherText, NextScript, FALSE)>>
<1>0. Top.type = "bracket" /\ Write(Some(1), EndedAs(g)) /\ Find(Top.items)
  BY DEF CloseBracket
<1>1. Some(1) \in Seq(Bytes) /\ Len(Some(1)) = 1 BY SomeIs
<1> HIDE DEF g
<1>2. /\ contents' \in Seq(Bytes) /\ Here' = Here + 1 /\ Here' \in Nat
      /\ open' = EndedAs(g) /\ Here <= Here'
  BY <1>0, <1>1, Written
<1>4. Here \in Nat /\ at \in Nat /\ at + 1 <= Here /\ Len(texts) \in Nat
  BY <1>0, WritingTyped DEF Mark
<1>5. /\ IsScript(Top.items, texts, Len(texts))
      /\ CommandsLie(Top.items, at + 1, Here - 1)
      /\ CommandsLie(Top.items, 0, Here')
  <2>1. Top.type \in ScriptFrames /\ Mark(Top.type) = 1 BY <1>0 DEF ScriptFrames, Mark
  <2>2. Here - 1 <= Here' BY <1>2, <1>4
  <2> QED BY <1>2, <2>1, <2>2, ScriptOnTop
<1>3. /\ Extends(texts, texts') /\ IsTable(texts', Here')
      /\ Len(texts') = Len(texts) + 1
      /\ texts'[NextScript] = Top.items
  BY <1>0, <1>2, <1>5, MoreTexts
<1>6. NextScript \in 1..Len(texts') /\ Len(texts') \in Nat BY <1>3, <1>4 DEF NextScript
<1> HIDE DEF at
<1>7. size \in Nat /\ at + size = Here' BY <1>2, <1>4
<1> HIDE DEF size
<1>8. CommandsLie(texts'[NextScript], at, at + size)
  <2>1. Top.items \in Commands BY <1>5 DEF IsScript
  <2>2. at + 1 \in Int /\ Here - 1 \in Int /\ at \in Int /\ at + size \in Int
        /\ at <= at + 1 /\ Here - 1 <= at + size
    BY <1>2, <1>4, <1>7
  <2> QED BY <1>3, <1>5, <2>1, <2>2, WiderCommandsLie
<1>9. WellFormed(g, texts', Len(texts')) /\ Lie(g, at, at + size)
  <2>1. OtherText \in Spellings BY DEF Spellings
  <2> DEFINE table == texts'
             inside == NextScript
             most == Len(texts')
             text == OtherText
  <2>2. inside \in 1..most /\ most \in Nat /\ CommandsLie(table[inside], at, at + size) /\ text \in Spellings
    BY <1>6, <1>8, <2>1
  <2>3. g = <<Token("command", 0, at, size, text, inside, FALSE)>> BY DEF g
  <2> HIDE DEF table, inside, most, text
  <2>4. WellFormed(g, table, most) /\ Lie(g, at, at + size)
    BY <1>4, <1>7, <2>2, <2>3, CommandAlone
  <2> QED BY <2>4 DEF table, most
<1>11. below \in Frames /\ below.type \in WordFrames /\ IsBelow(below, at, texts)
  <2>1. Top.type # "script" BY <1>0
  <2> QED BY <1>0, <2>1, BelowTop, KindBelow DEF at
<1>12. at <= Here' /\ Lie(g, at, Here') BY <1>2, <1>4, <1>7, <1>9
<1> HIDE DEF below
<1>13. /\ below.items \o g \in Items
       /\ \A f2 : Grown(f2, below, g) => IsTop(f2, Here', texts')
  BY <1>2, <1>3, <1>4, <1>9, <1>11, <1>12, PartAdded
<1>14. Top.type # "script" BY <1>0
<1> QED BY <1>2, <1>3, <1>13, <1>14, EndedKeeps DEF below

LEMMA CloseBraceKeeps ==
    ASSUME WritingInv, CloseBrace
    PROVE  WritingInv'
<1> DEFINE below == open[Len(open) - 1]
           at == Top.at
           size == Here - at - 1
           g == Simple(OtherText, at + 1, size, NextScript, ~IsElement(Top.items))
<1>0. Top.type = "brace" /\ Write(Some(1), EndedAs(g)) /\ Find(Top.items)
  BY DEF CloseBrace
<1>1. Some(1) \in Seq(Bytes) /\ Len(Some(1)) = 1 BY SomeIs
<1>g. IsSimple(g, OtherText, at + 1, size, NextScript)
  <2> HIDE DEF at, size
  <2> USE DEF IsSimple
  <2> WITNESS (~IsElement(Top.items)) \in BOOLEAN
  <2> QED OBVIOUS
<1> HIDE DEF g
<1>2. /\ contents' \in Seq(Bytes) /\ Here' = Here + 1 /\ Here' \in Nat
      /\ open' = EndedAs(g) /\ Here <= Here'
  BY <1>0, <1>1, Written
<1>4. Here \in Nat /\ at \in Nat /\ at + 1 <= Here /\ Len(texts) \in Nat
  BY <1>0, WritingTyped DEF Mark
<1>5. /\ IsScript(Top.items, texts, Len(texts))
      /\ CommandsLie(Top.items, at + 1, Here - 1)
      /\ CommandsLie(Top.items, 0, Here')
  <2>1. Top.type \in ScriptFrames /\ Mark(Top.type) = 1 BY <1>0 DEF ScriptFrames, Mark
  <2>2. Here - 1 <= Here' BY <1>2, <1>4
  <2> QED BY <1>2, <2>1, <2>2, ScriptOnTop
<1>3. /\ Extends(texts, texts') /\ IsTable(texts', Here')
      /\ Len(texts') = Len(texts) + 1
      /\ texts'[NextScript] = Top.items
  BY <1>0, <1>2, <1>5, MoreTexts
<1>6. NextScript \in 0..Len(texts') /\ Len(texts') \in Nat /\ NextScript # NoScript
  BY <1>3, <1>4 DEF NextScript, NoScript
<1> HIDE DEF at
<1>7. size \in Nat /\ (at + 1) + size = Here BY <1>4
<1> HIDE DEF size
<1>8. CommandsLie(texts'[NextScript], at + 1, (at + 1) + size)
  <2>1. Top.items \in Commands BY <1>5 DEF IsScript
  <2>2. at + 1 \in Int /\ Here - 1 \in Int /\ Here \in Int /\ at + 1 <= at + 1 /\ Here - 1 <= Here
    BY <1>4
  <2> QED BY <1>3, <1>5, <1>7, <2>1, <2>2, WiderCommandsLie
<1>9. /\ WellFormed(g, texts', Len(texts')) /\ Lie(g, at + 1, (at + 1) + size) /\ IsWord(g)
      /\ g[2].inside = NextScript
  <2>1. OtherText \in Spellings BY DEF Spellings
  <2>2. at + 1 \in Nat BY <1>4
  <2>3. NextScript # NoScript => CommandsLie(texts'[NextScript], at + 1, (at + 1) + size) BY <1>8
  <2> QED BY <1>g, <1>6, <1>7, <2>1, <2>2, <2>3, SimpleIs
<1>10. Lie(g, at, Here')
  <2>1. g \in Seq(Tokens) BY <1>9 DEF WellFormed
  <2>2. at + 1 \in Int /\ (at + 1) + size \in Int /\ at \in Int /\ Here' \in Int
        /\ at <= at + 1 /\ (at + 1) + size <= Here'
    BY <1>2, <1>4, <1>7
  <2> QED BY <1>9, <2>1, <2>2, WiderLie
<1>11. below \in Frames /\ below.type = "command" /\ IsBelow(below, at, texts)
  <2>1. Top.type # "script" /\ Top.type \in Openings BY <1>0 DEF Openings
  <2> QED BY <1>0, <2>1, BelowTop, KindBelow DEF at
<1>12. at <= Here' /\ g[2].inside # NoScript BY <1>2, <1>4, <1>6, <1>9
<1> HIDE DEF below
<1>13. /\ below.items \o g \in Items
       /\ \A f2 : Grown(f2, below, g) => IsTop(f2, Here', texts')
  BY <1>2, <1>3, <1>4, <1>9, <1>10, <1>11, <1>12, WordAdded
<1>14. Top.type # "script" BY <1>0
<1> QED BY <1>2, <1>3, <1>13, <1>14, EndedKeeps DEF below

LEMMA CloseWordKeeps ==
    ASSUME WritingInv, CloseWord
    PROVE  WritingInv'
<1> DEFINE below == open[Len(open) - 1]
           at == Top.at
           parts == Top.items
           more == IF Top.type = "quote" THEN 1 ELSE 0
           size == Here + more - at
           list == Top.type = "bare" /\ \E k \in 1..Len(parts) : parts[k].type = "command"
           t == Token(IF Top.type = "expand" THEN "expand" ELSE "word",
                      Len(parts), at, size, OtherText, NoScript, list)
           g == <<t>> \o parts
<1>0. /\ Top.type \in {"quote", "bare", "expand"} /\ Write(Some(more), EndedAs(g)) /\ UNCHANGED texts
      /\ Complete
  BY DEF CloseWord
<1>m. more \in 0..1 /\ Mark(Top.type) >= more BY DEF Mark
<1>1. Some(more) \in Seq(Bytes) /\ Len(Some(more)) = more
  <2>1. more \in Nat BY <1>m
  <2> HIDE DEF more
  <2> QED BY <2>1, SomeIs
<1> HIDE DEF g, more
<1>2. /\ contents' \in Seq(Bytes) /\ Here' = Here + more /\ Here' \in Nat
      /\ open' = EndedAs(g) /\ Here <= Here'
  BY <1>0, <1>1, Written
<1>3. Extends(texts, texts') /\ IsTable(texts', Here') BY <1>0, <1>2, SameTexts
<1>4. /\ Here \in Nat /\ at \in Nat /\ Mark(Top.type) \in Nat /\ at + Mark(Top.type) <= Here
      /\ Len(texts) \in Nat /\ IsTop(Top, Here, texts)
  BY WritingTyped
<1>5. Top.type \in WordFrames /\ Top.type \in Openings /\ Top.type # "script" /\ Top.type # "array"
  BY <1>0 DEF WordFrames, Openings
<1>6. WellFormed(parts, texts, Len(texts)) /\ Lie(parts, at + Mark(Top.type), Here)
  <2>1. EndOnTop(Top.type, Here) = Here BY <1>5, TypesApart DEF EndOnTop
  <2> QED BY <1>4, <1>5, <2>1, TypesApart DEF IsTop, Holds
<1>7. parts \in Seq(Tokens) /\ Len(parts) \in Nat BY <1>6 DEF WellFormed
<1>8. parts # <<>> BY <1>0, <1>7 DEF Complete
<1>9. size \in Nat /\ at + size = Here' BY <1>m, <1>2, <1>4
<1> HIDE DEF size, list, parts, at
<1>10. /\ t \in Tokens /\ t.type \in {"word", "expand"} /\ t.n = Len(parts)
       /\ t.inside = NoScript /\ t.at = at /\ End(t) = at + size
  <2>1. list \in BOOLEAN BY DEF list
  <2>2. OtherText \in Spellings BY DEF Spellings
  <2> QED BY <1>4, <1>7, <1>9, <2>1, <2>2 DEF Token, Tokens, TokenTypes, End, NoScript
<1>11. Lie(parts, at, Here')
  <2> DEFINE from == at + Mark(Top.type)
  <2>1. from \in Int /\ Here \in Int /\ at \in Int /\ Here' \in Int /\ at <= from /\ Here <= Here'
    BY <1>2, <1>4
  <2> QED BY <1>6, <1>7, <2>1, WiderLie
<1> HIDE DEF t
<1>12. /\ WellFormed(g, texts, Len(texts)) /\ Lie(g, t.at, End(t)) /\ IsWord(g) /\ g[1].type # "simple"
  <2>1. Lie(parts, t.at, End(t)) BY <1>9, <1>10, <1>11
  <2> QED BY <1>4, <1>6, <1>8, <1>10, <2>1, WordIs DEF g
<1>13. WellFormed(g, texts', Len(texts')) /\ Lie(g, at, Here') BY <1>0, <1>9, <1>10, <1>12
<1>14. below \in Frames /\ below.type = "command" /\ IsBelow(below, at, texts)
  BY <1>5, BelowTop, KindBelow DEF at
<1>15. at <= Here' BY <1>2, <1>4
<1> HIDE DEF below
<1>16. /\ below.items \o g \in Items
       /\ \A f2 : Grown(f2, below, g) => IsTop(f2, Here', texts')
  BY <1>2, <1>3, <1>4, <1>12, <1>13, <1>14, <1>15, WordAdded
<1> QED BY <1>2, <1>3, <1>5, <1>16, EndedKeeps DEF below

LEMMA EndCommandKeeps ==
    ASSUME WritingInv, NEW byte \in Bytes, EndCommand(byte)
    PROVE  WritingInv'
<1> DEFINE below == open[Len(open) - 1]
           at == Top.at
           c == Top.items
<1>0. Top.type = "command" /\ Write(<<byte>>, EndedAs(<<c>>)) /\ UNCHANGED texts
  BY DEF EndCommand, InCommand
<1>1. <<byte>> \in Seq(Bytes) /\ Len(<<byte>>) = 1 OBVIOUS
<1>2. /\ contents' \in Seq(Bytes) /\ Here' = Here + 1 /\ Here' \in Nat
      /\ open' = EndedAs(<<c>>) /\ Here <= Here'
  BY <1>0, <1>1, Written
<1>3. Extends(texts, texts') /\ IsTable(texts', Here') BY <1>0, <1>2, SameTexts
<1>4. /\ Here \in Nat /\ at \in Nat /\ at <= Here /\ Len(texts) \in Nat
      /\ IsTop(Top, Here, texts)
  BY <1>0, WritingTyped DEF Mark
<1>5. CommandSoFar(c, texts, Len(texts)) /\ Lie(c, at, Here)
  <2>1. EndOnTop("command", Here) = Here BY TypesApart DEF EndOnTop
  <2> QED BY <1>0, <1>4, <2>1, TypesApart DEF IsTop, Holds
<1>6. IsCommand(c, texts', Len(texts')) BY <1>0, <1>5 DEF IsCommand, CommandSoFar
<1>7. Here' - 1 = Here /\ at < Here' BY <1>2, <1>4
<1>8. below \in Frames /\ below.type \in ScriptFrames /\ IsBelow(below, at, texts)
  <2>1. Top.type # "script" BY <1>0
  <2> QED BY <1>0, <2>1, BelowTop, KindBelow
<1> HIDE DEF below, at, c
<1>9. /\ below.items \o <<c>> \in Items
      /\ \A f2 : Grown(f2, below, <<c>>) => IsTop(f2, Here', texts')
  BY <1>2, <1>3, <1>4, <1>5, <1>6, <1>7, <1>8, CommandAdded
<1>10. Top.type # "script" BY <1>0
<1> QED BY <1>2, <1>3, <1>9, <1>10, EndedKeeps DEF below

LEMMA EndTextIs ==
    ASSUME WritingInv, EndText
    PROVE  IsTable(texts', Len(contents')) /\ Len(texts') > 0
<1>1. Top.type \in ScriptFrames BY DEF EndText, ScriptFrames
<1>2. contents' = contents /\ Find(Top.items) BY DEF EndText, fileVars
<1>3. Here \in Nat /\ Here' = Here /\ Len(texts) \in Nat BY <1>2, WritingTyped DEF Here
<1>4. Here' \in Nat /\ Here <= Here' /\ Here - 1 <= Here' BY <1>3
<1>5. IsScript(Top.items, texts, Len(texts)) /\ CommandsLie(Top.items, 0, Here')
  BY <1>1, <1>4, ScriptOnTop
<1>6. IsTable(texts', Here') /\ Len(texts') = Len(texts) + 1 BY <1>2, <1>4, <1>5, MoreTexts
<1>7. Len(texts') > 0 BY <1>3, <1>6
<1> QED BY <1>6, <1>7 DEF Here

-----------------------------------------------------------------------------
(* The words of calls.                                                     *)

TypedWords ==
    [type : WordTypes, last : Nat, at : Nat, size : Nat, text : Spellings, inside : Nat,
     list : BOOLEAN, script : Nat]

\* What a word is made of.
LEMMA WordParsed ==
    ASSUME NEW table, NEW most \in Nat, NEW T, WellFormed(T, table, most), NEW k \in 1..Len(T)
    PROVE  /\ ParseWord(T, k) \in TypedWords
           /\ ParseWord(T, k).last = k + T[k].n
           /\ T[k].at <= ParseWord(T, k).at /\ End(ParseWord(T, k)) <= End(T[k])
           /\ ParseWord(T, k).type \in Lists => T[k].n > 0
           /\ T[k].n > 0 => ParseWord(T, k).at <= T[k + 1].at
           /\ T[k].n = 0 => ParseWord(T, k).at = T[k].at
           /\ ParseWord(T, k).type = "SCRIPT" =>
                  /\ ParseWord(T, k).script = T[k].inside /\ T[k].inside # NoScript
                  /\ ParseWord(T, k).at = T[k].at /\ ParseWord(T, k).size = T[k].size
           /\ T[k].type = "simple" =>
                  /\ ParseWord(T, k).type = "TEXT" /\ k + 1 \in 1..Len(T)
                  /\ ParseWord(T, k).inside = T[k + 1].inside
                  /\ ParseWord(T, k).at = T[k + 1].at /\ ParseWord(T, k).size = T[k + 1].size
           /\ T[k].type \in {"word", "expand"} => ParseWord(T, k).type \in Lists
<1> DEFINE t == T[k]
           x == T[k + 1]
           w == ParseWord(T, k)
           Word(type, y) == [type |-> type, last |-> k + t.n, at |-> y.at, size |-> y.size,
                             text |-> y.text, inside |-> y.inside, list |-> y.list,
                             script |-> NoScript]
<1>0. T \in Seq(Tokens) /\ Nested(T) /\ Ascend(T) /\ Regular(T) BY DEF WellFormed
<1>1. t \in Tokens /\ t.n \in Nat /\ t.at \in Nat /\ t.size \in Nat /\ t.inside \in Nat
      /\ t.type \in TokenTypes
  BY <1>0, TokensTyped, TokenTyped
<1>2. k + t.n <= Len(T) /\ Len(T) \in Nat BY <1>0 DEF Nested
<1>3. t.n > 0 => /\ x \in Tokens /\ x.at \in Nat /\ x.size \in Nat /\ x.inside \in Nat
                 /\ t.at <= x.at /\ End(x) <= End(t) /\ k + 1 \in 1..Len(T)
  <2> SUFFICES ASSUME t.n > 0 PROVE /\ x \in Tokens /\ x.at \in Nat /\ x.size \in Nat /\ x.inside \in Nat
                                    /\ t.at <= x.at /\ End(x) <= End(t) /\ k + 1 \in 1..Len(T)
    OBVIOUS
  <2>1. k + 1 \in 1..Len(T) /\ k < k + 1 BY <1>1, <1>2
  <2>2. k + 1 \in Spans(T, k) BY <1>1 DEF Spans
  <2>3. t.at <= x.at BY <1>0, <2>1 DEF Ascend
  <2>4. End(x) <= End(t) BY <1>0, <2>2 DEF Nested
  <2>5. x \in Tokens /\ x.at \in Nat /\ x.size \in Nat /\ x.inside \in Nat BY <1>0, <2>1, TokensTyped
  <2> QED BY <2>1, <2>3, <2>4, <2>5
<1>4. /\ t.type \in {"word", "expand", "variable"} => t.n > 0
      /\ t.type = "simple" => t.n = 1
      /\ t.type = "command" => t.inside # NoScript
  BY <1>0 DEF Regular
<1>5. ASSUME NEW type \in WordTypes, NEW y \in Tokens
      PROVE  /\ Word(type, y) \in TypedWords /\ Word(type, y).last = k + t.n
             /\ Word(type, y).type = type /\ Word(type, y).at = y.at /\ Word(type, y).size = y.size
             /\ Word(type, y).inside = y.inside
             /\ End(Word(type, y)) = End(y)
  <2>1. k + t.n \in Nat BY <1>1
  <2>2. NoScript \in Nat BY DEF NoScript
  <2> QED BY <2>1, <2>2 DEF TypedWords, Tokens, End
<1>6. t.at <= t.at /\ End(t) <= End(t) BY <1>1, TokenTyped
<1>7. /\ t.type = "simple" => w = Word("TEXT", x)
      /\ t.type = "word" => w = Word("TOKEN_LIST", t)
      /\ t.type = "expand" => w = Word("EXPAND", t)
      /\ t.type = "text" => w = Word("TEXT", t)
      /\ t.type = "command" => w = [Word("SCRIPT", t) EXCEPT !.script = t.inside]
      /\ t.type = "variable" /\ t.n = 1 => w = Word("VARIABLE", x)
      /\ t.type = "variable" /\ t.n > 1 => w = Word("ARRAY_ACCESS", t)
  BY <1>1 DEF ParseWord, TokenTypes
<1>8. /\ "TEXT" \in WordTypes /\ "TOKEN_LIST" \in WordTypes /\ "EXPAND" \in WordTypes
      /\ "SCRIPT" \in WordTypes /\ "VARIABLE" \in WordTypes /\ "ARRAY_ACCESS" \in WordTypes
      /\ "TOKEN_LIST" \in Lists /\ "EXPAND" \in Lists
      /\ "TEXT" \notin Lists /\ "SCRIPT" \notin Lists /\ "VARIABLE" \notin Lists
      /\ "ARRAY_ACCESS" \notin Lists
  BY DEF WordTypes, Lists
<1> DEFINE Conclusion ==
             /\ w \in TypedWords
             /\ w.last = k + t.n
             /\ t.at <= w.at /\ End(w) <= End(t)
             /\ w.type \in Lists => t.n > 0
             /\ t.n > 0 => w.at <= x.at
             /\ t.n = 0 => w.at = t.at
             /\ w.type = "SCRIPT" =>
                  /\ w.script = t.inside /\ t.inside # NoScript
                  /\ w.at = t.at /\ w.size = t.size
             /\ t.type = "simple" =>
                  /\ w.type = "TEXT" /\ k + 1 \in 1..Len(T)
                  /\ w.inside = x.inside /\ w.at = x.at /\ w.size = x.size
             /\ t.type \in {"word", "expand"} => w.type \in Lists
<1> SUFFICES Conclusion
  OBVIOUS
<1> HIDE DEF w, Word
<1>10. CASE t.type = "simple"
  <2>1. t.n = 1 /\ w = Word("TEXT", x) BY <1>4, <1>7, <1>10
  <2>2. x \in Tokens BY <1>3, <2>1
  <2>3. x.at <= x.at BY <1>3, <2>1
  <2> HIDE DEF t, x
  <2> QED BY <1>1, <1>3, <1>5, <1>8, <1>10, <2>1, <2>2, <2>3
<1>11. CASE t.type \in {"word", "expand"}
  <2>1. t.n > 0 /\ (w = Word("TOKEN_LIST", t) \/ w = Word("EXPAND", t)) BY <1>4, <1>7, <1>11
  <2> HIDE DEF t, x
  <2> QED BY <1>1, <1>3, <1>5, <1>6, <1>8, <1>11, <2>1
<1>12. CASE t.type = "text"
  <2>1. w = Word("TEXT", t) BY <1>7, <1>12
  <2> HIDE DEF t, x
  <2> QED BY <1>1, <1>3, <1>5, <1>6, <1>8, <1>12, <2>1
<1>13. CASE t.type = "command"
  <2> DEFINE v == Word("SCRIPT", t)
  <2>1. w = [v EXCEPT !.script = t.inside] /\ t.inside # NoScript BY <1>4, <1>7, <1>13
  <2>2. /\ v \in TypedWords /\ v.last = k + t.n
        /\ v.type = "SCRIPT" /\ v.at = t.at /\ v.size = t.size
        /\ End(v) = End(t)
    BY <1>1, <1>5, <1>8
  <2> HIDE DEF v, t
  <2>3. /\ w \in TypedWords /\ w.last = v.last /\ w.type = v.type /\ w.at = v.at /\ w.size = v.size
        /\ w.script = t.inside /\ End(w) = End(v)
    BY <1>1, <2>1, <2>2 DEF TypedWords, End
  <2> QED BY <1>1, <1>3, <1>6, <1>8, <1>13, <2>1, <2>2, <2>3
<1>14. CASE t.type = "variable" /\ t.n = 1
  <2>1. w = Word("VARIABLE", x) BY <1>7, <1>14
  <2>2. x \in Tokens BY <1>3, <1>14
  <2>3. x.at <= x.at BY <1>3, <1>14
  <2> HIDE DEF t, x
  <2> QED BY <1>1, <1>3, <1>5, <1>8, <1>14, <2>1, <2>2, <2>3
<1>15. CASE t.type = "variable" /\ t.n > 1
  <2>1. w = Word("ARRAY_ACCESS", t) BY <1>7, <1>15
  <2> HIDE DEF t, x
  <2> QED BY <1>1, <1>3, <1>5, <1>6, <1>8, <1>15, <2>1
<1>16. t.type = "variable" => t.n = 1 \/ t.n > 1 BY <1>1, <1>4
<1> HIDE DEF Conclusion
<1> QED BY <1>1, <1>10, <1>11, <1>12, <1>13, <1>14, <1>15, <1>16 DEF TokenTypes

CallTypes == {"PROC", "WHILE", "FOR", "FOREACH", "NAMESPACE_EVAL", "USER"}

LEMMA ArgumentsTyped ==
    ASSUME NEW T \in Seq(Tokens)
    PROVE  /\ Arguments(T) \subseteq 1..Len(T) /\ IsFiniteSet(Arguments(T))
           /\ Cardinality(Arguments(T)) \in Nat /\ Cardinality(Arguments(T)) <= Len(T)
           /\ \A k, l \in Arguments(T) : k < l => k + T[k].n < l
           /\ Arguments(T) # {} => 1 \in 1..Len(T)
<1>1. Arguments(T) \subseteq 1..Len(T) BY DEF Arguments
<1>2. IsFiniteSet(1..Len(T)) /\ Cardinality(1..Len(T)) = Len(T)
  <2>1. Len(T) \in Nat OBVIOUS
  <2> DEFINE m == Len(T)
  <2> HIDE DEF m
  <2>2. IsFiniteSet(1..m) /\ Cardinality(1..m) = IF 1 > m THEN 0 ELSE m - 1 + 1
    BY <2>1, FS_Interval DEF m
  <2>3. Cardinality(1..m) = m BY <2>1, <2>2 DEF m
  <2> QED BY <2>2, <2>3 DEF m
<1>3. IsFiniteSet(Arguments(T)) /\ Cardinality(Arguments(T)) <= Len(T)
  BY <1>1, <1>2, FS_Subset
<1>4. Cardinality(Arguments(T)) \in Nat BY <1>3, FS_CardinalityType
<1>5. \A k, l \in Arguments(T) : k < l => k + T[k].n < l
  <2>1. \A k, l \in Arguments(T) : k < l => k \in 1..(l - 1) BY <1>1
  <2> QED BY <2>1 DEF Arguments
<1> QED BY <1>1, <1>3, <1>4, <1>5

LEMMA CallTyped ==
    ASSUME NEW words, NEW args, Cardinality(args) \in Nat
    PROVE  /\ CallType(words, args) \in CallTypes
           /\ CallType(words, args) # "USER" => Cardinality(args) > 2
           /\ CallType(words, args) \in {"PROC", "NAMESPACE_EVAL"} => Cardinality(args) = 4
<1> DEFINE IsText(place, text) == \E k \in args : /\ Place(args, k) = place
                                                  /\ words[k].type = "TEXT"
                                                  /\ words[k].text = text
           numWords == Cardinality(args)
<1>1. CallType(words, args) =
        CASE IsText(0, "proc") /\ numWords = 4 -> "PROC"
          [] IsText(0, "while") /\ numWords = 3 -> "WHILE"
          [] IsText(0, "for") /\ numWords = 5 -> "FOR"
          [] IsText(0, "foreach") /\ numWords = 4 -> "FOREACH"
          [] IsText(0, "namespace") /\ IsText(1, "eval") /\ numWords = 4 -> "NAMESPACE_EVAL"
          [] OTHER -> "USER"
  BY DEF CallType
<1> HIDE DEF IsText, numWords
<1>2. numWords \in Nat BY DEF numWords
<1>3. \/ CallType(words, args) = "PROC" /\ numWords = 4
      \/ CallType(words, args) = "WHILE" /\ numWords = 3
      \/ CallType(words, args) = "FOR" /\ numWords = 5
      \/ CallType(words, args) = "FOREACH" /\ numWords = 4
      \/ CallType(words, args) = "NAMESPACE_EVAL" /\ numWords = 4
      \/ CallType(words, args) = "USER"
  BY <1>1
<1> QED BY <1>2, <1>3 DEF CallTypes, numWords

\* What holds of the words of a call, whatever it is.
WordIn(T, table, most, k, w) ==
    /\ w \in TypedWords
    /\ w.last = k + T[k].n
    /\ T[k].at <= w.at /\ End(w) <= End(T[k])
    /\ w.type \in Lists => T[k].n > 0
    /\ T[k].n > 0 => w.at <= T[k + 1].at
    /\ T[k].n = 0 => w.at = T[k].at
    /\ w.type = "SCRIPT" => /\ w.script \in 1..most
                            /\ CommandsLie(table[w.script], w.at, End(w))

LEMMA WordIsIn ==
    ASSUME NEW table, NEW most \in Nat, NEW T, WellFormed(T, table, most), NEW k \in 1..Len(T)
    PROVE  WordIn(T, table, most, k, ParseWord(T, k))
<1> DEFINE w == ParseWord(T, k)
<1>1. /\ w \in TypedWords
      /\ w.last = k + T[k].n
      /\ T[k].at <= w.at /\ End(w) <= End(T[k])
      /\ w.type \in Lists => T[k].n > 0
      /\ T[k].n > 0 => w.at <= T[k + 1].at
      /\ T[k].n = 0 => w.at = T[k].at
      /\ w.type = "SCRIPT" =>
             /\ w.script = T[k].inside /\ T[k].inside # NoScript
             /\ w.at = T[k].at /\ w.size = T[k].size
  BY WordParsed
<1> HIDE DEF w
<1>2. ASSUME w.type = "SCRIPT"
      PROVE  w.script \in 1..most /\ CommandsLie(table[w.script], w.at, End(w))
  <2>1. T[k].inside <= most /\ CommandsLie(table[T[k].inside], T[k].at, End(T[k]))
    BY <1>1, <1>2 DEF WellFormed, Encloses
  <2>2. End(w) = End(T[k]) BY <1>1, <1>2 DEF End
  <2>3. T[k].inside \in Nat BY TokensTyped DEF WellFormed
  <2>4. T[k].inside \in 1..most BY <1>1, <1>2, <2>1, <2>3 DEF NoScript
  <2> QED BY <1>1, <1>2, <2>1, <2>2, <2>4
<1> QED BY <1>1, <1>2 DEF WordIn, w

LEMMA ListIsIn ==
    ASSUME NEW table, NEW most, NEW T, NEW k, NEW w, WordIn(T, table, most, k, w)
    PROVE  WordIn(T, table, most, k, WordToList(w))
<1>1. CASE w.list
  <2>1. WordToList(w) = [w EXCEPT !.type = "LIST"] BY <1>1 DEF WordToList
  <2>2. w \in TypedWords BY DEF WordIn
  <2> DEFINE v == [w EXCEPT !.type = "LIST"]
  <2>3. /\ v \in TypedWords /\ v.type = "LIST" /\ v.last = w.last /\ v.at = w.at /\ v.size = w.size
    BY <2>2 DEF TypedWords, WordTypes
  <2>4. End(v) = End(w) BY <2>3 DEF End
  <2>5. v.type # "SCRIPT" /\ v.type \notin Lists BY <2>3 DEF Lists
  <2> HIDE DEF v
  <2>6. WordIn(T, table, most, k, v) BY <2>3, <2>4, <2>5 DEF WordIn
  <2> QED BY <2>1, <2>6 DEF v
<1>2. CASE ~w.list BY <1>2 DEF WordToList
<1> QED BY <1>1, <1>2

LEMMA BodyIsIn ==
    ASSUME NEW table, NEW most \in Nat, NEW T, WellFormed(T, table, most), NEW k \in 1..Len(T),
           T[k].type \in {"simple", "word", "expand"},
           T[k].type = "simple" => T[k + 1].inside # NoScript
    PROVE  WordIn(T, table, most, k, Body(ParseWord(T, k)))
<1> DEFINE w == ParseWord(T, k)
           v == [w EXCEPT !.type = "SCRIPT", !.script = w.inside]
<1>0. WordIn(T, table, most, k, w) BY WordIsIn
<1>1. /\ T[k].type = "simple" =>
             /\ w.type = "TEXT" /\ k + 1 \in 1..Len(T)
             /\ w.inside = T[k + 1].inside
             /\ w.at = T[k + 1].at /\ w.size = T[k + 1].size
      /\ T[k].type \in {"word", "expand"} => w.type \in Lists
  BY WordParsed
<1>2. CASE w.type = "TEXT"
  <2>1. T[k].type = "simple" BY <1>1, <1>2 DEF Lists
  <2>2. w \in TypedWords BY <1>0 DEF WordIn
  <2>3. Body(w) = v BY <1>2 DEF Body
  <2> HIDE DEF w
  <2>4. /\ v \in TypedWords /\ v.type = "SCRIPT" /\ v.script = w.inside
        /\ v.last = w.last /\ v.at = w.at /\ v.size = w.size
    BY <2>2 DEF TypedWords, WordTypes
  <2> HIDE DEF v
  <2>5. End(v) = End(w) /\ End(v) = End(T[k + 1]) BY <1>1, <2>1, <2>4 DEF End
  <2>6. /\ T[k + 1].inside <= most
        /\ CommandsLie(table[T[k + 1].inside], T[k + 1].at, End(T[k + 1]))
    BY <1>1, <2>1 DEF WellFormed, Encloses
  <2>7. T[k + 1].inside \in Nat BY <1>1, <2>1, TokensTyped DEF WellFormed
  <2>8. v.script \in 1..most BY <1>1, <2>1, <2>4, <2>6, <2>7 DEF NoScript
  <2>9. CommandsLie(table[v.script], v.at, End(v)) BY <1>1, <2>1, <2>4, <2>5, <2>6
  <2>10. v.type \notin Lists BY <2>4 DEF Lists
  <2>11. WordIn(T, table, most, k, v) BY <1>0, <2>4, <2>5, <2>8, <2>9, <2>10 DEF WordIn
  <2> QED BY <2>3, <2>11 DEF w
<1>3. CASE w.type # "TEXT" BY <1>0, <1>3 DEF Body
<1> QED BY <1>2, <1>3

LEMMA CallParsed ==
    ASSUME NEW table, NEW most \in Nat, NEW T, IsCommand(T, table, most)
    PROVE  LET call == ParseCommand(T)
           IN  /\ call.args = Arguments(T)
               /\ call.type \in CallTypes
               /\ call.type \in {"PROC", "NAMESPACE_EVAL"} => Cardinality(call.args) = 4
               /\ call.words \in Seq(TypedWords) /\ Len(call.words) = Len(T)
               /\ \A k \in 1..Len(T) : WordIn(T, table, most, k, call.words[k])
<1> DEFINE words == [k \in 1..Len(T) |-> ParseWord(T, k)]
           args == Arguments(T)
           kind == CallType(words, args)
           In(k, places) == k \in args /\ Place(args, k) \in places
           word(k) == CASE In(k, Bodies(kind)) -> Body(words[k])
                        [] kind = "PROC" /\ In(k, {2}) -> WordToList(words[k])
                        [] OTHER -> words[k]
           parsed == [k \in 1..Len(T) |-> word(k)]
<1>0. T \in Seq(Tokens) /\ WellFormed(T, table, most) /\ Len(T) \in Nat
  BY DEF IsCommand, WellFormed
<1>1. ParseCommand(T) = [type |-> kind, args |-> args, words |-> parsed] BY DEF ParseCommand
<1>2. Cardinality(args) \in Nat /\ Cardinality(args) <= Len(T) /\ args \subseteq 1..Len(T)
  BY <1>0, ArgumentsTyped
<1>3. /\ kind \in CallTypes
      /\ kind # "USER" => Cardinality(args) > 2
      /\ kind \in {"PROC", "NAMESPACE_EVAL"} => Cardinality(args) = 4
  BY <1>2, CallTyped
<1> HIDE DEF kind, args
<1>b. kind # "USER" => Bodied(T)
  <2> DEFINE m == Len(T)
             n == Cardinality(args)
  <2>1. m \in Nat /\ n \in Nat /\ n <= m /\ (kind # "USER" => n > 2) BY <1>0, <1>2, <1>3
  <2>2. Bodied(T) \/ m = 2 BY DEF IsCommand
  <2> HIDE DEF m, n
  <2> QED BY <2>1, <2>2
<1>4. ASSUME NEW k \in 1..Len(T) PROVE WordIn(T, table, most, k, word(k))
  <2>1. words[k] = ParseWord(T, k) OBVIOUS
  <2>2. WordIn(T, table, most, k, words[k]) BY <1>0, <2>1, WordIsIn
  <2>3. WordIn(T, table, most, k, WordToList(words[k])) BY <2>2, ListIsIn
  <2>4. ASSUME In(k, Bodies(kind)) PROVE WordIn(T, table, most, k, Body(words[k]))
    <3>1. kind # "USER" BY <2>4 DEF Bodies
    <3>2. Bodied(T) BY <1>b, <3>1
    <3>3. /\ T[k].type \in {"simple", "word", "expand"}
          /\ T[k].type = "simple" => T[k + 1].inside # NoScript
      BY <2>4, <3>2 DEF IsCommand, OfWords, Bodied, args
    <3>4. WordIn(T, table, most, k, Body(ParseWord(T, k))) BY <1>0, <3>3, BodyIsIn
    <3> QED BY <2>1, <3>4
  <2> HIDE DEF words
  <2> QED BY <2>2, <2>3, <2>4
<1> HIDE DEF word, words
<1>5. parsed \in Seq(TypedWords) /\ Len(parsed) = Len(T) /\ \A k \in 1..Len(T) : parsed[k] = word(k)
  <2>1. \A k \in 1..Len(T) : word(k) \in TypedWords BY <1>4 DEF WordIn
  <2> QED BY <1>0, <2>1
<1> HIDE DEF parsed
<1>6. \A k \in 1..Len(T) : WordIn(T, table, most, k, parsed[k]) BY <1>4, <1>5
<1> DEFINE call == ParseCommand(T)
<1>7. call.type = kind /\ call.args = args /\ call.words = parsed BY <1>1
<1> HIDE DEF call
<1>8. call.args = Arguments(T) BY <1>7 DEF args
<1>9. call.type \in {"PROC", "NAMESPACE_EVAL"} => Cardinality(call.args) = 4 BY <1>3, <1>7
<1>10. call.type \in CallTypes /\ call.words \in Seq(TypedWords) /\ Len(call.words) = Len(T)
  BY <1>3, <1>5, <1>7
<1>11. \A k \in 1..Len(T) : WordIn(T, table, most, k, call.words[k]) BY <1>6, <1>7, Zenon
<1> QED BY <1>8, <1>9, <1>10, <1>11 DEF call

-----------------------------------------------------------------------------
(* Trees of scripts, calls and words.                                      *)

Calls == [type : CallTypes, args : SUBSET Nat, words : Seq(TypedWords)]

WordsLie(calls, from, to) ==
    \A i \in 1..Len(calls) : \A k \in 1..Len(calls[i].words) :
        from <= calls[i].words[k].at /\ End(calls[i].words[k]) <= to

\* A word encloses its parts.
Laminar(words) ==
    \A k \in 1..Len(words) :
        /\ words[k].last \in k..Len(words)
        /\ words[k].type \in Lists => k < words[k].last
        /\ \A j \in k..words[k].last : words[j].last <= words[k].last

WordsAscend(words) == \A i, j \in 1..Len(words) : i < j => words[i].at <= words[j].at

\* What follows an argument begins behind it.
Apart(call) ==
    \A k \in call.args :
        /\ \A l \in call.args : k < l => call.words[k].last < l
        /\ \A i \in k..call.words[k].last : \A j \in 1..Len(call.words) :
               j > call.words[k].last => End(call.words[i]) < call.words[j].at

\* The scripts in words are before them in the table, and inside of them.
ScriptsLie(words, tree, most) ==
    \A k \in 1..Len(words) :
        words[k].type = "SCRIPT" =>
            /\ words[k].script \in 1..most
            /\ WordsLie(tree[words[k].script], words[k].at, End(words[k]))

GoodCall(call, tree, most) ==
    /\ call.args \subseteq 1..Len(call.words)
    /\ call.type \in {"PROC", "NAMESPACE_EVAL"} => Cardinality(call.args) = 4
    /\ Laminar(call.words)
    /\ WordsAscend(call.words)
    /\ Apart(call)
    /\ ScriptsLie(call.words, tree, most)

CallsApart(calls) ==
    \A i, j \in 1..Len(calls) : i < j =>
        \A k \in 1..Len(calls[i].words), l \in 1..Len(calls[j].words) :
            End(calls[i].words[k]) < calls[j].words[l].at

GoodScript(calls, tree, most) ==
    /\ \A i \in 1..Len(calls) : GoodCall(calls[i], tree, most)
    /\ CallsApart(calls)

IsTree(tree, end) ==
    /\ tree \in Seq(Seq(Calls))
    /\ \A s \in 1..Len(tree) : GoodScript(tree[s], tree, s - 1) /\ WordsLie(tree[s], 0, end)

LEMMA WordTyped ==
    ASSUME NEW w \in TypedWords
    PROVE  /\ w.type \in WordTypes /\ w.last \in Nat /\ w.at \in Nat /\ w.size \in Nat
           /\ w.inside \in Nat /\ w.list \in BOOLEAN /\ w.script \in Nat
           /\ End(w) \in Nat /\ w.at <= End(w)
BY DEF TypedWords, End

LEMMA ParsedCallsGood ==
    ASSUME NEW table, NEW most \in Nat, NEW T, IsCommand(T, table, most),
           NEW tree, \A s \in 1..most : \A from, to \in Int :
               CommandsLie(table[s], from, to) => WordsLie(tree[s], from, to)
    PROVE  GoodCall(ParseCommand(T), tree, most) /\ ParseCommand(T) \in Calls
<1> DEFINE call == ParseCommand(T)
           words == call.words
<1>0. /\ call.args = Arguments(T)
      /\ call.type \in CallTypes
      /\ call.type \in {"PROC", "NAMESPACE_EVAL"} => Cardinality(call.args) = 4
      /\ words \in Seq(TypedWords) /\ Len(words) = Len(T)
      /\ \A k \in 1..Len(T) : WordIn(T, table, most, k, words[k])
  BY CallParsed
<1>r. call = [type |-> call.type, args |-> call.args, words |-> words] BY DEF ParseCommand
<1>1. T \in Seq(Tokens) /\ Nested(T) /\ Ascend(T) /\ Spaced(T) /\ Len(T) \in Nat
  BY DEF IsCommand, WellFormed
<1>2. /\ call.args \subseteq 1..Len(T)
      /\ \A k, l \in call.args : k < l => k + T[k].n < l
  BY <1>0, <1>1, ArgumentsTyped
<1> HIDE DEF call, words
<1>3. call \in Calls
  <2>1. call.args \subseteq Nat BY <1>2
  <2> QED BY <1>0, <1>r, <2>1 DEF Calls
<1>4. ASSUME NEW k \in 1..Len(T)
      PROVE  /\ words[k] \in TypedWords /\ words[k].last = k + T[k].n
             /\ T[k].at <= words[k].at /\ End(words[k]) <= End(T[k])
             /\ words[k].type \in Lists => T[k].n > 0
             /\ T[k].n > 0 => words[k].at <= T[k + 1].at
             /\ T[k].n = 0 => words[k].at = T[k].at
             /\ words[k].type = "SCRIPT" =>
                    /\ words[k].script \in 1..most
                    /\ CommandsLie(table[words[k].script], words[k].at, End(words[k]))
             /\ T[k].n \in Nat /\ T[k].at \in Nat /\ End(T[k]) \in Nat
             /\ words[k].at \in Nat /\ End(words[k]) \in Nat
             /\ k + T[k].n <= Len(T)
  <2>1. WordIn(T, table, most, k, words[k]) BY <1>0
  <2>2. T[k].n \in Nat /\ T[k].at \in Nat /\ End(T[k]) \in Nat BY <1>1, TokensTyped
  <2>3. words[k] \in TypedWords BY <2>1 DEF WordIn
  <2>4. words[k].at \in Nat /\ End(words[k]) \in Nat BY <2>3, WordTyped
  <2>5. k + T[k].n <= Len(T) BY <1>1 DEF Nested
  <2> QED BY <2>1, <2>2, <2>3, <2>4, <2>5 DEF WordIn
<1>5. Laminar(words)
  <2> SUFFICES ASSUME NEW k \in 1..Len(T)
               PROVE  /\ words[k].last \in k..Len(T)
                      /\ words[k].type \in Lists => k < words[k].last
                      /\ \A j \in k..words[k].last : words[j].last <= words[k].last
    BY <1>0 DEF Laminar
  <2>1. words[k].last = k + T[k].n /\ T[k].n \in Nat /\ k + T[k].n <= Len(T) BY <1>4
  <2>2. ASSUME NEW j \in k..words[k].last PROVE words[j].last <= words[k].last
    <3>1. j \in Spans(T, k) /\ j \in 1..Len(T) BY <1>1, <2>1 DEF Spans
    <3>2. j + T[j].n <= k + T[k].n BY <1>1, <3>1 DEF Nested
    <3>3. words[j].last = j + T[j].n BY <1>4, <3>1
    <3> QED BY <2>1, <3>2, <3>3
  <2>3. words[k].type \in Lists => T[k].n > 0 BY <1>4
  <2> QED BY <1>1, <2>1, <2>2, <2>3
<1>6. WordsAscend(words)
  <2> SUFFICES ASSUME NEW i \in 1..Len(T), NEW j \in 1..Len(T), i < j PROVE words[i].at <= words[j].at
    BY <1>0 DEF WordsAscend
  <2>1. T[j].at <= words[j].at /\ words[i].at \in Nat /\ words[j].at \in Nat /\ T[j].at \in Nat
        /\ T[i].n \in Nat /\ T[i].at \in Nat
    BY <1>4
  <2>2. CASE T[i].n = 0
    <3>1. words[i].at = T[i].at BY <1>4, <2>2
    <3>2. T[i].at <= T[j].at BY <1>1 DEF Ascend
    <3> QED BY <2>1, <3>1, <3>2
  <2>3. CASE T[i].n > 0
    <3>1. words[i].at <= T[i + 1].at BY <1>4, <2>3
    <3>2. i + 1 \in 1..Len(T) /\ (i + 1 = j \/ i + 1 < j) BY <1>1
    <3>3. T[i + 1].at \in Nat BY <1>4, <3>2
    <3>4. T[i + 1].at <= T[j].at
      <4>1. CASE i + 1 = j BY <2>1, <4>1
      <4>2. CASE i + 1 < j BY <1>1, <3>2, <4>2 DEF Ascend
      <4> QED BY <3>2, <4>1, <4>2
    <3> QED BY <2>1, <3>1, <3>3, <3>4
  <2> QED BY <2>1, <2>2, <2>3
<1>7. Apart(call)
  <2> SUFFICES ASSUME NEW k \in call.args
               PROVE  /\ \A l \in call.args : k < l => words[k].last < l
                      /\ \A i \in k..words[k].last : \A j \in 1..Len(T) :
                             j > words[k].last => End(words[i]) < words[j].at
    BY <1>0 DEF Apart, words
  <2>0. k \in 1..Len(T) BY <1>2
  <2>1. words[k].last = k + T[k].n /\ T[k].n \in Nat /\ k + T[k].n <= Len(T) /\ End(T[k]) \in Nat
    BY <1>4, <2>0
  <2>2. \A l \in call.args : k < l => words[k].last < l BY <1>2, <2>1
  <2>3. ASSUME NEW i \in k..words[k].last, NEW j \in 1..Len(T), j > words[k].last
        PROVE  End(words[i]) < words[j].at
    <3>1. i \in Spans(T, k) /\ i \in 1..Len(T) BY <1>1, <2>0, <2>1 DEF Spans
    <3>2. End(T[i]) <= End(T[k]) BY <1>1, <2>0, <3>1 DEF Nested
    <3>3. k \in Arguments(T) /\ j > k + T[k].n BY <1>0, <2>1, <2>3
    <3>4. End(T[k]) < T[j].at BY <1>1, <3>3 DEF Spaced
    <3>5. /\ End(words[i]) <= End(T[i]) /\ End(words[i]) \in Nat /\ End(T[i]) \in Nat
          /\ T[j].at <= words[j].at /\ T[j].at \in Nat /\ words[j].at \in Nat
      BY <1>4, <3>1
    <3> QED BY <2>1, <3>2, <3>4, <3>5
  <2> QED BY <2>2, <2>3
<1>8. ScriptsLie(words, tree, most)
  <2> SUFFICES ASSUME NEW k \in 1..Len(T), words[k].type = "SCRIPT"
               PROVE  /\ words[k].script \in 1..most
                      /\ WordsLie(tree[words[k].script], words[k].at, End(words[k]))
    BY <1>0 DEF ScriptsLie
  <2>1. /\ words[k].script \in 1..most
        /\ CommandsLie(table[words[k].script], words[k].at, End(words[k]))
        /\ words[k].at \in Int /\ End(words[k]) \in Int
    BY <1>4
  <2> QED BY <2>1
<1>9. GoodCall(call, tree, most) BY <1>0, <1>2, <1>5, <1>6, <1>7, <1>8 DEF GoodCall, words
<1> QED BY <1>3, <1>9 DEF call

LEMMA ParsedLie ==
    ASSUME NEW table, NEW most \in Nat, NEW commands, IsScript(commands, table, most),
           NEW from \in Int, NEW to \in Int, CommandsLie(commands, from, to)
    PROVE  WordsLie(ParseScript(commands), from, to)
<1> DEFINE calls == ParseScript(commands)
<1>1. calls = [i \in 1..Len(commands) |-> ParseCommand(commands[i])] BY DEF ParseScript
<1>2. Len(commands) \in Nat /\ Len(calls) = Len(commands) BY <1>1 DEF IsScript, Commands
<1> HIDE DEF calls
<1>3. ASSUME NEW i \in 1..Len(calls), NEW k \in 1..Len(calls[i].words)
      PROVE  from <= calls[i].words[k].at /\ End(calls[i].words[k]) <= to
  <2> DEFINE T == commands[i]
             w == calls[i].words[k]
  <2>1. calls[i] = ParseCommand(T) /\ i \in 1..Len(commands) BY <1>1, <1>2
  <2>2. IsCommand(T, table, most) BY <2>1 DEF IsScript
  <2>3. k \in 1..Len(T) /\ WordIn(T, table, most, k, w)
    <3> HIDE DEF T
    <3>1. /\ Len(ParseCommand(T).words) = Len(T)
          /\ \A l \in 1..Len(T) : WordIn(T, table, most, l, ParseCommand(T).words[l])
      BY <2>2, CallParsed
    <3> QED BY <2>1, <3>1
  <2>4. T \in Seq(Tokens) BY <2>2 DEF IsCommand, WellFormed
  <2>5. from <= T[k].at /\ End(T[k]) <= to BY <2>1, <2>3 DEF CommandsLie, Lie
  <2>6. T[k].at \in Nat /\ End(T[k]) \in Nat BY <2>3, <2>4, TokensTyped
  <2>7. w \in TypedWords /\ T[k].at <= w.at /\ End(w) <= End(T[k]) BY <2>3 DEF WordIn
  <2> HIDE DEF T, w
  <2>8. w.at \in Nat /\ End(w) \in Nat BY <2>7, WordTyped
  <2>9. from <= w.at /\ End(w) <= to BY <2>5, <2>6, <2>7, <2>8
  <2> QED BY <2>9 DEF w
<1> QED BY <1>3 DEF WordsLie, calls

LEMMA ParsedScriptsGood ==
    ASSUME NEW table, NEW most \in Nat, NEW commands, IsScript(commands, table, most),
           NEW tree, \A s \in 1..most : \A from, to \in Int :
               CommandsLie(table[s], from, to) => WordsLie(tree[s], from, to)
    PROVE  GoodScript(ParseScript(commands), tree, most) /\ ParseScript(commands) \in Seq(Calls)
<1> DEFINE calls == ParseScript(commands)
<1>1. calls = [i \in 1..Len(commands) |-> ParseCommand(commands[i])] BY DEF ParseScript
<1>2. Len(commands) \in Nat /\ Len(calls) = Len(commands) BY <1>1 DEF IsScript, Commands
<1>3. ASSUME NEW i \in 1..Len(commands)
      PROVE  /\ IsCommand(commands[i], table, most)
             /\ calls[i] = ParseCommand(commands[i])
             /\ GoodCall(ParseCommand(commands[i]), tree, most)
             /\ ParseCommand(commands[i]) \in Calls
  <2> DEFINE T == commands[i]
  <2>1. IsCommand(T, table, most) BY DEF IsScript
  <2>2. calls[i] = ParseCommand(T) BY <1>1
  <2> HIDE DEF T
  <2>3. GoodCall(ParseCommand(T), tree, most) /\ ParseCommand(T) \in Calls BY <2>1, ParsedCallsGood
  <2> QED BY <2>1, <2>2, <2>3 DEF T
<1>4. calls \in Seq(Calls)
  <2>1. \A i \in 1..Len(commands) : ParseCommand(commands[i]) \in Calls BY <1>3
  <2> QED BY <1>1, <1>2, <2>1
<1> HIDE DEF calls
<1>5. ASSUME NEW i \in 1..Len(calls), NEW j \in 1..Len(calls), i < j,
             NEW k \in 1..Len(calls[i].words), NEW l \in 1..Len(calls[j].words)
      PROVE  End(calls[i].words[k]) < calls[j].words[l].at
  <2> DEFINE S == commands[i]
             T == commands[j]
             v == calls[i].words[k]
             w == calls[j].words[l]
  <2>1. /\ calls[i] = ParseCommand(S) /\ IsCommand(S, table, most)
        /\ calls[j] = ParseCommand(T) /\ IsCommand(T, table, most)
        /\ i \in 1..Len(commands) /\ j \in 1..Len(commands)
    BY <1>2, <1>3
  <2>c. \A k2 \in 1..Len(S), l2 \in 1..Len(T) : End(S[k2]) < T[l2].at
    BY <1>5, <2>1 DEF IsScript
  <2>t. S \in Seq(Tokens) /\ T \in Seq(Tokens) BY <2>1 DEF IsCommand, WellFormed
  <2> HIDE DEF S, T
  <2>2. k \in 1..Len(S) /\ WordIn(S, table, most, k, v)
    <3>1. /\ Len(ParseCommand(S).words) = Len(S)
          /\ \A m \in 1..Len(S) : WordIn(S, table, most, m, ParseCommand(S).words[m])
      BY <2>1, CallParsed
    <3> QED BY <2>1, <3>1
  <2>3. l \in 1..Len(T) /\ WordIn(T, table, most, l, w)
    <3>1. /\ Len(ParseCommand(T).words) = Len(T)
          /\ \A m \in 1..Len(T) : WordIn(T, table, most, m, ParseCommand(T).words[m])
      BY <2>1, CallParsed
    <3> QED BY <2>1, <3>1
  <2>5. End(S[k]) < T[l].at BY <2>2, <2>3, <2>c
  <2>6. T[l].at \in Nat /\ End(S[k]) \in Nat BY <2>2, <2>3, <2>t, TokensTyped
  <2>7. v \in TypedWords /\ w \in TypedWords /\ T[l].at <= w.at /\ End(v) <= End(S[k])
    BY <2>2, <2>3 DEF WordIn
  <2> HIDE DEF v, w
  <2>8. w.at \in Nat /\ End(v) \in Nat BY <2>7, WordTyped
  <2>9. End(v) < w.at BY <2>5, <2>6, <2>7, <2>8
  <2> QED BY <2>9 DEF v, w
<1>6. CallsApart(calls) BY <1>5 DEF CallsApart
<1>7. GoodScript(calls, tree, most) BY <1>2, <1>3, <1>6 DEF GoodScript
<1> QED BY <1>4, <1>7 DEF calls

LEMMA TreeParsed ==
    ASSUME NEW table, NEW end \in Nat, IsTable(table, end)
    PROVE  IsTree([s \in 1..Len(table) |-> ParseScript(table[s])], end)
<1> DEFINE tree == [s \in 1..Len(table) |-> ParseScript(table[s])]
<1>1. Len(table) \in Nat BY DEF IsTable
<1>2. /\ \A s \in 1..Len(table) : tree[s] = ParseScript(table[s])
      /\ Len(tree) = Len(table)
  BY <1>1
<1>t. ASSUME \A s \in 1..Len(table) : ParseScript(table[s]) \in Seq(Calls)
      PROVE  tree \in Seq(Seq(Calls))
  BY <1>1, <1>t
<1> HIDE DEF tree
<1>3. ASSUME NEW s \in 1..Len(table), NEW from \in Int, NEW to \in Int, CommandsLie(table[s], from, to)
      PROVE  WordsLie(tree[s], from, to)
  <2>1. IsScript(table[s], table, s - 1) /\ s - 1 \in Nat BY DEF IsTable
  <2>2. WordsLie(ParseScript(table[s]), from, to) BY <1>3, <2>1, ParsedLie
  <2> QED BY <1>2, <2>2
<1>4. ASSUME NEW s \in 1..Len(table)
      PROVE  /\ GoodScript(tree[s], tree, s - 1) /\ WordsLie(tree[s], 0, end)
             /\ ParseScript(table[s]) \in Seq(Calls)
  <2>1. IsScript(table[s], table, s - 1) /\ s - 1 \in Nat /\ CommandsLie(table[s], 0, end)
    BY DEF IsTable
  <2>2. \A t \in 1..(s - 1) : \A from, to \in Int : CommandsLie(table[t], from, to) => WordsLie(tree[t], from, to)
    BY <1>1, <1>3
  <2>3. GoodScript(ParseScript(table[s]), tree, s - 1) /\ ParseScript(table[s]) \in Seq(Calls)
    BY <2>1, <2>2, ParsedScriptsGood
  <2>4. WordsLie(tree[s], 0, end)
    <3>1. 0 \in Int /\ end \in Int OBVIOUS
    <3> QED BY <1>3, <2>1, <3>1
  <2> QED BY <1>2, <2>3, <2>4
<1>5. tree \in Seq(Seq(Calls)) BY <1>4, <1>t
<1>6. IsTree(tree, end) BY <1>2, <1>4, <1>5 DEF IsTree
<1> QED BY <1>6 DEF tree

-----------------------------------------------------------------------------
(* The search for a position.                                              *)

LEMMA MaxIs ==
    ASSUME NEW N \in Nat, NEW S, S \subseteq 0..N
    PROVE  /\ S # {} => Max(S) \in S /\ \A n \in S : n <= Max(S)
           /\ \A m \in S : (\A n \in S : n <= m) => Max(S) = m
<1>1. ASSUME S # {} PROVE Max(S) \in S /\ \A n \in S : n <= Max(S)
  <2>1. PICK m \in S : \A n \in S : n <= m BY <1>1, GreatestMember
  <2>2. \A n \in S : m >= n BY <2>1
  <2>3. Max(S) \in S /\ \A n \in S : Max(S) >= n BY <2>2 DEF Max
  <2> QED BY <2>3
<1>2. ASSUME NEW m \in S, \A n \in S : n <= m PROVE Max(S) = m
  <2>1. Max(S) \in S /\ m <= Max(S) /\ Max(S) <= m BY <1>1, <1>2
  <2>2. Max(S) \in Nat /\ m \in Nat
    <3> HIDE DEF Max
    <3>1. m \in 0..N /\ Max(S) \in 0..N BY <2>1
    <3> QED BY <3>1
  <2> DEFINE n == Max(S)
  <2> HIDE DEF n
  <2>3. n = m BY <2>1, <2>2 DEF n
  <2> QED BY <2>3 DEF n
<1> QED BY <1>1, <1>2

\* A recursion into lists ends at a word that is none.
LEMMA WithinIs ==
    ASSUME NEW call, call.words \in Seq(TypedWords), Laminar(call.words), NEW k \in 1..Len(call.words)
    PROVE  /\ Within(call, k, Lists) \subseteq k..call.words[k].last
           /\ Within(call, k, Lists) \subseteq 1..Len(call.words)
           /\ Within(call, k, Lists) \subseteq 0..Len(call.words)
           /\ k \in Within(call, k, Lists)
           /\ Max(Within(call, k, Lists)) \in Within(call, k, Lists)
           /\ \A j \in Within(call, k, Lists) : j <= Max(Within(call, k, Lists))
           /\ call.words[Max(Within(call, k, Lists))].type \notin Lists
           /\ \A j \in Within(call, k, Lists) :
                  call.words[j].type \notin Lists /\ call.words[j].last = call.words[k].last
                      => j = Max(Within(call, k, Lists))
<1> DEFINE words == call.words
           S == Within(call, k, Lists)
           N == Len(words)
           m == Max(S)
<1>1. /\ N \in Nat
      /\ words[k].last \in k..N
      /\ \A j \in 1..N : words[j].last \in j..N /\ (words[j].type \in Lists => j < words[j].last)
      /\ \A j \in k..words[k].last : words[j].last <= words[k].last
  BY DEF Laminar
<1>2. \A j : j \in S <=> /\ j \in k..words[k].last
                        /\ \A i \in k..(j - 1) : j <= words[i].last => words[i].type \in Lists
  BY DEF Within
<1> HIDE DEF S, words
<1>3. S \subseteq k..words[k].last /\ S \subseteq 1..N /\ S \subseteq 0..N
  <2> HIDE DEF N
  <2> QED BY <1>1, <1>2 DEF N
<1>4. k \in S
  <2> HIDE DEF N
  <2> QED BY <1>1, <1>2
<1>5. m \in S /\ \A j \in S : j <= m
  BY <1>1, <1>3, <1>4, MaxIs
<1>6. words[m].type \notin Lists
  <2> HIDE DEF N, m
  <2> SUFFICES ASSUME words[m].type \in Lists PROVE FALSE
    OBVIOUS
  <2>1. /\ m \in 1..N /\ m \in k..words[k].last /\ m < words[m].last /\ words[m].last \in m..N
        /\ words[m].last <= words[k].last
    BY <1>1, <1>3, <1>5
  <2>2. m + 1 \in k..words[k].last BY <1>1, <2>1
  <2>3. ASSUME NEW i \in k..m, m + 1 <= words[i].last PROVE words[i].type \in Lists
    <3>1. CASE i = m BY <3>1
    <3>2. CASE i # m
      <4>1. i \in k..(m - 1) /\ i \in 1..N BY <1>1, <2>1, <3>2
      <4>2. m <= words[i].last BY <1>1, <2>1, <2>3, <4>1
      <4> QED BY <1>2, <1>5, <4>1, <4>2
    <3> QED BY <3>1, <3>2
  <2>4. m + 1 \in S
    <3> DEFINE n == m + 1
    <3>1. k..(n - 1) = k..m BY <2>1
    <3>2. \A i \in k..m : n <= words[i].last => words[i].type \in Lists BY <2>3
    <3>3. n \in k..words[k].last BY <2>2
    <3> HIDE DEF n
    <3>4. \A i \in k..(n - 1) : n <= words[i].last => words[i].type \in Lists BY <3>1, <3>2
    <3>5. n \in S BY <1>2, <3>3, <3>4
    <3> QED BY <3>5 DEF n
  <2>5. m + 1 <= m BY <1>5, <2>4
  <2> QED BY <2>1, <2>5
<1>7. ASSUME NEW j \in S, words[j].type \notin Lists, words[j].last = words[k].last PROVE j = m
  <2> HIDE DEF N, m
  <2>1. m \in k..words[k].last /\ j \in k..words[k].last /\ j <= m BY <1>3, <1>5
  <2> SUFFICES ASSUME j # m PROVE FALSE
    OBVIOUS
  <2>2. j \in k..(m - 1) /\ m <= words[j].last BY <1>1, <1>7, <2>1
  <2> QED BY <1>2, <1>5, <1>7, <2>2
<1> QED BY <1>3, <1>4, <1>5, <1>6, <1>7 DEF S, words

\* The scripts among the words the recursion comes to.
ScriptWords(call, k) == {j \in Within(call, k, Lists) : call.words[j].type = "SCRIPT"}

LEMMA ScriptWordsIs ==
    ASSUME NEW call, call.words \in Seq(TypedWords), Laminar(call.words), NEW k \in 1..Len(call.words)
    PROVE  /\ ScriptWords(call, k) \subseteq Within(call, k, Lists)
           /\ ScriptWords(call, k) # {} =>
                  /\ Max(ScriptWords(call, k)) \in ScriptWords(call, k)
                  /\ \A j \in ScriptWords(call, k) : j <= Max(ScriptWords(call, k))
           /\ \A m \in ScriptWords(call, k) :
                  (\A j \in ScriptWords(call, k) : j <= m) => Max(ScriptWords(call, k)) = m
<1>1. Within(call, k, Lists) \subseteq 0..Len(call.words) BY WithinIs
<1>2. ScriptWords(call, k) \subseteq Within(call, k, Lists) BY DEF ScriptWords
<1>3. ScriptWords(call, k) \subseteq 0..Len(call.words) /\ Len(call.words) \in Nat BY <1>1, <1>2
<1> QED BY <1>2, <1>3, MaxIs

LeafWords == {w \in TypedWords : w.type \notin Lists}
Cursors(end) == [call : {NoCall} \cup 0..end, argument : Nat, word : {NoWord} \cup LeafWords]

\* An argument is past a position if the recursion comes to a word that begins
\* behind it; `begun' are the offsets that do not.
Past(call, k, begun) == \E j \in Within(call, k, Lists) : call.words[j].at \notin begun

\* What the search takes from an argument that is not.
ResultAt(call, k) == [NoCursor EXCEPT !.call = Id(call), !.argument = Place(call.args, k)]

FoundIn(call, k, f) ==
    LET found == IF ScriptWords(call, k) = {} THEN ResultAt(call, k)
                 ELSE f[call.words[Max(ScriptWords(call, k))].script]
    IN  IF Max(Within(call, k, Lists)) \in ScriptWords(call, k) THEN found
        ELSE [found EXCEPT !.word = call.words[Max(Within(call, k, Lists))]]

\* The arguments of a script in front of the first one that is past the position.
InFront(calls, begun) ==
    {x \in Places(calls) : \A y \in Places(calls) :
                               Past(calls[y[1]], y[2], begun) => Precedes(x, y)}

IsLastPlace(x, places) == x \in places /\ \A y \in places \ {x} : Precedes(y, x)

IsFound(c, f, calls, begun) ==
    \/ InFront(calls, begun) = {} /\ c = NoCursor
    \/ \E x \in InFront(calls, begun) : /\ IsLastPlace(x, InFront(calls, begun))
                                        /\ c = FoundIn(calls[x[1]], x[2], f)

IsSearch(f, tree, end, begun) ==
    /\ f \in [1..Len(tree) -> Cursors(end)]
    /\ \A s \in 1..Len(tree) : IsFound(f[s], f, tree[s], begun)

LEMMA PlaceTyped ==
    ASSUME NEW call, call.words \in Seq(TypedWords), call.args \subseteq 1..Len(call.words), NEW k
    PROVE  Place(call.args, k) \in Nat
<1> DEFINE S == {j \in call.args : j < k}
<1>1. Len(call.words) \in Nat OBVIOUS
<1>2. S \subseteq 1..Len(call.words) OBVIOUS
<1>3. IsFiniteSet(1..Len(call.words)) BY <1>1, FS_Interval
<1> HIDE DEF S
<1>4. IsFiniteSet(S) BY <1>2, <1>3, FS_Subset
<1>5. Cardinality(S) \in Nat BY <1>4, FS_CardinalityType
<1> QED BY <1>5 DEF Place, S

LEMMA ResultIs ==
    ASSUME NEW call, NEW k
    PROVE  /\ ResultAt(call, k) \in [call : {NoCall, Id(call)}, argument : {0, Place(call.args, k)},
                                    word : {NoWord}]
           /\ ResultAt(call, k).call = Id(call)
           /\ ResultAt(call, k).argument = Place(call.args, k)
           /\ ResultAt(call, k).word = NoWord
<1> DEFINE a == Id(call)
           b == Place(call.args, k)
           R == [call : {NoCall, a}, argument : {0, b}, word : {NoWord}]
<1>1. NoCursor \in R /\ NoCursor.word = NoWord BY DEF NoCursor
<1> HIDE DEF a, b
<1> DEFINE c == NoCursor
<1> HIDE DEF c
<1>2. c \in R /\ c.word = NoWord BY <1>1 DEF c
<1>3. /\ [c EXCEPT !.call = a, !.argument = b] \in R
      /\ [c EXCEPT !.call = a, !.argument = b].call = a
      /\ [c EXCEPT !.call = a, !.argument = b].argument = b
      /\ [c EXCEPT !.call = a, !.argument = b].word = NoWord
  BY <1>2
<1> QED BY <1>3 DEF ResultAt, a, b, c

LEMMA ResultTyped ==
    ASSUME NEW call \in Calls, NEW tree, NEW most, GoodCall(call, tree, most), NEW end \in Nat,
           \A j \in 1..Len(call.words) : 0 <= call.words[j].at /\ End(call.words[j]) <= end,
           NEW k \in call.args
    PROVE  ResultAt(call, k) \in Cursors(end)
<1>1. call.words \in Seq(TypedWords) /\ call.args \subseteq 1..Len(call.words) /\ k \in 1..Len(call.words)
  BY DEF Calls, GoodCall
<1>2. Place(call.args, k) \in Nat BY <1>1, PlaceTyped
<1>3. 1 \in 1..Len(call.words) /\ call.words[1] \in TypedWords BY <1>1
<1>4. call.words[1].at \in Nat /\ End(call.words[1]) \in Nat /\ call.words[1].at <= End(call.words[1])
  BY <1>3, WordTyped
<1>5. Id(call) \in 0..end BY <1>3, <1>4 DEF Id
<1>6. ResultAt(call, k) \in [call : {Id(call)}, argument : {Place(call.args, k)}, word : {NoWord}]
  BY ResultIs
<1> QED BY <1>2, <1>5, <1>6 DEF Cursors

LEMMA FoundTyped ==
    ASSUME NEW call \in Calls, NEW tree, NEW most \in Nat, GoodCall(call, tree, most), NEW end \in Nat,
           \A j \in 1..Len(call.words) : 0 <= call.words[j].at /\ End(call.words[j]) <= end,
           NEW k \in call.args, NEW f, \A m \in 1..most : f[m] \in Cursors(end)
    PROVE  FoundIn(call, k, f) \in Cursors(end)
<1> DEFINE S == ScriptWords(call, k)
           W == Within(call, k, Lists)
           found == IF S = {} THEN ResultAt(call, k) ELSE f[call.words[Max(S)].script]
           w == call.words[Max(W)]
<1>1. /\ call.words \in Seq(TypedWords) /\ call.args \subseteq 1..Len(call.words)
      /\ k \in 1..Len(call.words) /\ Laminar(call.words) /\ ScriptsLie(call.words, tree, most)
  BY DEF Calls, GoodCall
<1>2. W \subseteq 1..Len(call.words) /\ Max(W) \in W /\ call.words[Max(W)].type \notin Lists
  BY <1>1, WithinIs
<1>3. w \in LeafWords BY <1>1, <1>2 DEF LeafWords
<1>4. found \in Cursors(end)
  <2>1. CASE S = {} BY <2>1, ResultTyped
  <2>2. CASE S # {}
    <3>1. Max(S) \in S /\ S \subseteq W BY <1>1, <2>2, ScriptWordsIs
    <3>2. Max(S) \in 1..Len(call.words) /\ call.words[Max(S)].type = "SCRIPT"
      BY <1>2, <3>1 DEF ScriptWords
    <3>3. call.words[Max(S)].script \in 1..most BY <1>1, <3>2 DEF ScriptsLie
    <3> QED BY <2>2, <3>3
  <2> QED BY <2>1, <2>2
<1>5. FoundIn(call, k, f) = IF Max(W) \in S THEN found ELSE [found EXCEPT !.word = w]
  BY DEF FoundIn
<1> HIDE DEF S, W, found, w
<1>6. [found EXCEPT !.word = w] \in Cursors(end) BY <1>3, <1>4 DEF Cursors
<1> QED BY <1>4, <1>5, <1>6

LEMMA FoundSame ==
    ASSUME NEW call \in Calls, NEW tree, NEW most \in Nat, GoodCall(call, tree, most),
           NEW k \in call.args, NEW f, NEW g, \A m \in 1..most : f[m] = g[m]
    PROVE  FoundIn(call, k, f) = FoundIn(call, k, g)
<1> DEFINE S == ScriptWords(call, k)
<1>1. /\ call.words \in Seq(TypedWords) /\ call.args \subseteq 1..Len(call.words)
      /\ k \in 1..Len(call.words) /\ Laminar(call.words) /\ ScriptsLie(call.words, tree, most)
  BY DEF Calls, GoodCall
<1>2. ASSUME S # {} PROVE f[call.words[Max(S)].script] = g[call.words[Max(S)].script]
  <2>1. Max(S) \in S /\ S \subseteq Within(call, k, Lists) BY <1>1, <1>2, ScriptWordsIs
  <2>2. Within(call, k, Lists) \subseteq 1..Len(call.words) BY <1>1, WithinIs
  <2>3. Max(S) \in 1..Len(call.words) /\ call.words[Max(S)].type = "SCRIPT"
    BY <2>1, <2>2 DEF ScriptWords
  <2>4. call.words[Max(S)].script \in 1..most BY <1>1, <2>3 DEF ScriptsLie
  <2> QED BY <2>4
<1> QED BY <1>2 DEF FoundIn

LEMMA PlacesIs ==
    ASSUME NEW calls
    PROVE  \A x : x \in Places(calls) <=> \E i \in 1..Len(calls) : \E k \in calls[i].args : x = <<i, k>>
BY DEF Places

LEMMA PlaceIs ==
    ASSUME NEW calls, NEW x \in Places(calls)
    PROVE  x = <<x[1], x[2]>> /\ x[1] \in 1..Len(calls) /\ x[2] \in calls[x[1]].args
<1>1. PICK i \in 1..Len(calls) : \E k \in calls[i].args : x = <<i, k>> BY PlacesIs
<1> QED BY <1>1

GoodArgs(calls) ==
    /\ Len(calls) \in Nat
    /\ \A i \in 1..Len(calls) : /\ Len(calls[i].words) \in Nat
                                /\ calls[i].args \subseteq 1..Len(calls[i].words)

LEMMA LastPlaceExists ==
    ASSUME NEW calls, GoodArgs(calls), NEW B, B \subseteq Places(calls), B # {}
    PROVE  \E x \in B : IsLastPlace(x, B)
<1> DEFINE I == {x[1] : x \in B}
<1>1. \A x \in B : x = <<x[1], x[2]>> /\ x[1] \in 1..Len(calls) /\ x[2] \in calls[x[1]].args
  BY PlaceIs
<1>2. PICK i \in I : \A j \in I : j <= i
  <2>1. I \subseteq 0..Len(calls) /\ I # {} /\ Len(calls) \in Nat BY <1>1 DEF GoodArgs
  <2> HIDE DEF I
  <2> QED BY <2>1, GreatestMember
<1> DEFINE K == {x[2] : x \in {y \in B : y[1] = i}}
<1>3. PICK k \in K : \A l \in K : l <= k
  <2>1. i \in 1..Len(calls) BY <1>1
  <2>2. K \subseteq calls[i].args /\ K # {} BY <1>1
  <2>3. K \subseteq 0..Len(calls[i].words) /\ Len(calls[i].words) \in Nat BY <2>1, <2>2 DEF GoodArgs
  <2> HIDE DEF K
  <2> QED BY <2>2, <2>3, GreatestMember
<1>4. PICK x \in B : x[1] = i /\ x[2] = k OBVIOUS
<1>5. ASSUME NEW y \in B \ {x} PROVE Precedes(y, x)
  <2>1. y[1] \in I /\ y[1] <= i BY <1>2
  <2>2. y[1] \in 1..Len(calls) /\ i \in 1..Len(calls) BY <1>1, <1>4
  <2>3. CASE y[1] < i BY <1>4, <2>3 DEF Precedes
  <2>4. CASE y[1] = i
    <3>1. y[2] \in K /\ k \in K BY <2>4
    <3>2. y[2] <= k BY <1>3, <3>1
    <3>3. y[2] \in calls[i].args /\ k \in calls[i].args BY <1>1, <1>4, <2>4
    <3>4. y[2] \in Nat /\ k \in Nat BY <2>2, <3>3 DEF GoodArgs
    <3>5. y[2] # k BY <1>1, <1>4, <2>4
    <3> QED BY <1>4, <2>4, <3>2, <3>4, <3>5 DEF Precedes
  <2> QED BY <2>1, <2>2, <2>3, <2>4
<1> QED BY <1>5 DEF IsLastPlace

LEMMA TreeArgs ==
    ASSUME NEW tree, NEW end, IsTree(tree, end), NEW s \in 1..Len(tree)
    PROVE  /\ Len(tree) \in Nat /\ s - 1 \in Nat
           /\ tree[s] \in Seq(Calls)
           /\ GoodArgs(tree[s])
           /\ \A i \in 1..Len(tree[s]) :
                  /\ tree[s][i] \in Calls
                  /\ tree[s][i].words \in Seq(TypedWords)
                  /\ GoodCall(tree[s][i], tree, s - 1)
                  /\ \A j \in 1..Len(tree[s][i].words) :
                        0 <= tree[s][i].words[j].at /\ End(tree[s][i].words[j]) <= end
<1>1. tree \in Seq(Seq(Calls)) /\ GoodScript(tree[s], tree, s - 1) /\ WordsLie(tree[s], 0, end)
  BY DEF IsTree
<1>2. Len(tree) \in Nat /\ tree[s] \in Seq(Calls) BY <1>1
<1>3. s - 1 \in Nat BY <1>2
<1> DEFINE calls == tree[s]
<1> HIDE DEF calls
<1>4. calls \in Seq(Calls) /\ Len(calls) \in Nat BY <1>2 DEF calls
<1>5. ASSUME NEW i \in 1..Len(calls)
      PROVE  /\ calls[i] \in Calls /\ calls[i].words \in Seq(TypedWords) /\ Len(calls[i].words) \in Nat
             /\ GoodCall(calls[i], tree, s - 1) /\ calls[i].args \subseteq 1..Len(calls[i].words)
  <2>1. calls[i] \in Calls BY <1>4
  <2>2. GoodCall(calls[i], tree, s - 1) BY <1>1 DEF GoodScript, calls
  <2>3. calls[i].words \in Seq(TypedWords) BY <2>1 DEF Calls
  <2> QED BY <2>1, <2>2, <2>3 DEF GoodCall
<1>6. \A i \in 1..Len(calls) : \A j \in 1..Len(calls[i].words) :
          0 <= calls[i].words[j].at /\ End(calls[i].words[j]) <= end
  BY <1>1 DEF WordsLie, calls
<1> QED BY <1>2, <1>3, <1>4, <1>5, <1>6 DEF GoodArgs, calls

LastInFront(calls, begun) ==
    CHOOSE x \in InFront(calls, begun) :
        \A y \in InFront(calls, begun) \ {x} : Precedes(y, x)

FoundFrom(calls, begun, f) ==
    IF InFront(calls, begun) = {} THEN NoCursor
    ELSE FoundIn(calls[LastInFront(calls, begun)[1]], LastInFront(calls, begun)[2], f)

LEMMA LastInFrontIs ==
    ASSUME NEW calls, GoodArgs(calls), NEW begun, InFront(calls, begun) # {}
    PROVE  /\ IsLastPlace(LastInFront(calls, begun), InFront(calls, begun))
           /\ LastInFront(calls, begun) \in InFront(calls, begun)
           /\ LastInFront(calls, begun) \in Places(calls)
<1> DEFINE B == InFront(calls, begun)
<1>1. B \subseteq Places(calls) BY DEF InFront
<1> HIDE DEF B
<1>2. \E x \in B : IsLastPlace(x, B) BY <1>1, LastPlaceExists DEF B
<1>3. \E x \in B : \A y \in B \ {x} : Precedes(y, x) BY <1>2 DEF IsLastPlace
<1>4. /\ (CHOOSE x \in B : \A y \in B \ {x} : Precedes(y, x)) \in B
      /\ \A y \in B \ {CHOOSE x \in B : \A y \in B \ {x} : Precedes(y, x)} :
             Precedes(y, CHOOSE x \in B : \A z \in B \ {x} : Precedes(z, x))
  BY <1>3
<1>5. LastInFront(calls, begun) \in B
      /\ \A y \in B \ {LastInFront(calls, begun)} : Precedes(y, LastInFront(calls, begun))
  BY <1>4 DEF LastInFront, B
<1> QED BY <1>1, <1>5 DEF IsLastPlace, B

LEMMA FoundFromTyped ==
    ASSUME NEW tree, NEW end \in Nat, IsTree(tree, end), NEW s \in 1..Len(tree), NEW begun,
           NEW f, \A m \in 1..(s - 1) : f[m] \in Cursors(end)
    PROVE  FoundFrom(tree[s], begun, f) \in Cursors(end)
<1> DEFINE calls == tree[s]
           x == LastInFront(calls, begun)
<1>1. CASE InFront(calls, begun) = {}
  <2>1. NoCursor \in Cursors(end) BY DEF NoCursor, Cursors
  <2> QED BY <1>1, <2>1 DEF FoundFrom
<1>2. CASE InFront(calls, begun) # {}
  <2>1. GoodArgs(calls) /\ s - 1 \in Nat BY TreeArgs
  <2>2. x \in Places(calls) BY <1>2, <2>1, LastInFrontIs
  <2>3. x[1] \in 1..Len(calls) /\ x[2] \in calls[x[1]].args BY <2>2, PlaceIs
  <2> DEFINE call == calls[x[1]]
             k == x[2]
  <2>4. /\ call \in Calls /\ GoodCall(call, tree, s - 1)
        /\ \A j \in 1..Len(call.words) : 0 <= call.words[j].at /\ End(call.words[j]) <= end
    BY <2>3, TreeArgs
  <2>5. FoundFrom(calls, begun, f) = FoundIn(call, k, f) BY <1>2 DEF FoundFrom
  <2>6. k \in call.args BY <2>3
  <2> HIDE DEF call, k
  <2>7. FoundIn(call, k, f) \in Cursors(end) BY <2>1, <2>4, <2>6, FoundTyped
  <2> QED BY <2>5, <2>7
<1> QED BY <1>1, <1>2

LEMMA FoundFromSame ==
    ASSUME NEW tree, NEW end \in Nat, IsTree(tree, end), NEW s \in 1..Len(tree), NEW begun,
           NEW f, NEW g, \A m \in 1..(s - 1) : f[m] = g[m]
    PROVE  FoundFrom(tree[s], begun, f) = FoundFrom(tree[s], begun, g)
<1> DEFINE calls == tree[s]
           x == LastInFront(calls, begun)
<1>1. CASE InFront(calls, begun) = {} BY <1>1 DEF FoundFrom
<1>2. CASE InFront(calls, begun) # {}
  <2>1. GoodArgs(calls) /\ s - 1 \in Nat BY TreeArgs
  <2>2. x \in Places(calls) BY <1>2, <2>1, LastInFrontIs
  <2>3. x[1] \in 1..Len(calls) /\ x[2] \in calls[x[1]].args BY <2>2, PlaceIs
  <2> DEFINE call == calls[x[1]]
             k == x[2]
  <2>4. call \in Calls /\ GoodCall(call, tree, s - 1) BY <2>3, TreeArgs
  <2>5. /\ FoundFrom(calls, begun, f) = FoundIn(call, k, f)
        /\ FoundFrom(calls, begun, g) = FoundIn(call, k, g)
    BY <1>2 DEF FoundFrom
  <2>6. k \in call.args BY <2>3
  <2> HIDE DEF call, k
  <2>7. FoundIn(call, k, f) = FoundIn(call, k, g) BY <2>1, <2>4, <2>6, FoundSame
  <2> QED BY <2>5, <2>7
<1> QED BY <1>1, <1>2

Searches(f, tree, begun) == f = [s \in 1..Len(tree) |-> FoundFrom(tree[s], begun, f)]

\* The search is defined, and what it finds in each script follows from the last
\* argument in front of the first one past the position.
LEMMA SearchExists ==
    ASSUME NEW tree, NEW end \in Nat, IsTree(tree, end), NEW begun
    PROVE  \E f : Searches(f, tree, begun)
<1> DEFINE N == Len(tree)
           D == Cursors(end)
           F == [1..N -> D]
           G == [s \in 1..N |-> [f \in F |-> FoundFrom(tree[s], begun, f)]]
<1>1. N \in Nat BY DEF IsTree
<1>2. NoCursor \in D BY DEF NoCursor, Cursors
<1>3. \A s \in 1..N : \A f \in F : G[s][f] = FoundFrom(tree[s], begun, f) OBVIOUS
<1>4. ASSUME NEW s \in 1..N, NEW f \in F PROVE FoundFrom(tree[s], begun, f) \in D
  <2>1. \A m \in 1..(s - 1) : m \in 1..N BY <1>1
  <2>2. \A m \in 1..(s - 1) : f[m] \in Cursors(end) BY <2>1
  <2> QED BY <2>2, FoundFromTyped
<1>5. \A s \in 1..N : \A f, g \in F :
          (\A m \in 1..(s - 1) : f[m] = g[m])
              => FoundFrom(tree[s], begun, f) = FoundFrom(tree[s], begun, g)
  BY FoundFromSame
<1> HIDE DEF G, D
<1>6. GivesIn(G, N, D) BY <1>3, <1>4 DEF GivesIn
<1>7. LooksBelow(G, N, D) BY <1>3, <1>5 DEF LooksBelow
<1> HIDE DEF N
<1>8. D # {} BY <1>2
<1>9. PICK f : Recursion(f, G, N, D) BY <1>1, <1>6, <1>7, <1>8, RecursionExists
<1>10. \A s \in 1..N : f[s] = FoundFrom(tree[s], begun, f) BY <1>3, <1>9 DEF F, Recursion
<1>11. f = [s \in 1..N |-> FoundFrom(tree[s], begun, f)] BY <1>9, <1>10 DEF Recursion
<1> QED BY <1>11 DEF N, Searches

LEMMA SearchTyped ==
    ASSUME NEW tree, NEW end \in Nat, IsTree(tree, end), NEW begun,
           NEW f, Searches(f, tree, begun)
    PROVE  IsSearch(f, tree, end, begun)
<1> USE DEF Searches
<1> DEFINE N == Len(tree)
           S == {s \in 1..N : f[s] \in Cursors(end)}
<1>1. N \in Nat BY DEF IsTree
<1>2. \A s \in 1..N : f[s] = FoundFrom(tree[s], begun, f) OBVIOUS
<1>3. ASSUME NEW s \in 1..N, \A m \in 1..(s - 1) : m \in S PROVE s \in S
  <2>1. \A m \in 1..(s - 1) : f[m] \in Cursors(end) BY <1>3
  <2>2. FoundFrom(tree[s], begun, f) \in Cursors(end) BY <2>1, FoundFromTyped
  <2> QED BY <1>2, <2>2
<1> HIDE DEF S
<1>4. \A s \in 1..N : s \in S BY <1>1, <1>3, FromBelow
<1>5. \A s \in 1..N : f[s] \in Cursors(end) BY <1>4 DEF S
<1>6. f \in [1..N -> Cursors(end)]
  <2>1. f = [s \in 1..N |-> f[s]] BY <1>2
  <2> QED BY <1>5, <2>1
<1>7. ASSUME NEW s \in 1..N PROVE IsFound(f[s], f, tree[s], begun)
  <2> DEFINE calls == tree[s]
             x == LastInFront(calls, begun)
  <2>1. GoodArgs(calls) BY TreeArgs
  <2>2. CASE InFront(calls, begun) = {} BY <1>2, <2>2 DEF IsFound, FoundFrom
  <2>3. CASE InFront(calls, begun) # {}
    <3>1. IsLastPlace(x, InFront(calls, begun)) /\ x \in InFront(calls, begun)
      BY <2>1, <2>3, LastInFrontIs
    <3>2. f[s] = FoundIn(calls[x[1]], x[2], f) BY <1>2, <2>3 DEF FoundFrom
    <3> QED BY <3>1, <3>2 DEF IsFound
  <2> QED BY <2>2, <2>3
<1> QED BY <1>6, <1>7 DEF IsSearch

\* The offsets that are not behind a position.
BegunAt(p) == {at \in Offsets : ~Before(p, OffsetToLineByte(at))}

LEMMA WordSearched ==
    ASSUME NEW call \in Calls, NEW tree, NEW most, GoodCall(call, tree, most),
           contents \in Seq(Bytes),
           \A j \in 1..Len(call.words) : 0 <= call.words[j].at /\ End(call.words[j]) <= Len(contents),
           NEW k \in call.args, NEW p, NEW nested
    PROVE  FindPositionInWord(ResultAt(call, k), call, k, p, nested)
              = IF Past(call, k, BegunAt(p)) THEN <<>> ELSE <<FoundIn(call, k, nested)>>
<1> DEFINE W == Within(call, k, Lists)
           scripts == ScriptWords(call, k)
           result == ResultAt(call, k)
           found == IF scripts = {} THEN result ELSE nested[call.words[Max(scripts)].script]
           other == [found EXCEPT !.word = call.words[Max(W)]]
           Behind == \E j \in W : ~Begun(call.words[j], p)
<1>1. call.words \in Seq(TypedWords) /\ k \in 1..Len(call.words) /\ Laminar(call.words)
  BY DEF Calls, GoodCall
<1>2. W \subseteq 1..Len(call.words) BY <1>1, WithinIs
<1>3. ASSUME NEW j \in W PROVE Begun(call.words[j], p) <=> call.words[j].at \in BegunAt(p)
  <2> DEFINE w == call.words[j]
  <2>1. w \in TypedWords /\ 0 <= w.at /\ End(w) <= Len(contents) BY <1>1, <1>2
  <2> HIDE DEF w
  <2>2. w.at \in Nat /\ End(w) \in Nat /\ w.at <= End(w) BY <2>1, WordTyped
  <2>3. Len(contents) \in Nat OBVIOUS
  <2>4. w.at \in Offsets BY <2>1, <2>2, <2>3 DEF Offsets
  <2>5. Begun(w, p) <=> w.at \in BegunAt(p) BY <2>4 DEF Begun, BegunAt
  <2> QED BY <2>5 DEF w
<1>4. Behind <=> Past(call, k, BegunAt(p)) BY <1>3 DEF Past
<1>5. FindPositionInWord(result, call, k, p, nested)
         = IF Behind THEN <<>> ELSE IF Max(W) \in scripts THEN <<found>> ELSE <<other>>
  BY DEF FindPositionInWord, ScriptWords
<1>6. FoundIn(call, k, nested) = IF Max(W) \in scripts THEN found ELSE other BY DEF FoundIn
<1> HIDE DEF Behind, W, scripts, result, found, other
<1>7. CASE Behind BY <1>4, <1>5, <1>7 DEF result
<1>8. CASE ~Behind
  <2>1. ~Past(call, k, BegunAt(p)) BY <1>4, <1>8
  <2>2. FindPositionInWord(result, call, k, p, nested)
          = IF Max(W) \in scripts THEN <<found>> ELSE <<other>>
    BY <1>5, <1>8
  <2>3. FindPositionInWord(result, call, k, p, nested) = <<FoundIn(call, k, nested)>> BY <1>6, <2>2
  <2> QED BY <2>1, <2>3 DEF result
<1> QED BY <1>7, <1>8

\* What the search does with one script.
SearchStep(commands, p, nested) ==
    LET Found(x) ==
            LET call == commands[x[1]]
            IN  FindPositionInWord(
                    [NoCursor EXCEPT !.call = Id(call),
                                     !.argument = Place(call.args, x[2])],
                    call, x[2], p, nested)
        past == {x \in Places(commands) : Found(x) = <<>>}
        before == {x \in Places(commands) : \A y \in past : Precedes(x, y)}
    IN  IF before = {} THEN NoCursor
        ELSE Found(CHOOSE x \in before :
                       \A y \in before \ {x} : Precedes(y, x))[1]

LEMMA ScriptSearched ==
    ASSUME contents \in Seq(Bytes), NEW tree, IsTree(tree, Len(contents)), NEW s \in 1..Len(tree),
           NEW p, NEW nested
    PROVE  SearchStep(tree[s], p, nested) = FoundFrom(tree[s], BegunAt(p), nested)
<1> DEFINE commands == tree[s]
           Found(x) ==
               LET call == commands[x[1]]
               IN  FindPositionInWord(
                       [NoCursor EXCEPT !.call = Id(call),
                                        !.argument = Place(call.args, x[2])],
                       call, x[2], p, nested)
           past == {x \in Places(commands) : Found(x) = <<>>}
           before == {x \in Places(commands) : \A y \in past : Precedes(x, y)}
           begun == BegunAt(p)
           front == InFront(commands, begun)
           last == LastInFront(commands, begun)
<1>0. SearchStep(commands, p, nested)
         = IF before = {} THEN NoCursor
           ELSE Found(CHOOSE x \in before : \A y \in before \ {x} : Precedes(y, x))[1]
  BY DEF SearchStep
<1>1. ASSUME NEW x \in Places(commands)
      PROVE  /\ Found(x) = IF Past(commands[x[1]], x[2], begun) THEN <<>>
                           ELSE <<FoundIn(commands[x[1]], x[2], nested)>>
  <2>1. x[1] \in 1..Len(commands) /\ x[2] \in commands[x[1]].args BY PlaceIs
  <2> DEFINE call == commands[x[1]]
             k == x[2]
  <2>2. /\ call \in Calls /\ GoodCall(call, tree, s - 1)
        /\ \A j \in 1..Len(call.words) : 0 <= call.words[j].at /\ End(call.words[j]) <= Len(contents)
    BY <2>1, TreeArgs
  <2>3. Found(x) = FindPositionInWord(ResultAt(call, k), call, k, p, nested) BY DEF ResultAt
  <2>4. k \in call.args BY <2>1
  <2> HIDE DEF call, k, Found
  <2>5. FindPositionInWord(ResultAt(call, k), call, k, p, nested)
          = IF Past(call, k, begun) THEN <<>> ELSE <<FoundIn(call, k, nested)>>
    BY <2>2, <2>4, WordSearched
  <2> QED BY <2>3, <2>5 DEF call, k
<1> HIDE DEF Found
<1>2. ASSUME NEW x \in Places(commands)
      PROVE  Found(x) = <<>> <=> Past(commands[x[1]], x[2], begun)
  <2> DEFINE c == FoundIn(commands[x[1]], x[2], nested)
             isPast == Past(commands[x[1]], x[2], begun)
  <2>1. Found(x) = IF isPast THEN <<>> ELSE <<c>> BY <1>1
  <2> HIDE DEF c, isPast
  <2>2. <<c>> # <<>> OBVIOUS
  <2> QED BY <2>1, <2>2 DEF isPast
<1>3. before = front BY <1>2 DEF InFront
<1>4. (CHOOSE x \in before : \A y \in before \ {x} : Precedes(y, x)) = last
  BY <1>3 DEF LastInFront
<1> HIDE DEF before
<1>5. CASE front = {} BY <1>0, <1>3, <1>5 DEF FoundFrom
<1>6. CASE front # {}
  <2>1. GoodArgs(commands) BY TreeArgs
  <2>2. last \in front /\ IsLastPlace(last, front) /\ last \in Places(commands)
    BY <1>6, <2>1, LastInFrontIs
  <2>3. ~Past(commands[last[1]], last[2], begun)
    <3> SUFFICES ASSUME Past(commands[last[1]], last[2], begun) PROVE FALSE
      OBVIOUS
    <3>1. Precedes(last, last) BY <2>2 DEF InFront
    <3>2. last[1] \in 1..Len(commands) /\ last[2] \in commands[last[1]].args BY <2>2, PlaceIs
    <3> HIDE DEF last, commands
    <3>3. last[1] \in Nat /\ last[2] \in Nat BY <2>1, <3>2 DEF GoodArgs
    <3> QED BY <3>1, <3>3 DEF Precedes
  <2>4. Found(last) = <<FoundIn(commands[last[1]], last[2], nested)>> BY <1>1, <2>2, <2>3
  <2>5. Found(last)[1] = FoundIn(commands[last[1]], last[2], nested) BY <2>4
  <2>6. FoundFrom(commands, begun, nested) = FoundIn(commands[last[1]], last[2], nested)
    BY <1>6 DEF FoundFrom
  <2> QED BY <1>0, <1>3, <1>4, <1>6, <2>5, <2>6
<1> QED BY <1>5, <1>6

LEMMA SearchIs ==
    ASSUME contents \in Seq(Bytes), NEW tree, IsTree(tree, Len(contents)), NEW p
    PROVE  \E f : /\ IsSearch(f, tree, Len(contents), BegunAt(p))
                  /\ FindPositionInScript(tree, p) = f[Len(tree)]
<1> DEFINE N == Len(tree)
           Loop(f) == f = [s \in 1..N |-> SearchStep(tree[s], p, f)]
           found == CHOOSE f : Loop(f)
<1>1. \A s \in 1..N : \A f : SearchStep(tree[s], p, f) = FoundFrom(tree[s], BegunAt(p), f)
  BY ScriptSearched
<1>2. FindPositionInScript(tree, p) = found[N] BY DEF FindPositionInScript, SearchStep
<1>3. PICK g : Searches(g, tree, BegunAt(p))
  <2>1. Len(contents) \in Nat OBVIOUS
  <2> QED BY <2>1, SearchExists
<1>4. \A f : [s \in 1..N |-> SearchStep(tree[s], p, f)] = [s \in 1..N |-> FoundFrom(tree[s], BegunAt(p), f)]
  BY <1>1
<1>5. Loop(g) BY <1>3, <1>4 DEF Searches
<1> HIDE DEF found
<1>6. Loop(found)
  <2> HIDE DEF Loop
  <2> QED BY <1>5 DEF found
<1>7. Searches(found, tree, BegunAt(p)) BY <1>4, <1>6 DEF Searches
<1>8. IsSearch(found, tree, Len(contents), BegunAt(p))
  <2>1. Len(contents) \in Nat OBVIOUS
  <2> QED BY <1>7, <2>1, SearchTyped
<1> QED BY <1>2, <1>8

LEMMA StylesTyped ==
    ASSUME NEW s \in Styles
    PROVE  /\ s.names \subseteq Spellings /\ s.texts \subseteq Spellings
           /\ s.firsts \subseteq Openings /\ s.opens \subseteq Openings
           /\ s.ends \subseteq Bytes
BY StylesAssumption DEF Spellings

LEMMA SamePositions ==
    ASSUME newlines' = newlines, contents' = contents, NEW p
    PROVE  BegunAt(p)' = BegunAt(p)
BY DEF BegunAt, OffsetToLineByte, LineOf, StartOfLine, Offsets

\* What a step that writes leaves behind.
LEMMA WritingStep ==
    ASSUME WritingInv, style \in Styles, Writing
    PROVE  \/ EndText
           \/ /\ WritingInv'
              /\ UNCHANGED <<newlines, scanAt, style, phase, script, requestVars>>
<1> USE DEF Writing
<1>0. /\ style.names \subseteq Spellings /\ style.texts \subseteq Spellings
      /\ style.firsts \subseteq Openings /\ style.opens \subseteq Openings
      /\ style.ends \subseteq Bytes
      /\ "v" \in Spellings /\ "a" \in Spellings
  BY StylesTyped DEF Spellings
<1>1. CASE \E name \in style.names : WriteName(name)
  <2>1. PICK name \in style.names : WriteName(name) BY <1>1
  <2>2. name \in Spellings BY <1>0
  <2> QED BY <2>1, <2>2, WriteNameKeeps DEF WriteName, Write
<1>2. CASE \E opening \in style.firsts : OpenFirst(opening)
  <2>1. PICK opening \in style.firsts : OpenFirst(opening) BY <1>2
  <2>2. opening \in Openings BY <1>0
  <2> QED BY <2>1, <2>2, OpenFirstKeeps DEF OpenFirst, Write
<1>3. CASE \E text \in style.texts : WriteBare(text)
  <2>1. PICK text \in style.texts : WriteBare(text) BY <1>3
  <2>2. text \in Spellings BY <1>0
  <2> QED BY <2>1, <2>2, WriteBareKeeps DEF WriteBare, Write
<1>4. CASE \E opening \in style.opens : Open(opening)
  <2>1. PICK opening \in style.opens : Open(opening) BY <1>4
  <2>2. opening \in Openings BY <1>0
  <2> QED BY <2>1, <2>2, OpenKeeps DEF Open, Write
<1>5. CASE \E text \in style.texts : WriteText(text)
  <2>1. PICK text \in style.texts : WriteText(text) BY <1>5
  <2>2. text \in Spellings BY <1>0
  <2> QED BY <2>1, <2>2, WriteTextKeeps DEF WriteText, Write
<1>6. CASE WriteVariable("v") BY <1>0, <1>6, WriteVariableKeeps DEF WriteVariable, Write
<1>7. CASE OpenArray BY <1>7, OpenArrayKeeps DEF OpenArray, Write
<1>8. CASE CloseArray("a") BY <1>0, <1>8, CloseArrayKeeps DEF CloseArray, Write
<1>9. CASE OpenBracket BY <1>9, OpenBracketKeeps DEF OpenBracket, Write
<1>10. CASE CloseBracket BY <1>10, CloseBracketKeeps DEF CloseBracket, Write
<1>11. CASE CloseBrace BY <1>11, CloseBraceKeeps DEF CloseBrace, Write
<1>12. CASE CloseWord BY <1>12, CloseWordKeeps DEF CloseWord, Write
<1>13. CASE \E byte \in style.ends : EndCommand(byte)
  <2>1. PICK byte \in style.ends : EndCommand(byte) BY <1>13
  <2>2. byte \in Bytes BY <1>0
  <2> QED BY <2>1, <2>2, EndCommandKeeps DEF EndCommand, Write
<1> QED BY <1>1, <1>2, <1>3, <1>4, <1>5, <1>6, <1>7, <1>8, <1>9, <1>10, <1>11, <1>12, <1>13

-----------------------------------------------------------------------------
(* The whole.                                                              *)

TextInv ==
    /\ phase = "write" => WritingInv /\ newlines = <<>> /\ scanAt = 0
    /\ phase # "write" => texts # <<>> /\ IsTable(texts, Len(contents))
    /\ phase \in {"ready", "asked"} =>
           Scanned /\ script = [s \in 1..Len(texts) |-> ParseScript(texts[s])]

IsAnswer(c, p) ==
    \E f : IsSearch(f, script, Len(contents), BegunAt(p)) /\ c = f[Len(script)]

RequestInv ==
    /\ phase = "asked" => /\ pos.line \in Int /\ pos.column \in Int
                          /\ IsAnswer(cursor, pos)
                          /\ outcome = Outcome(cursor)
    /\ phase # "asked" => cursor = NoCursor /\ outcome = "none"

CursorInv ==
    /\ style \in Styles
    /\ FileInv
    /\ open # <<>> /\ open[1].type = "script"
    /\ phase \in {"write", "scan", "ready", "asked"}
    /\ TextInv
    /\ RequestInv

LEMMA TreeIs ==
    ASSUME CursorInv, phase \in {"ready", "asked"}
    PROVE  /\ contents \in Seq(Bytes) /\ Len(contents) \in Nat
           /\ FileInv /\ Scanned
           /\ IsTree(script, Len(contents)) /\ Len(script) \in Nat /\ Len(script) > 0
<1>1. /\ IsTable(texts, Len(contents)) /\ texts # <<>> /\ Scanned
      /\ script = [s \in 1..Len(texts) |-> ParseScript(texts[s])]
  BY DEF CursorInv, TextInv
<1>2. contents \in Seq(Bytes) /\ Len(contents) \in Nat /\ FileInv BY DEF CursorInv, FileInv, FileTypeOK
<1>3. IsTree(script, Len(contents)) BY <1>1, <1>2, TreeParsed
<1>4. texts \in Seq(Commands) BY <1>1 DEF IsTable
<1>5. Len(texts) \in Nat /\ Len(texts) > 0 /\ Len(script) = Len(texts) BY <1>1, <1>4
<1> QED BY <1>1, <1>2, <1>3, <1>5

LEMMA WritingGives ==
    ASSUME WritingInv
    PROVE  open # <<>> /\ open[1].type = "script" /\ contents \in Seq(Bytes)
BY DEF WritingInv, IsStack

LEMMA CursorInitInv == CursorInit => CursorInv
<1> SUFFICES ASSUME CursorInit PROVE CursorInv
  OBVIOUS
<1>1. FileInv BY FileInitInv DEF CursorInit
<1>2. contents \in Seq(Bytes) /\ Here \in Nat BY ContentsAssumption DEF CursorInit, FileInit, Here
<1>3. texts = <<>> /\ open = <<Frame("script", 0)>> /\ phase = "write" BY DEF CursorInit
<1>4. IsTable(texts, Here) BY <1>3 DEF IsTable
<1>5. Frame("script", 0) \in Frames /\ IsTop(Frame("script", 0), Here, texts)
  <2>1. "script" \in ScriptFrames /\ 0 + Mark("script") <= Here BY <1>2 DEF ScriptFrames, Mark
  <2>2. texts \in Seq(Commands) /\ 0 \in Nat BY <1>3
  <2> QED BY <1>2, <2>1, <2>2, NewFrame
<1>6. Frame("script", 0).type = "script" BY DEF Frame
<1>7. IsStack(open, Here, texts)
  <2> DEFINE f == Frame("script", 0)
  <2>1. f \in Frames /\ IsTop(f, Here, texts) /\ f.type = "script" /\ open = <<f>>
    BY <1>3, <1>5, <1>6
  <2> HIDE DEF f
  <2>2. Len(open) = 1 /\ open[1] = f /\ open \in Seq(Frames) BY <2>1
  <2> QED BY <2>1, <2>2 DEF IsStack
<1>8. WritingInv BY <1>2, <1>4, <1>7 DEF WritingInv
<1>9. TextInv BY <1>3, <1>8 DEF TextInv, CursorInit, FileInit
<1>10. RequestInv BY <1>3 DEF RequestInv, CursorInit
<1> QED BY <1>1, <1>3, <1>8, <1>9, <1>10, WritingGives DEF CursorInv, CursorInit

LEMMA CursorNextInv == CursorInv /\ [CursorNext]_cursorVars => CursorInv'
<1> SUFFICES ASSUME CursorInv, [CursorNext]_cursorVars PROVE CursorInv'
  OBVIOUS
<1>0. style \in Styles /\ FileInv BY DEF CursorInv
<1>1. CASE Writing
  <2>1. phase = "write" BY <1>1 DEF Writing, Write, WriteName, OpenFirst, WriteBare, Open, WriteText,
          WriteVariable, OpenArray, CloseArray, OpenBracket, CloseBracket, CloseBrace, CloseWord,
          EndCommand, EndText
  <2>2. WritingInv /\ newlines = <<>> /\ scanAt = 0 /\ cursor = NoCursor /\ outcome = "none"
    BY <2>1 DEF CursorInv, TextInv, RequestInv
  <2>3. CASE EndText
    <3>1. IsTable(texts', Len(contents')) /\ Len(texts') > 0 BY <2>2, <2>3, EndTextIs
    <3>2. texts' # <<>> BY <3>1
    <3>3. /\ phase' = "scan" /\ style' = style /\ open' = open /\ cursor' = cursor
          /\ outcome' = outcome /\ contents' = contents /\ newlines' = newlines /\ scanAt' = scanAt
      BY <2>3 DEF EndText, fileVars, requestVars
    <3>4. FileInv'
      BY <1>0, <3>3 DEF FileInv, FileTypeOK, Sorted, Listed, FirstExists, IsFirst, Byte, Scanned, Offsets
    <3> QED BY <1>0, <2>2, <3>1, <3>2, <3>3, <3>4, WritingGives DEF CursorInv, TextInv, RequestInv
  <2>4. CASE /\ WritingInv'
             /\ UNCHANGED <<newlines, scanAt, style, phase, script, requestVars>>
    <3>1. /\ phase' = "write" /\ style' = style /\ newlines' = <<>> /\ scanAt' = 0
          /\ cursor' = NoCursor /\ outcome' = "none"
      BY <2>1, <2>2, <2>4 DEF requestVars
    <3>2. contents' \in Seq(Bytes) /\ open' # <<>> /\ open'[1].type = "script"
      BY <2>4 DEF WritingInv, IsStack
    <3>3. FileInv'
      BY <3>1, <3>2 DEF FileInv, FileTypeOK, Sorted, Listed, FirstExists, Scanned, Offsets
    <3> QED BY <1>0, <2>4, <3>1, <3>2, <3>3 DEF CursorInv, TextInv, RequestInv
  <2> QED BY <1>0, <1>1, <2>2, <2>3, <2>4, WritingStep
<1>2. CASE Scan
  <2>1. phase = "scan" /\ UNCHANGED <<textVars, phase, script, requestVars>> BY <1>2 DEF Scan
  <2>2. [FileNext]_fileVars /\ contents' = contents BY <1>2 DEF Scan, FileNext, ScanByte, EndScan
  <2>3. FileInv' BY <1>0, <2>2, FileNextInv
  <2> QED BY <2>1, <2>2, <2>3 DEF CursorInv, TextInv, RequestInv, textVars, requestVars
<1>s. ASSUME UNCHANGED fileVars PROVE FileInv' /\ (Scanned => Scanned') /\ contents' = contents
  BY <1>0, <1>s DEF fileVars, FileInv, FileTypeOK, Sorted, Listed, FirstExists, IsFirst, Byte, Scanned, Offsets
<1>3. CASE Parse
  <2>1. /\ phase = "scan" /\ Scanned /\ phase' = "ready"
        /\ script' = [s \in 1..Len(texts) |-> ParseScript(texts[s])]
        /\ UNCHANGED <<fileVars, textVars, requestVars>>
    BY <1>3 DEF Parse
  <2> QED BY <1>s, <2>1 DEF CursorInv, TextInv, RequestInv, textVars, requestVars
<1>4. CASE phase = "ready" /\ \E p \in Positions : Ask(p)
  <2>1. PICK p \in Positions : Ask(p) BY <1>4
  <2>2. /\ phase' = "asked" /\ pos' = p /\ cursor' = FindPositionInScript(script, p)
        /\ outcome' = Outcome(cursor') /\ UNCHANGED <<fileVars, textVars, script>>
    BY <2>1 DEF Ask
  <2>3. IsAnswer(cursor', p)
    <3>1. contents \in Seq(Bytes) /\ IsTree(script, Len(contents)) BY <1>4, TreeIs
    <3>2. \E f : /\ IsSearch(f, script, Len(contents), BegunAt(p))
                 /\ FindPositionInScript(script, p) = f[Len(script)]
      BY <3>1, SearchIs
    <3> QED BY <2>2, <3>2 DEF IsAnswer
  <2>6. script' = script /\ contents' = contents /\ newlines' = newlines BY <2>2 DEF fileVars
  <2>7. IsAnswer(cursor, pos)'
    <3>1. BegunAt(p)' = BegunAt(p) BY <2>6, SamePositions
    <3> QED BY <2>2, <2>3, <2>6, <3>1 DEF IsAnswer
  <2>8. p.line \in Int /\ p.column \in Int BY DEF Positions, Columns
  <2>4. RequestInv' BY <2>2, <2>7, <2>8 DEF RequestInv
  <2>5. TextInv' BY <1>4, <1>s, <2>2 DEF CursorInv, TextInv, textVars
  <2> QED BY <1>s, <2>2, <2>4, <2>5 DEF CursorInv, textVars
<1>5. CASE Reply
  <2>1. /\ phase = "asked" /\ phase' = "ready" /\ cursor' = NoCursor /\ outcome' = "none"
        /\ UNCHANGED <<fileVars, textVars, script>>
    BY <1>5 DEF Reply
  <2> QED BY <1>s, <2>1 DEF CursorInv, TextInv, RequestInv, textVars
<1>6. CASE UNCHANGED cursorVars
  <2>1. /\ UNCHANGED fileVars /\ style' = style /\ open' = open /\ texts' = texts /\ phase' = phase
        /\ script' = script /\ pos' = pos /\ cursor' = cursor /\ outcome' = outcome
    BY <1>6 DEF cursorVars, textVars, requestVars
  <2>2. contents' = contents /\ newlines' = newlines /\ scanAt' = scanAt BY <2>1 DEF fileVars
  <2>3. RequestInv'
    <3>1. IsAnswer(cursor, pos) => IsAnswer(cursor, pos)'
      <4>1. BegunAt(pos)' = BegunAt(pos) BY <2>1, <2>2, SamePositions
      <4> QED BY <2>1, <2>2, <4>1 DEF IsAnswer
    <3> QED BY <2>1, <3>1 DEF CursorInv, RequestInv
  <2>4. WritingInv => WritingInv' BY <2>1, <2>2 DEF WritingInv, Here
  <2>5. TextInv' BY <1>s, <2>1, <2>2, <2>4 DEF CursorInv, TextInv
  <2> QED BY <1>s, <2>1, <2>3, <2>5 DEF CursorInv
<1> QED BY <1>1, <1>2, <1>3, <1>4, <1>5, <1>6 DEF CursorNext

LEMMA CursorInvariant == CursorSpec => []CursorInv
<1>1. CursorInit => CursorInv BY CursorInitInv
<1>2. CursorInv /\ [CursorNext]_cursorVars => CursorInv' BY CursorNextInv
<1> QED BY <1>1, <1>2, PTL DEF CursorSpec

-----------------------------------------------------------------------------
(* What a recursion reaches.                                               *)

Below(nested, N) == DOMAIN nested = 1..N /\ \A s \in 1..N : nested[s] \subseteq 1..(s - 1)

Reaches(reach, nested, N) ==
    reach = [s \in 1..N |-> {s} \cup UNION {reach[t] : t \in nested[s]}]

LEMMA ReachIs ==
    ASSUME NEW N \in Nat, NEW nested, Below(nested, N)
    PROVE  Reaches(Reach(nested), nested, N)
<1> DEFINE D == SUBSET (1..N)
           From(s, f) == {s} \cup UNION {f[t] : t \in nested[s]}
           G == [s \in 1..N |-> [f \in [1..N -> D] |-> From(s, f)]]
           Loop(f) == f = [s \in 1..N |-> From(s, f)]
           reach == CHOOSE f : Loop(f)
<1>1. DOMAIN nested = 1..N /\ \A s \in 1..N : nested[s] \subseteq 1..(s - 1) BY DEF Below
<1>2. \A s \in 1..N : nested[s] \subseteq 1..N BY <1>1
<1>3. \A s \in 1..N : \A f \in [1..N -> D] : G[s][f] = From(s, f) OBVIOUS
<1>4. \A s \in 1..N : \A f \in [1..N -> D] : From(s, f) \in D BY <1>2
<1>5. \A s \in 1..N : \A f, g \in [1..N -> D] :
          (\A m \in 1..(s - 1) : f[m] = g[m]) => From(s, f) = From(s, g)
  BY <1>1
<1> HIDE DEF G, From, D
<1>6. GivesIn(G, N, D) BY <1>3, <1>4 DEF GivesIn
<1>7. LooksBelow(G, N, D)
  <2>1. ASSUME NEW s \in 1..N, NEW f \in [1..N -> D], NEW g \in [1..N -> D],
               \A m \in 1..(s - 1) : f[m] = g[m]
        PROVE  G[s][f] = G[s][g]
    <3>1. From(s, f) = From(s, g) BY <1>5, <2>1
    <3>2. G[s][f] = From(s, f) /\ G[s][g] = From(s, g) BY <1>3
    <3> QED BY <3>1, <3>2
  <2> QED BY <2>1 DEF LooksBelow
<1>8. D # {} BY DEF D
<1>9. PICK f : Recursion(f, G, N, D) BY <1>6, <1>7, <1>8, RecursionExists
<1>10. f \in [1..N -> D] /\ \A s \in 1..N : f[s] = From(s, f) BY <1>3, <1>9 DEF Recursion
<1>11. Loop(f) BY <1>10
<1> HIDE DEF reach
<1>12. Loop(reach)
  <2> HIDE DEF Loop
  <2> QED BY <1>11 DEF reach
<1>13. Reach(nested) = reach BY <1>1 DEF Reach, reach, Loop, From
<1>14. reach = [s \in 1..N |-> {s} \cup UNION {reach[t] : t \in nested[s]}] BY <1>12 DEF From
<1>15. Reaches(reach, nested, N) BY <1>14 DEF Reaches
<1> QED BY <1>13, <1>15

LEMMA ReachStep ==
    ASSUME NEW N \in Nat, NEW nested, Below(nested, N), NEW r, Reaches(r, nested, N), NEW s \in 1..N
    PROVE  /\ s \in r[s]
           /\ \A t \in nested[s] : t \in 1..N /\ t \in 1..(s - 1) /\ r[t] \subseteq r[s]
           /\ \A u \in r[s] : u = s \/ \E t \in nested[s] : u \in r[t]
<1>1. r[s] = {s} \cup UNION {r[t] : t \in nested[s]} BY DEF Reaches
<1>2. nested[s] \subseteq 1..(s - 1) BY DEF Below
<1>3. \A t \in nested[s] : t \in 1..N BY <1>2
<1> QED BY <1>1, <1>2, <1>3

\* A set that is closed under going into scripts holds all that is reached from
\* any member.
LEMMA ReachLeast ==
    ASSUME NEW N \in Nat, NEW nested, Below(nested, N), NEW r, Reaches(r, nested, N), NEW R,
           \A u \in 1..N : u \in R => nested[u] \subseteq R
    PROVE  \A s \in 1..N : s \in R => r[s] \subseteq R
<1> DEFINE S == {s \in 1..N : s \in R => r[s] \subseteq R}
<1>1. ASSUME NEW s \in 1..N, \A m \in 1..(s - 1) : m \in S PROVE s \in S
  <2> SUFFICES ASSUME s \in R, NEW u \in r[s] PROVE u \in R
    OBVIOUS
  <2>1. CASE u = s BY <2>1
  <2>2. CASE \E t \in nested[s] : u \in r[t]
    <3>1. PICK t \in nested[s] : u \in r[t] BY <2>2
    <3>2. t \in 1..(s - 1) /\ t \in R BY ReachStep
    <3> QED BY <1>1, <3>1, <3>2
  <2> QED BY <2>1, <2>2, ReachStep
<1> HIDE DEF S
<1>2. \A s \in 1..N : s \in S BY <1>1, FromBelow
<1> QED BY <1>2 DEF S

LEMMA ReachClosed ==
    ASSUME NEW N \in Nat, NEW nested, Below(nested, N), NEW r, Reaches(r, nested, N)
    PROVE  \A s \in 1..N : /\ r[s] \subseteq 1..N
                           /\ \A u \in r[s] : r[u] \subseteq r[s] /\ nested[u] \subseteq r[s]
<1> DEFINE S == {s \in 1..N : r[s] \subseteq 1..N /\ \A u \in r[s] : r[u] \subseteq r[s]}
<1>1. ASSUME NEW s \in 1..N, \A m \in 1..(s - 1) : m \in S PROVE s \in S
  <2> SUFFICES ASSUME NEW u \in r[s] PROVE u \in 1..N /\ r[u] \subseteq r[s]
    OBVIOUS
  <2>1. CASE u = s BY <2>1
  <2>2. CASE \E t \in nested[s] : u \in r[t]
    <3>1. PICK t \in nested[s] : u \in r[t] BY <2>2
    <3>2. t \in 1..(s - 1) /\ r[t] \subseteq r[s] BY ReachStep
    <3>3. t \in S BY <1>1, <3>2
    <3> QED BY <3>1, <3>2, <3>3
  <2> QED BY <2>1, <2>2, ReachStep
<1> HIDE DEF S
<1>2. \A s \in 1..N : s \in S BY <1>1, FromBelow
<1>3. ASSUME NEW s \in 1..N, NEW u \in r[s] PROVE u \in 1..N /\ r[u] \subseteq r[s] /\ nested[u] \subseteq r[s]
  <2>1. u \in 1..N /\ r[u] \subseteq r[s] BY <1>2 DEF S
  <2>2. ASSUME NEW t \in nested[u] PROVE t \in r[s]
    <3>1. t \in 1..N /\ r[t] \subseteq r[u] BY <2>1, ReachStep
    <3>2. t \in r[t] BY <3>1, ReachStep
    <3> QED BY <2>1, <3>1, <3>2
  <2> QED BY <2>1, <2>2
<1> QED BY <1>3

-----------------------------------------------------------------------------
(* The words in scripts, and in the scripts inside of them.                *)

\* Word j is in argument x of script s.
CallAt(s, x) == script[s][x[1]]
WordAt(s, x, j) == CallAt(s, x).words[j]
IsPart(s, x, j) == x \in Places(script[s]) /\ j \in Within(CallAt(s, x), x[2], Lists)
CursorAt(s, x, j) ==
    [call |-> Id(CallAt(s, x)), argument |-> Place(CallAt(s, x).args, x[2]), word |-> WordAt(s, x, j)]

IsPlain(s, x, j) == PlainPart(CallAt(s, x), x[2], j)
Fits(s, x, j, plain) == plain => IsPlain(s, x, j)

NestedOf(plain) ==
    [s \in DOMAIN script |-> {c.word.script : c \in ScriptsAmong(WordsOf(s, plain))}]

\* Scripts lie inside of those they are in.
Lies(w, s, x, j) == WordAt(s, x, j).at <= w.at /\ End(w) <= End(WordAt(s, x, j))

LEMMA PartTyped ==
    ASSUME NEW end \in Nat, IsTree(script, end), NEW s \in 1..Len(script), NEW x, NEW j, IsPart(s, x, j)
    PROVE  /\ x[1] \in 1..Len(script[s]) /\ x[2] \in CallAt(s, x).args
           /\ x[2] \in 1..Len(CallAt(s, x).words)
           /\ CallAt(s, x) \in Calls /\ GoodCall(CallAt(s, x), script, s - 1)
           /\ CallAt(s, x).words \in Seq(TypedWords)
           /\ Laminar(CallAt(s, x).words)
           /\ j \in 1..Len(CallAt(s, x).words)
           /\ j \in x[2]..CallAt(s, x).words[x[2]].last
           /\ WordAt(s, x, j) \in TypedWords
           /\ WordAt(s, x, j).at \in Nat /\ End(WordAt(s, x, j)) \in Nat
           /\ WordAt(s, x, j).at <= End(WordAt(s, x, j)) /\ End(WordAt(s, x, j)) <= end
           /\ WordAt(s, x, j).type = "SCRIPT" =>
                  /\ WordAt(s, x, j).script \in 1..(s - 1)
                  /\ WordsLie(script[WordAt(s, x, j).script], WordAt(s, x, j).at, End(WordAt(s, x, j)))
<1> DEFINE call == script[s][x[1]]
           k == x[2]
           w == call.words[j]
<1>1. x \in Places(script[s]) /\ j \in Within(call, k, Lists) BY DEF IsPart, CallAt
<1>2. x[1] \in 1..Len(script[s]) /\ k \in call.args BY <1>1, PlaceIs
<1>3. /\ call \in Calls /\ call.words \in Seq(TypedWords) /\ GoodCall(call, script, s - 1)
      /\ \A l \in 1..Len(call.words) : 0 <= call.words[l].at /\ End(call.words[l]) <= end
  BY <1>2, TreeArgs
<1> HIDE DEF call
<1>4. /\ call.args \subseteq 1..Len(call.words) /\ Laminar(call.words)
      /\ ScriptsLie(call.words, script, s - 1)
  BY <1>3 DEF GoodCall
<1>5. k \in 1..Len(call.words) BY <1>2, <1>4
<1>6. j \in 1..Len(call.words) /\ j \in k..call.words[k].last BY <1>1, <1>3, <1>4, <1>5, WithinIs
<1>7. w \in TypedWords BY <1>3, <1>6
<1>8. w.at \in Nat /\ End(w) \in Nat /\ w.at <= End(w) BY <1>7, WordTyped
<1>9. w.type = "SCRIPT" => w.script \in 1..(s - 1) /\ WordsLie(script[w.script], w.at, End(w))
  BY <1>4, <1>6 DEF ScriptsLie
<1>10. End(w) <= end BY <1>3, <1>6
<1> QED BY <1>2, <1>3, <1>4, <1>5, <1>6, <1>7, <1>8, <1>9, <1>10 DEF CallAt, WordAt, call

LEMMA WordsOfIs ==
    ASSUME NEW s, NEW plain
    PROVE  \A c : c \in WordsOf(s, plain) <=>
               \E x \in Places(script[s]) : \E j \in PartsOf(CallAt(s, x), x[2], plain) :
                   c = CursorAt(s, x, j)
BY DEF WordsOf, CursorAt, CallAt, WordAt

LEMMA PartOfIs ==
    ASSUME NEW s, NEW x, NEW j, NEW plain
    PROVE  x \in Places(script[s]) /\ j \in PartsOf(CallAt(s, x), x[2], plain)
              <=> IsPart(s, x, j) /\ Fits(s, x, j, plain)
BY DEF PartsOf, IsPart, IsPlain, Fits

\* A word of a script, and where it is.
LEMMA WordOf ==
    ASSUME NEW s, NEW plain, NEW c \in WordsOf(s, plain)
    PROVE  \E x, j : IsPart(s, x, j) /\ Fits(s, x, j, plain) /\ c = CursorAt(s, x, j)
<1>1. PICK x \in Places(script[s]) : \E j \in PartsOf(CallAt(s, x), x[2], plain) : c = CursorAt(s, x, j)
  BY WordsOfIs
<1>2. PICK j \in PartsOf(CallAt(s, x), x[2], plain) : c = CursorAt(s, x, j) BY <1>1
<1>3. IsPart(s, x, j) /\ Fits(s, x, j, plain) BY PartOfIs
<1> QED BY <1>2, <1>3

LEMMA IsWordOf ==
    ASSUME NEW s, NEW plain, NEW x, NEW j, IsPart(s, x, j), Fits(s, x, j, plain)
    PROVE  CursorAt(s, x, j) \in WordsOf(s, plain)
<1>1. x \in Places(script[s]) /\ j \in PartsOf(CallAt(s, x), x[2], plain) BY PartOfIs
<1> QED BY <1>1, WordsOfIs

LEMMA NestedIn ==
    ASSUME NEW plain, NEW s \in DOMAIN script, NEW v \in NestedOf(plain)[s]
    PROVE  \E x, j : /\ IsPart(s, x, j) /\ Fits(s, x, j, plain)
                     /\ WordAt(s, x, j).type = "SCRIPT" /\ WordAt(s, x, j).script = v
<1>1. PICK c \in ScriptsAmong(WordsOf(s, plain)) : v = c.word.script BY DEF NestedOf
<1>2. c \in WordsOf(s, plain) /\ c.word.type = "SCRIPT" BY DEF ScriptsAmong
<1>3. PICK x, j : IsPart(s, x, j) /\ Fits(s, x, j, plain) /\ c = CursorAt(s, x, j)
  BY <1>2, WordOf
<1>4. c.word = WordAt(s, x, j) BY <1>3 DEF CursorAt
<1> QED BY <1>1, <1>2, <1>3, <1>4

LEMMA IsNestedIn ==
    ASSUME NEW plain, NEW s \in DOMAIN script, NEW x, NEW j, IsPart(s, x, j), Fits(s, x, j, plain),
           WordAt(s, x, j).type = "SCRIPT"
    PROVE  WordAt(s, x, j).script \in NestedOf(plain)[s]
<1> DEFINE c == CursorAt(s, x, j)
<1>1. c \in WordsOf(s, plain) BY IsWordOf
<1>2. c.word = WordAt(s, x, j) BY DEF CursorAt
<1>3. c \in ScriptsAmong(WordsOf(s, plain)) BY <1>1, <1>2 DEF ScriptsAmong
<1> QED BY <1>2, <1>3 DEF NestedOf

LEMMA NestedBelow ==
    ASSUME NEW end \in Nat, IsTree(script, end), NEW plain
    PROVE  /\ Below(NestedOf(plain), Len(script))
           /\ Reaches(ReachOf(plain), NestedOf(plain), Len(script))
<1>1. Len(script) \in Nat /\ DOMAIN script = 1..Len(script) BY DEF IsTree
<1>2. ASSUME NEW s \in 1..Len(script), NEW v \in NestedOf(plain)[s] PROVE v \in 1..(s - 1)
  <2>1. PICK x, j : IsPart(s, x, j) /\ WordAt(s, x, j).type = "SCRIPT" /\ WordAt(s, x, j).script = v
    BY <1>1, NestedIn
  <2> QED BY <2>1, PartTyped
<1>3. Below(NestedOf(plain), Len(script))
  <2>1. DOMAIN NestedOf(plain) = 1..Len(script) BY <1>1 DEF NestedOf
  <2> QED BY <1>2, <2>1 DEF Below
<1>4. ReachOf(plain) = Reach(NestedOf(plain)) BY DEF ReachOf, NestedOf
<1> QED BY <1>1, <1>3, <1>4, ReachIs

\* What is reached from a script lies where it does.
LEMMA ReachedLie ==
    ASSUME NEW end \in Nat, IsTree(script, end), NEW plain
    PROVE  \A t \in 1..Len(script) : \A from, to \in Int :
               WordsLie(script[t], from, to) => \A s \in ReachOf(plain)[t] : WordsLie(script[s], from, to)
<1> DEFINE N == Len(script)
           r == ReachOf(plain)
           S == {t \in 1..N : \A from, to \in Int : WordsLie(script[t], from, to) =>
                                  \A s \in r[t] : WordsLie(script[s], from, to)}
<1>1. N \in Nat /\ DOMAIN script = 1..N BY DEF IsTree
<1>2. Below(NestedOf(plain), N) /\ Reaches(r, NestedOf(plain), N) BY NestedBelow
<1> HIDE DEF N, r
<1>3. ASSUME NEW t \in 1..N, \A m \in 1..(t - 1) : m \in S PROVE t \in S
  <2> SUFFICES ASSUME NEW from \in Int, NEW to \in Int, WordsLie(script[t], from, to), NEW s \in r[t]
               PROVE  WordsLie(script[s], from, to)
    OBVIOUS
  <2>1. CASE s = t BY <2>1
  <2>2. CASE \E v \in NestedOf(plain)[t] : s \in r[v]
    <3>1. PICK v \in NestedOf(plain)[t] : s \in r[v] BY <2>2
    <3>2. PICK x, j : IsPart(t, x, j) /\ WordAt(t, x, j).type = "SCRIPT" /\ WordAt(t, x, j).script = v
      BY <1>1, NestedIn
    <3> DEFINE w == WordAt(t, x, j)
    <3>3. /\ x[1] \in 1..Len(script[t]) /\ j \in 1..Len(CallAt(t, x).words)
          /\ w.at \in Int /\ End(w) \in Int /\ v \in 1..(t - 1) /\ WordsLie(script[v], w.at, End(w))
          /\ script[v] \in Seq(Calls)
      <4>1. t \in 1..Len(script) BY DEF N
      <4>2. /\ x[1] \in 1..Len(script[t]) /\ j \in 1..Len(CallAt(t, x).words)
            /\ w.at \in Nat /\ End(w) \in Nat /\ v \in 1..(t - 1) /\ WordsLie(script[v], w.at, End(w))
        BY <3>2, <4>1, PartTyped
      <4>3. v \in 1..Len(script) BY <1>1, <4>1, <4>2 DEF N
      <4>4. script[v] \in Seq(Calls) BY <4>3, TreeArgs
      <4> QED BY <4>2, <4>4
    <3>4. from <= w.at /\ End(w) <= to BY <3>3 DEF WordsLie, WordAt, CallAt
    <3> HIDE DEF w
    <3>5. WordsLie(script[v], from, to)
      <4>1. ASSUME NEW i \in 1..Len(script[v]), NEW k \in 1..Len(script[v][i].words)
            PROVE  from <= script[v][i].words[k].at /\ End(script[v][i].words[k]) <= to
        <5> DEFINE z == script[v][i].words[k]
        <5>1. w.at <= z.at /\ End(z) <= End(w) BY <3>3 DEF WordsLie
        <5>2. z \in TypedWords
          <6>1. script[v][i] \in Calls BY <3>3
          <6>2. script[v][i].words \in Seq(TypedWords) BY <6>1 DEF Calls
          <6> QED BY <6>2
        <5> HIDE DEF z
        <5>3. z.at \in Nat /\ End(z) \in Nat BY <5>2, WordTyped
        <5>4. from <= z.at /\ End(z) <= to BY <3>3, <3>4, <5>1, <5>3
        <5> QED BY <5>4 DEF z
      <4> QED BY <4>1 DEF WordsLie
    <3>6. v \in S BY <1>3, <3>3
    <3> QED BY <3>1, <3>5, <3>6
  <2> QED BY <1>1, <1>2, <2>1, <2>2, ReachStep
<1> HIDE DEF S
<1>4. \A t \in 1..N : t \in S BY <1>1, <1>3, FromBelow
<1> QED BY <1>4 DEF S, N, r

\* Where a word that is reached from a script is in it: a word of its own, or
\* inside a script in one.
LEMMA Anchored ==
    ASSUME NEW end \in Nat, IsTree(script, end), NEW plain, NEW t \in 1..Len(script),
           NEW s \in ReachOf(plain)[t], NEW c \in WordsOf(s, plain)
    PROVE  \E x, j : /\ IsPart(t, x, j) /\ Fits(t, x, j, plain)
                     /\ Lies(c.word, t, x, j)
                     /\ \/ s = t /\ c = CursorAt(t, x, j)
                        \/ /\ WordAt(t, x, j).type = "SCRIPT"
                           /\ s \in ReachOf(plain)[WordAt(t, x, j).script]
<1> DEFINE r == ReachOf(plain)
<1>1. Len(script) \in Nat /\ DOMAIN script = 1..Len(script) BY DEF IsTree
<1>2. Below(NestedOf(plain), Len(script)) /\ Reaches(r, NestedOf(plain), Len(script)) BY NestedBelow
<1> HIDE DEF r
<1>3. s \in r[t] BY DEF r
<1>4. s = t \/ \E v \in NestedOf(plain)[t] : s \in r[v] BY <1>1, <1>2, <1>3, ReachStep
<1>5. CASE s = t
  <2>1. PICK x, j : IsPart(s, x, j) /\ Fits(s, x, j, plain) /\ c = CursorAt(s, x, j) BY WordOf
  <2>2. c.word = WordAt(t, x, j) BY <1>5, <2>1 DEF CursorAt
  <2>3. WordAt(t, x, j).at \in Nat /\ End(WordAt(t, x, j)) \in Nat BY <1>5, <2>1, PartTyped
  <2>4. Lies(c.word, t, x, j) BY <2>2, <2>3 DEF Lies
  <2> QED BY <1>5, <2>1, <2>4
<1>6. CASE \E v \in NestedOf(plain)[t] : s \in r[v]
  <2>1. PICK v \in NestedOf(plain)[t] : s \in r[v] BY <1>6
  <2>2. PICK x, j : /\ IsPart(t, x, j) /\ Fits(t, x, j, plain)
                    /\ WordAt(t, x, j).type = "SCRIPT" /\ WordAt(t, x, j).script = v
    BY <1>1, NestedIn
  <2> DEFINE w == WordAt(t, x, j)
  <2>3. w.at \in Int /\ End(w) \in Int /\ v \in 1..(t - 1) /\ WordsLie(script[v], w.at, End(w))
    <3>1. w.at \in Nat /\ End(w) \in Nat /\ v \in 1..(t - 1) /\ WordsLie(script[v], w.at, End(w))
      BY <2>2, PartTyped
    <3> QED BY <3>1
  <2>4. v \in 1..Len(script) BY <1>1, <2>3
  <2> HIDE DEF w
  <2>5. WordsLie(script[s], w.at, End(w)) BY <2>1, <2>3, <2>4, ReachedLie DEF r
  <2>6. s \in 1..Len(script) BY <1>1, <1>2, <1>3, ReachClosed
  <2>7. PICK y, l : IsPart(s, y, l) /\ c = CursorAt(s, y, l) BY WordOf
  <2>8. y[1] \in 1..Len(script[s]) /\ l \in 1..Len(CallAt(s, y).words) BY <2>6, <2>7, PartTyped
  <2>9. c.word = script[s][y[1]].words[l] BY <2>7 DEF CursorAt, WordAt, CallAt
  <2>10. Lies(c.word, t, x, j) BY <2>5, <2>8, <2>9 DEF WordsLie, Lies, CallAt, w
  <2> QED BY <2>1, <2>2, <2>10 DEF r
<1> QED BY <1>4, <1>5, <1>6

-----------------------------------------------------------------------------
(* The order of words.                                                     *)

LEMMA PlacesOrdered ==
    ASSUME NEW end \in Nat, IsTree(script, end), NEW s \in 1..Len(script),
           NEW x \in Places(script[s]), NEW y \in Places(script[s])
    PROVE  /\ x = y \/ Precedes(x, y) \/ Precedes(y, x)
           /\ ~Precedes(x, x)
           /\ Precedes(x, y) => ~Precedes(y, x)
<1> DEFINE calls == script[s]
<1>1. GoodArgs(calls) BY TreeArgs
<1>2. /\ x = <<x[1], x[2]>> /\ x[1] \in 1..Len(calls) /\ x[2] \in calls[x[1]].args
      /\ y = <<y[1], y[2]>> /\ y[1] \in 1..Len(calls) /\ y[2] \in calls[y[1]].args
  BY PlaceIs
<1> HIDE DEF calls
<1>3. x[1] \in Nat /\ x[2] \in Nat /\ y[1] \in Nat /\ y[2] \in Nat BY <1>1, <1>2 DEF GoodArgs
<1>4. x = y \/ Precedes(x, y) \/ Precedes(y, x) BY <1>2, <1>3 DEF Precedes
<1>5. ~Precedes(x, x) /\ (Precedes(x, y) => ~Precedes(y, x)) BY <1>3 DEF Precedes
<1> QED BY <1>4, <1>5

LEMMA InOrder ==
    ASSUME NEW end \in Nat, IsTree(script, end), NEW s \in 1..Len(script),
           NEW x, NEW j, IsPart(s, x, j), NEW y, NEW l, IsPart(s, y, l), Precedes(x, y)
    PROVE  End(WordAt(s, x, j)) < WordAt(s, y, l).at
<1> DEFINE calls == script[s]
<1>1. /\ x[1] \in 1..Len(calls) /\ x[2] \in CallAt(s, x).args
      /\ j \in 1..Len(CallAt(s, x).words) /\ j \in x[2]..CallAt(s, x).words[x[2]].last
      /\ GoodCall(CallAt(s, x), script, s - 1)
  BY PartTyped
<1>2. /\ y[1] \in 1..Len(calls) /\ y[2] \in CallAt(s, y).args /\ y[2] \in Nat
      /\ l \in 1..Len(CallAt(s, y).words) /\ l \in y[2]..CallAt(s, y).words[y[2]].last
  <2>1. y[2] \in 1..Len(CallAt(s, y).words) BY PartTyped
  <2>2. y[2] \in Nat BY <2>1
  <2> QED BY <2>2, PartTyped
<1>3. CASE x[1] < y[1]
  <2>1. CallsApart(script[s]) BY DEF IsTree, GoodScript
  <2> QED BY <1>1, <1>2, <1>3, <2>1 DEF CallsApart, WordAt, CallAt
<1>4. CASE x[1] = y[1] /\ x[2] < y[2]
  <2> DEFINE call == CallAt(s, x)
  <2>1. call = CallAt(s, y) BY <1>4 DEF CallAt
  <2> HIDE DEF call
  <2>2. Apart(call) BY <1>1 DEF GoodCall, call
  <2>3. call.words[x[2]].last < y[2]
    BY <1>1, <1>2, <1>4, <2>1, <2>2 DEF Apart, call
  <2>4. x[2] \in 1..Len(call.words) /\ call.words \in Seq(TypedWords) BY PartTyped DEF call
  <2>5. call.words[x[2]].last \in Nat
    <3>1. call.words[x[2]] \in TypedWords BY <2>4
    <3> QED BY <3>1, WordTyped
  <2>6. l > call.words[x[2]].last /\ l \in 1..Len(call.words)
    <3> DEFINE last == call.words[x[2]].last
               k == y[2]
               top == call.words[k].last
    <3>1. k \in Nat /\ last < k /\ l \in k..top /\ l \in 1..Len(call.words) BY <1>2, <2>1, <2>3
    <3> HIDE DEF last, k, top
    <3>2. l > last BY <2>5, <3>1 DEF last
    <3> QED BY <3>1, <3>2 DEF last
  <2>7. End(call.words[j]) < call.words[l].at BY <1>1, <2>2, <2>6 DEF Apart, call
  <2> QED BY <2>1, <2>7 DEF WordAt, call
<1> QED BY <1>3, <1>4 DEF Precedes

\* The last word a recursion into an argument comes to.
LastIn(s, x) == Max(Within(CallAt(s, x), x[2], Lists))

LEMMA PlaceTypedIn ==
    ASSUME NEW end \in Nat, IsTree(script, end), NEW s \in 1..Len(script), NEW x \in Places(script[s])
    PROVE  /\ CallAt(s, x) \in Calls /\ GoodCall(CallAt(s, x), script, s - 1)
           /\ CallAt(s, x).words \in Seq(TypedWords) /\ Laminar(CallAt(s, x).words)
           /\ x[1] \in 1..Len(script[s]) /\ x[2] \in CallAt(s, x).args
           /\ x[2] \in 1..Len(CallAt(s, x).words)
           /\ WordsAscend(CallAt(s, x).words)
<1> DEFINE call == script[s][x[1]]
           k == x[2]
<1>2. x[1] \in 1..Len(script[s]) /\ k \in call.args BY PlaceIs
<1>3. call \in Calls /\ call.words \in Seq(TypedWords) /\ GoodCall(call, script, s - 1)
  BY <1>2, TreeArgs
<1> HIDE DEF call
<1>4. call.args \subseteq 1..Len(call.words) /\ Laminar(call.words) /\ WordsAscend(call.words)
  BY <1>3 DEF GoodCall
<1> QED BY <1>2, <1>3, <1>4 DEF CallAt, call

LEMMA LastInIs ==
    ASSUME NEW end \in Nat, IsTree(script, end), NEW s \in 1..Len(script), NEW x \in Places(script[s])
    PROVE  /\ IsPart(s, x, LastIn(s, x))
           /\ WordAt(s, x, LastIn(s, x)).type \notin Lists
           /\ \A j : IsPart(s, x, j) => /\ j <= LastIn(s, x)
                                        /\ WordAt(s, x, j).at <= WordAt(s, x, LastIn(s, x)).at
           /\ \A j : IsPart(s, x, j) /\ IsPlain(s, x, j) /\ WordAt(s, x, j).type \notin Lists
                        => j = LastIn(s, x)
<1> DEFINE call == CallAt(s, x)
           k == x[2]
           W == Within(call, k, Lists)
           m == Max(W)
<1>1. call.words \in Seq(TypedWords) /\ Laminar(call.words) /\ k \in 1..Len(call.words)
      /\ WordsAscend(call.words)
  BY PlaceTypedIn
<1> HIDE DEF call
<1>2. /\ W \subseteq 1..Len(call.words) /\ m \in W /\ \A j \in W : j <= m
      /\ call.words[m].type \notin Lists
      /\ \A j \in W : call.words[j].type \notin Lists /\ call.words[j].last = call.words[k].last => j = m
  BY <1>1, WithinIs
<1>3. \A j : IsPart(s, x, j) <=> j \in W BY DEF IsPart, call
<1>4. LastIn(s, x) = m BY DEF LastIn, call
<1>5. ASSUME NEW j \in W PROVE call.words[j].at <= call.words[m].at
  <2>1. j \in 1..Len(call.words) /\ m \in 1..Len(call.words) /\ j <= m BY <1>2
  <2>2. call.words[m] \in TypedWords BY <1>1, <2>1
  <2>3. call.words[m].at \in Nat BY <2>2, WordTyped
  <2>4. CASE j = m BY <2>3, <2>4
  <2>5. CASE j < m BY <1>1, <2>1, <2>5 DEF WordsAscend
  <2> HIDE DEF m
  <2> QED BY <2>1, <2>4, <2>5
<1>6. \A j : IsPlain(s, x, j) => call.words[j].last = call.words[k].last
  BY DEF IsPlain, PlainPart, call
<1> HIDE DEF m, W
<1> QED BY <1>2, <1>3, <1>4, <1>5, <1>6 DEF WordAt, call

IsDown(begun) == begun \subseteq Nat /\ \A a \in begun : 0..a \subseteq begun

IsPastAt(s, x, begun) == Past(CallAt(s, x), x[2], begun)

LEMMA PastIs ==
    ASSUME NEW s, NEW x \in Places(script[s]), NEW begun
    PROVE  IsPastAt(s, x, begun) <=> \E j : IsPart(s, x, j) /\ WordAt(s, x, j).at \notin begun
BY DEF IsPastAt, Past, IsPart, WordAt

\* An argument is past if its last word begins behind the position.
LEMMA PastByLast ==
    ASSUME NEW end \in Nat, IsTree(script, end), NEW s \in 1..Len(script), NEW x \in Places(script[s]),
           NEW begun, IsDown(begun)
    PROVE  IsPastAt(s, x, begun) <=> WordAt(s, x, LastIn(s, x)).at \notin begun
<1> DEFINE m == LastIn(s, x)
<1>1. IsPart(s, x, m) BY LastInIs
<1>2. ASSUME WordAt(s, x, m).at \in begun, NEW j, IsPart(s, x, j) PROVE WordAt(s, x, j).at \in begun
  <2>1. WordAt(s, x, j).at <= WordAt(s, x, m).at BY <1>2, LastInIs
  <2>2. WordAt(s, x, j).at \in Nat /\ WordAt(s, x, m).at \in Nat BY <1>1, <1>2, PartTyped
  <2>3. WordAt(s, x, j).at \in 0..WordAt(s, x, m).at BY <2>1, <2>2
  <2> QED BY <1>2, <2>3 DEF IsDown
<1> QED BY <1>1, <1>2, PastIs

\* The arguments in front of the first one past the position are those that are
\* not past it.
LEMMA InFrontIs ==
    ASSUME NEW end \in Nat, IsTree(script, end), NEW begun, IsDown(begun), NEW s \in 1..Len(script)
    PROVE  \A x : x \in InFront(script[s], begun)
                     <=> x \in Places(script[s]) /\ ~IsPastAt(s, x, begun)
<1> DEFINE front == InFront(script[s], begun)
<1>0. \A y : y \in front <=>
          /\ y \in Places(script[s])
          /\ \A z \in Places(script[s]) : IsPastAt(s, z, begun) => Precedes(y, z)
  BY DEF InFront, IsPastAt, CallAt
<1> HIDE DEF front
<1>1. ASSUME NEW x \in Places(script[s]), ~IsPastAt(s, x, begun),
             NEW z \in Places(script[s]), IsPastAt(s, z, begun)
      PROVE  Precedes(x, z)
  <2> SUFFICES ASSUME ~Precedes(x, z) PROVE FALSE
    OBVIOUS
  <2>1. x # z BY <1>1
  <2>2. Precedes(z, x) BY <2>1, PlacesOrdered
  <2> DEFINE m == LastIn(s, x)
             n == LastIn(s, z)
  <2>3. IsPart(s, x, m) /\ IsPart(s, z, n) BY LastInIs
  <2> HIDE DEF m, n
  <2>4. End(WordAt(s, z, n)) < WordAt(s, x, m).at BY <2>2, <2>3, InOrder
  <2>5. /\ WordAt(s, z, n).at \in Nat /\ End(WordAt(s, z, n)) \in Nat
        /\ WordAt(s, z, n).at <= End(WordAt(s, z, n)) /\ WordAt(s, x, m).at \in Nat
    BY <2>3, PartTyped
  <2>6. WordAt(s, x, m).at \in begun BY <1>1, PastByLast DEF m
  <2>7. WordAt(s, z, n).at \notin begun BY <1>1, PastByLast DEF n
  <2>8. WordAt(s, z, n).at \in 0..WordAt(s, x, m).at BY <2>4, <2>5
  <2> QED BY <2>6, <2>7, <2>8 DEF IsDown
<1>2. ASSUME NEW x \in front PROVE ~IsPastAt(s, x, begun)
  <2>1. x \in Places(script[s]) BY <1>0
  <2>2. ~Precedes(x, x) BY <2>1, PlacesOrdered
  <2> QED BY <1>0, <2>1, <2>2
<1> QED BY <1>0, <1>1, <1>2 DEF front

\* The search takes what it finds in the last argument that is not past.
LEMMA FoundAt ==
    ASSUME NEW end \in Nat, IsTree(script, end), NEW begun, IsDown(begun),
           NEW f, IsSearch(f, script, end, begun), NEW s \in 1..Len(script), NEW x \in Places(script[s]),
           ~IsPastAt(s, x, begun),
           \A y \in Places(script[s]) : Precedes(x, y) => IsPastAt(s, y, begun)
    PROVE  f[s] = FoundIn(CallAt(s, x), x[2], f)
<1> DEFINE front == InFront(script[s], begun)
<1>1. \A y : y \in front <=> y \in Places(script[s]) /\ ~IsPastAt(s, y, begun) BY InFrontIs
<1>2. x \in front BY <1>1
<1>3. ASSUME NEW z \in front, IsLastPlace(z, front) PROVE z = x
  <2> SUFFICES ASSUME z # x PROVE FALSE
    OBVIOUS
  <2>1. Precedes(x, z) BY <1>2, <1>3 DEF IsLastPlace
  <2>2. z \in Places(script[s]) /\ ~IsPastAt(s, z, begun) BY <1>1, <1>3
  <2> QED BY <2>1, <2>2
<1>4. IsFound(f[s], f, script[s], begun) BY DEF IsSearch
<1> QED BY <1>2, <1>3, <1>4 DEF IsFound, CallAt

\* What that is, if the last word of the argument is a script, or if none is.
LEMMA LastFound ==
    ASSUME NEW end \in Nat, IsTree(script, end), NEW s \in 1..Len(script), NEW x \in Places(script[s]), NEW f
    PROVE  /\ WordAt(s, x, LastIn(s, x)).type = "SCRIPT" =>
                  FoundIn(CallAt(s, x), x[2], f) = f[WordAt(s, x, LastIn(s, x)).script]
           /\ (\A j : IsPart(s, x, j) => WordAt(s, x, j).type # "SCRIPT") =>
                  FoundIn(CallAt(s, x), x[2], f) = CursorAt(s, x, LastIn(s, x))
<1> DEFINE call == CallAt(s, x)
           k == x[2]
           W == Within(call, k, Lists)
           S == ScriptWords(call, k)
           m == LastIn(s, x)
<1>1. call.words \in Seq(TypedWords) /\ Laminar(call.words) /\ k \in 1..Len(call.words)
  BY PlaceTypedIn
<1> HIDE DEF call
<1>2. m = Max(W) BY DEF LastIn, call
<1>3. /\ W \subseteq 1..Len(call.words) /\ Max(W) \in W /\ \A j \in W : j <= Max(W)
  BY <1>1, WithinIs
<1>4. \A j : IsPart(s, x, j) <=> j \in W BY DEF IsPart, call
<1>5. \A j : j \in S <=> j \in W /\ call.words[j].type = "SCRIPT" BY DEF ScriptWords
<1>6. FoundIn(call, k, f) =
         LET found == IF S = {} THEN ResultAt(call, k) ELSE f[call.words[Max(S)].script]
         IN  IF m \in S THEN found ELSE [found EXCEPT !.word = call.words[m]]
  BY <1>2 DEF FoundIn
<1> HIDE DEF m, S, W
<1>7. ASSUME call.words[m].type = "SCRIPT" PROVE FoundIn(call, k, f) = f[call.words[m].script]
  <2>1. m \in S BY <1>2, <1>3, <1>5, <1>7
  <2>2. \A j \in S : j <= m BY <1>2, <1>3, <1>5
  <2>3. Max(S) = m BY <1>1, <2>1, <2>2, ScriptWordsIs DEF S
  <2> QED BY <1>6, <2>1, <2>3
<1>8. ASSUME \A j \in W : call.words[j].type # "SCRIPT" PROVE FoundIn(call, k, f) = CursorAt(s, x, m)
  <2>1. S = {} /\ m \notin S BY <1>5, <1>8
  <2>2. FoundIn(call, k, f) = [ResultAt(call, k) EXCEPT !.word = call.words[m]] BY <1>6, <2>1
  <2> DEFINE c == ResultAt(call, k)
             a == Id(call)
             b == Place(call.args, k)
             w == call.words[m]
  <2>3. c \in [call : {NoCall, a}, argument : {0, b}, word : {NoWord}] /\ c.call = a /\ c.argument = b
    BY ResultIs
  <2>4. CursorAt(s, x, m) = [call |-> a, argument |-> b, word |-> w] BY DEF CursorAt, WordAt, call
  <2> HIDE DEF a, b, c, w
  <2>5. [c EXCEPT !.word = w] = [call |-> a, argument |-> b, word |-> w] BY <2>3
  <2> QED BY <2>2, <2>4, <2>5 DEF c, w
<1> QED BY <1>4, <1>7, <1>8 DEF WordAt, call, m

-----------------------------------------------------------------------------
(* What holds of the program.                                              *)

LEMMA BegunIsDown ==
    ASSUME FileInv, Scanned, NEW p, p.line \in Int, p.column \in Int
    PROVE  IsDown(BegunAt(p)) /\ BegunAt(p) \subseteq Offsets
<1>1. Offsets \subseteq Nat /\ \A a \in Offsets : 0..a \subseteq Offsets /\ a \in Nat
  BY DEF Offsets, FileInv, FileTypeOK
<1>2. ASSUME NEW a \in BegunAt(p), NEW b \in 0..a PROVE b \in BegunAt(p)
  <2>1. a \in Offsets /\ b \in Offsets /\ ~Before(p, OffsetToLineByte(a)) /\ (b = a \/ b < a)
    BY <1>1 DEF BegunAt
  <2> DEFINE A == OffsetToLineByte(a)
             B == OffsetToLineByte(b)
  <2>2. A.line \in Int /\ A.column \in Int /\ B.line \in Int /\ B.column \in Int
    BY <2>1, LocationTyped
  <2>3. b < a => Before(B, A) BY <2>1, LocationsOrdered DEF OrderPreserved
  <2>4. CASE b = a BY <2>4
  <2>5. CASE b < a
    <3>1. Before(B, A) /\ ~Before(p, A) BY <2>1, <2>3, <2>5
    <3> HIDE DEF A, B
    <3>2. ~Before(p, B) BY <2>2, <3>1 DEF Before
    <3> QED BY <2>1, <3>2 DEF BegunAt, B
  <2> QED BY <2>1, <2>4, <2>5
<1> QED BY <1>1, <1>2 DEF IsDown, BegunAt

\* At an offset of the text, what has begun is what is not behind it.
LEMMA BegunAtOffset ==
    ASSUME FileInv, Scanned, NEW a \in Offsets
    PROVE  BegunAt(OffsetToLineByte(a)) = 0..a
<1> DEFINE p == OffsetToLineByte(a)
<1>1. p.line \in Int /\ p.column \in Int /\ a \in Nat /\ Len(contents) \in Nat
  BY LocationTyped DEF Offsets, FileInv, FileTypeOK
<1>2. ASSUME NEW b \in Offsets PROVE b \in BegunAt(p) <=> b \in 0..a
  <2>1. b \in Nat BY DEF Offsets
  <2> DEFINE q == OffsetToLineByte(b)
  <2>2. q.line \in Int /\ q.column \in Int BY LocationTyped
  <2>3. (b < a => Before(q, p)) /\ (a < b => Before(p, q)) /\ (b = a => q = p)
    BY LocationsOrdered DEF OrderPreserved
  <2>4. b \in BegunAt(p) <=> ~Before(p, q) BY DEF BegunAt
  <2> HIDE DEF p, q
  <2> QED BY <1>1, <2>1, <2>2, <2>3, <2>4 DEF Before
<1>3. 0..a \subseteq Offsets BY <1>1 DEF Offsets
<1>4. BegunAt(p) \subseteq Offsets BY DEF BegunAt
<1> HIDE DEF p
<1> QED BY <1>2, <1>3, <1>4 DEF p

LEMMA AskedIs ==
    ASSUME CursorInv, phase = "asked"
    PROVE  /\ pos.line \in Int /\ pos.column \in Int
           /\ \E f : IsSearch(f, script, Len(contents), BegunAt(pos)) /\ cursor = f[Len(script)]
           /\ outcome = Outcome(cursor)
           /\ cursor \in Cursors(Len(contents))
<1>1. IsAnswer(cursor, pos) /\ pos.line \in Int /\ pos.column \in Int /\ outcome = Outcome(cursor)
  BY DEF CursorInv, RequestInv
<1>2. PICK f : IsSearch(f, script, Len(contents), BegunAt(pos)) /\ cursor = f[Len(script)]
  BY <1>1 DEF IsAnswer
<1>3. Len(script) \in 1..Len(script) BY TreeIs
<1>4. f \in [1..Len(script) -> Cursors(Len(contents))] BY <1>2 DEF IsSearch
<1>5. cursor \in Cursors(Len(contents)) BY <1>2, <1>3, <1>4
<1> QED BY <1>1, <1>2, <1>5

\* What is found at a position is typed, and the words of a text that is ready,
\* with those in all the scripts inside of it, lie in the file (index.cpp:711-784).
THEOREM CursorIsTyped == CursorSpec => []CursorTypeOK
<1>1. ASSUME CursorInv PROVE CursorTypeOK
  <2>1. FileTypeOK /\ style \in Styles /\ open # <<>> /\ open[1].type = "script"
        /\ phase \in {"write", "scan", "ready", "asked"}
    BY <1>1 DEF CursorInv, FileInv
  <2>2. ASSUME phase \in {"ready", "asked"}, NEW leaf \in LeavesAmong(AllWords(FALSE))
        PROVE  /\ leaf.word.type \in WordTypes \ Lists
               /\ leaf.word.at + leaf.word.size \in Offsets
    <3>0. PICK plain : plain = FALSE OBVIOUS
    <3> DEFINE N == Len(script)
               end == Len(contents)
               r == ReachOf(plain)
    <3>1. IsTree(script, end) /\ N \in Nat /\ end \in Nat /\ N \in 1..N BY <1>1, <2>2, TreeIs
    <3>2. PICK s \in Searched(plain) : leaf \in WordsOf(s, plain) BY <3>0 DEF LeavesAmong, AllWords
    <3>3. leaf.word.type \notin Lists BY DEF LeavesAmong
    <3>4. s \in r[N] BY <3>2 DEF Searched
    <3>5. Below(NestedOf(plain), N) /\ Reaches(r, NestedOf(plain), N) BY <3>1, NestedBelow
    <3> HIDE DEF N, r
    <3>6. s \in 1..N BY <3>1, <3>4, <3>5, ReachClosed
    <3>7. PICK x, j : IsPart(s, x, j) /\ leaf = CursorAt(s, x, j) BY <3>2, WordOf
    <3>8. leaf.word = WordAt(s, x, j) BY <3>7 DEF CursorAt
    <3> DEFINE w == leaf.word
    <3>9. w \in TypedWords /\ End(w) \in Nat /\ End(w) <= end
      BY <3>1, <3>6, <3>7, <3>8, PartTyped DEF N
    <3>10. w.type \in WordTypes BY <3>9, WordTyped
    <3> QED BY <3>1, <3>3, <3>9, <3>10 DEF End, Offsets
  <2>3. /\ cursor.call \in {NoCall} \cup Offsets
        /\ cursor.word.type \in {"none"} \cup (WordTypes \ Lists)
        /\ outcome \in {"none", "rejected", "lookup", "empty"}
    <3>1. CASE phase = "asked"
      <4>1. cursor \in Cursors(Len(contents)) /\ outcome = Outcome(cursor) BY <1>1, <3>1, AskedIs
      <4>2. cursor.call \in {NoCall} \cup Offsets BY <4>1 DEF Cursors, Offsets
      <4>3. cursor.word = NoWord \/ cursor.word \in LeafWords BY <4>1 DEF Cursors
      <4>4. NoWord.type = "none" BY DEF NoWord
      <4>5. \A w \in LeafWords : w.type \in WordTypes \ Lists BY WordTyped DEF LeafWords
      <4>6. outcome \in {"rejected", "lookup", "empty"} BY <4>1 DEF Outcome
      <4> QED BY <4>2, <4>3, <4>4, <4>5, <4>6
    <3>2. CASE phase # "asked"
      <4>1. cursor = NoCursor /\ outcome = "none" BY <1>1, <3>2 DEF CursorInv, RequestInv
      <4>2. cursor.call = NoCall /\ cursor.word.type = "none" BY <4>1 DEF NoCursor, NoWord
      <4> QED BY <4>1, <4>2
    <3> QED BY <3>1, <3>2
  <2> QED BY <2>1, <2>2, <2>3 DEF CursorTypeOK
<1> QED BY <1>1, CursorInvariant, PTL

\* The offsets of a text that is asked about have the lines and columns
\* the protocol counts, in their order (source_location.cpp:67-86, index.cpp:715-723).
THEOREM TextsAreLocated == CursorSpec => [](PositionsExact /\ OrderPreserved)
<1>1. CursorInv => PositionsExact /\ OrderPreserved
  BY ExactPositions, LocationsOrdered DEF CursorInv
<1> QED BY <1>1, CursorInvariant, PTL

OnlyPlain(plain) == \A s, x, j : Fits(s, x, j, plain) => IsPlain(s, x, j)

\* The search finds the plain word that a position is in: no other argument comes
\* after its own that is not past the position, nothing in the argument replaces
\* it, and a script it is in gives it for the same reason.
LEMMA UnderIsFound ==
    ASSUME NEW end \in Nat, IsTree(script, end), NEW plain, OnlyPlain(plain), NEW a \in Nat,
           NEW f, IsSearch(f, script, end, 0..a)
    PROVE  \A t \in 1..Len(script) : \A s \in ReachOf(plain)[t] : \A leaf \in WordsOf(s, plain) :
               /\ leaf.word.type \notin Lists \cup {"SCRIPT"}
               /\ leaf.word.at <= a /\ a < End(leaf.word)
               => f[t] = leaf
<1> DEFINE N == Len(script)
           r == ReachOf(plain)
           begun == 0..a
           S == {t \in 1..N : \A s \in r[t] : \A leaf \in WordsOf(s, plain) :
                     /\ leaf.word.type \notin Lists \cup {"SCRIPT"}
                     /\ leaf.word.at <= a /\ a < End(leaf.word)
                     => f[t] = leaf}
<1>1. N \in Nat BY DEF IsTree
<1>2. Below(NestedOf(plain), N) /\ Reaches(r, NestedOf(plain), N) BY NestedBelow
<1>3. IsDown(begun) BY DEF IsDown
<1>4. IsSearch(f, script, end, begun) OBVIOUS
<1>b. \A n \in Nat : n \in begun <=> n <= a OBVIOUS
<1> HIDE DEF r, begun
<1>5. ASSUME NEW t \in 1..N, \A m \in 1..(t - 1) : m \in S PROVE t \in S
  <2> SUFFICES ASSUME NEW s \in r[t], NEW leaf \in WordsOf(s, plain),
                      leaf.word.type \notin Lists \cup {"SCRIPT"},
                      leaf.word.at <= a, a < End(leaf.word)
               PROVE  f[t] = leaf
    OBVIOUS
  <2>1. PICK x, j : /\ IsPart(t, x, j) /\ Fits(t, x, j, plain)
                    /\ Lies(leaf.word, t, x, j)
                    /\ \/ s = t /\ leaf = CursorAt(t, x, j)
                       \/ /\ WordAt(t, x, j).type = "SCRIPT"
                          /\ s \in r[WordAt(t, x, j).script]
    BY Anchored DEF r
  <2> DEFINE w == WordAt(t, x, j)
  <2>2. IsPlain(t, x, j) BY <2>1 DEF OnlyPlain
  <2>3. leaf = CursorAt(t, x, j) => leaf.word = w BY DEF CursorAt
  <2>4. w.type \notin Lists BY <2>1, <2>3 DEF Lists
  <2>5. x \in Places(script[t]) BY <2>1 DEF IsPart
  <2>6. j = LastIn(t, x) BY <2>1, <2>2, <2>4, <2>5, LastInIs
  <2>7. /\ w.at \in Nat /\ End(w) \in Nat
        /\ w.type = "SCRIPT" => w.script \in 1..(t - 1)
    BY <2>1, PartTyped
  <2>8. leaf.word.at \in Nat /\ End(leaf.word) \in Nat
    <3>1. s \in 1..N BY <1>1, <1>2, ReachClosed
    <3>2. PICK y, l : IsPart(s, y, l) /\ leaf = CursorAt(s, y, l) BY WordOf
    <3>3. leaf.word = WordAt(s, y, l) BY <3>2 DEF CursorAt
    <3> QED BY <3>1, <3>2, <3>3, PartTyped
  <2>9. w.at <= leaf.word.at /\ End(leaf.word) <= End(w) BY <2>1 DEF Lies
  <2> HIDE DEF w
  <2>10. w.at <= a /\ a < End(w) BY <2>7, <2>8, <2>9
  <2>11. ~IsPastAt(t, x, begun)
    <3>1. w.at \in begun BY <1>b, <2>7, <2>10
    <3> QED BY <1>3, <2>5, <2>6, <3>1, PastByLast DEF w
  <2>12. ASSUME NEW y \in Places(script[t]), Precedes(x, y) PROVE IsPastAt(t, y, begun)
    <3> DEFINE l == LastIn(t, y)
               v == WordAt(t, y, l)
    <3>1. IsPart(t, y, l) BY LastInIs
    <3> HIDE DEF l
    <3>2. End(w) < v.at BY <2>1, <2>12, <3>1, InOrder DEF w
    <3>3. v.at \in Nat BY <3>1, PartTyped
    <3>4. v.at \notin begun
      <4> HIDE DEF v
      <4>1. ~(v.at <= a) BY <2>7, <2>10, <3>2, <3>3
      <4> QED BY <1>b, <3>3, <4>1
    <3> QED BY <1>3, <3>4, PastByLast DEF l
  <2>13. f[t] = FoundIn(CallAt(t, x), x[2], f) BY <1>3, <1>4, <2>5, <2>11, <2>12, FoundAt
  <2>14. CASE s = t /\ leaf = CursorAt(t, x, j)
    <3>1. w.type # "SCRIPT" BY <2>3, <2>14 DEF w
    <3>2. \A i \in Within(CallAt(t, x), x[2], Lists) : i < j => CallAt(t, x).words[i].type # "SCRIPT"
      BY <2>2, <3>1 DEF IsPlain, PlainPart, WordAt, w
    <3>3. ASSUME NEW i, IsPart(t, x, i) PROVE WordAt(t, x, i).type # "SCRIPT"
      <4>1. i \in Within(CallAt(t, x), x[2], Lists) BY <3>3 DEF IsPart
      <4>2. i <= j BY <2>5, <2>6, <3>3, LastInIs
      <4>3. i \in 1..Len(CallAt(t, x).words) /\ j \in 1..Len(CallAt(t, x).words)
        BY <2>1, <3>3, PartTyped
      <4>4. i < j \/ i = j BY <4>2, <4>3
      <4> QED BY <3>1, <3>2, <4>1, <4>4 DEF WordAt, w
    <3>4. FoundIn(CallAt(t, x), x[2], f) = CursorAt(t, x, LastIn(t, x)) BY <2>5, <3>3, LastFound
    <3> QED BY <2>6, <2>13, <2>14, <3>4
  <2>15. CASE w.type = "SCRIPT" /\ s \in r[w.script]
    <3>1. f[t] = f[w.script] BY <2>5, <2>6, <2>13, <2>15, LastFound DEF w
    <3>2. w.script \in S BY <1>5, <2>7, <2>15
    <3>3. f[w.script] = leaf BY <2>15, <3>2
    <3> QED BY <3>1, <3>3
  <2> QED BY <2>1, <2>14, <2>15 DEF w
<1> HIDE DEF S
<1>6. \A t \in 1..N : t \in S BY <1>1, <1>5, FromBelow
<1> QED BY <1>6 DEF S, r

\* A request about a position inside a plain word is answered with that word, with
\* the innermost call it is an argument of and its place there, in a text of any
\* length and however deep scripts are nested in it (index.cpp:711-784).
THEOREM WordsAreUnderCursor == CursorSpec => []WordUnderCursor
<1>1. ASSUME CursorInv PROVE WordUnderCursor
  <2>0. PICK plain : plain = TRUE OBVIOUS
  <2> SUFFICES ASSUME phase = "asked", NEW leaf \in LeavesAmong(AllWords(plain)),
                      NEW a \in leaf.word.at..(leaf.word.at + leaf.word.size - 1),
                      pos = OffsetToLineByte(a)
               PROVE  cursor = leaf
    BY <2>0 DEF WordUnderCursor
  <2>p. OnlyPlain(plain) BY <2>0 DEF OnlyPlain, Fits
  <2> DEFINE N == Len(script)
             end == Len(contents)
             r == ReachOf(plain)
  <2>1. /\ IsTree(script, end) /\ N \in Nat /\ end \in Nat /\ N \in 1..N /\ FileInv /\ Scanned
    BY <1>1, TreeIs
  <2>2. PICK s \in Searched(plain) : leaf \in WordsOf(s, plain) BY DEF LeavesAmong, AllWords
  <2>3. leaf.word.type \notin Lists \cup {"SCRIPT"} BY DEF LeavesAmong
  <2>4. s \in r[N] BY <2>2 DEF Searched
  <2>5. Below(NestedOf(plain), N) /\ Reaches(r, NestedOf(plain), N) BY <2>1, NestedBelow
  <2>6. s \in 1..N
    <3> HIDE DEF N, r
    <3> QED BY <2>1, <2>4, <2>5, ReachClosed
  <2>7. PICK x, j : IsPart(s, x, j) /\ leaf = CursorAt(s, x, j) BY <2>2, WordOf
  <2> DEFINE w == leaf.word
  <2>8. w = WordAt(s, x, j) BY <2>7 DEF CursorAt
  <2>9. w \in TypedWords /\ End(w) <= end BY <2>1, <2>6, <2>7, <2>8, PartTyped
  <2>10. w.at \in Nat /\ w.size \in Nat /\ End(w) = w.at + w.size BY <2>9, WordTyped DEF End
  <2>w. a \in w.at..(w.at + w.size - 1) OBVIOUS
  <2> HIDE DEF w, end
  <2>11. a \in Nat /\ w.at <= a /\ a < End(w) /\ a \in 0..end BY <2>1, <2>9, <2>10, <2>w
  <2>12. a \in Offsets BY <2>11 DEF Offsets, end
  <2>13. BegunAt(pos) = 0..a BY <2>1, <2>12, BegunAtOffset
  <2>14. PICK f : IsSearch(f, script, end, BegunAt(pos)) /\ cursor = f[N]
    BY <1>1, AskedIs DEF end
  <2>15. IsSearch(f, script, end, 0..a) BY <2>13, <2>14
  <2>16. f[N] = leaf BY <2>p, <2>1, <2>2, <2>3, <2>4, <2>11, <2>15, UnderIsFound DEF w
  <2> QED BY <2>14, <2>16
<1> QED BY <1>1, CursorInvariant, PTL

-----------------------------------------------------------------------------
(* What the walks of the index come to.                                    *)

AnyPart(plain) == \A s, x, j : Fits(s, x, j, plain)

CalledIn(c, s) == \E call \in ToSet(script[s]) : c.call = Id(call)

LEMMA CallsIn ==
    ASSUME NEW end \in Nat, IsTree(script, end), NEW s \in 1..Len(script)
    PROVE  \A call : call \in ToSet(script[s]) <=> \E i \in 1..Len(script[s]) : call = script[s][i]
<1>1. script[s] \in Seq(Calls) BY TreeArgs
<1>2. DOMAIN script[s] = 1..Len(script[s]) BY <1>1
<1> QED BY <1>2 DEF ToSet

LEMMA FoundInCall ==
    ASSUME NEW end \in Nat, IsTree(script, end), NEW s \in 1..Len(script), NEW x \in Places(script[s]),
           NEW f, \A m \in 1..(s - 1) : f[m] \in Cursors(end)
    PROVE  \/ FoundIn(CallAt(s, x), x[2], f).call = Id(CallAt(s, x))
           \/ \E j : /\ IsPart(s, x, j) /\ WordAt(s, x, j).type = "SCRIPT"
                     /\ FoundIn(CallAt(s, x), x[2], f).call = f[WordAt(s, x, j).script].call
<1> DEFINE call == CallAt(s, x)
           k == x[2]
           S == ScriptWords(call, k)
           W == Within(call, k, Lists)
           j == Max(S)
           found == IF S = {} THEN ResultAt(call, k) ELSE f[call.words[j].script]
           w == call.words[Max(W)]
<1>1. call.words \in Seq(TypedWords) /\ Laminar(call.words) /\ k \in 1..Len(call.words)
  BY PlaceTypedIn
<1>2. FoundIn(call, k, f) = IF Max(W) \in S THEN found ELSE [found EXCEPT !.word = w]
  BY DEF FoundIn
<1>3. ASSUME S # {}
      PROVE  /\ IsPart(s, x, j) /\ WordAt(s, x, j).type = "SCRIPT"
             /\ found = f[WordAt(s, x, j).script] /\ found \in Cursors(end)
  <2>1. j \in S /\ S \subseteq W BY <1>1, <1>3, ScriptWordsIs
  <2>2. j \in W /\ call.words[j].type = "SCRIPT" BY <2>1 DEF ScriptWords
  <2>3. IsPart(s, x, j) BY <2>2 DEF IsPart
  <2>4. WordAt(s, x, j).type = "SCRIPT" /\ WordAt(s, x, j) = call.words[j] BY <2>2 DEF WordAt
  <2> HIDE DEF call, j
  <2>5. WordAt(s, x, j).script \in 1..(s - 1) BY <2>3, <2>4, PartTyped
  <2>6. found = f[WordAt(s, x, j).script] BY <1>3, <2>4
  <2>7. f[WordAt(s, x, j).script] \in Cursors(end) BY <2>5
  <2> QED BY <2>3, <2>4, <2>6, <2>7
<1>4. ASSUME S = {}
      PROVE  /\ found \in [call : {NoCall, Id(call)}, argument : {0, Place(call.args, k)}, word : {NoWord}]
             /\ found.call = Id(call)
  BY <1>4, ResultIs
<1> HIDE DEF call, k, S, W, j, found, w
<1>5. [found EXCEPT !.word = w].call = found.call BY <1>3, <1>4 DEF Cursors
<1>6. FoundIn(call, k, f).call = found.call BY <1>2, <1>5
<1> QED BY <1>3, <1>4, <1>6 DEF call, k

\* The search takes the call from a script it came to.
LEMMA FoundIsCalled ==
    ASSUME NEW end \in Nat, IsTree(script, end), NEW plain, AnyPart(plain), NEW begun,
           NEW f, IsSearch(f, script, end, begun)
    PROVE  \A t \in 1..Len(script) :
               f[t].call = NoCall \/ \E s \in ReachOf(plain)[t] : CalledIn(f[t], s)
<1> DEFINE N == Len(script)
           r == ReachOf(plain)
           S == {t \in 1..N : f[t].call = NoCall \/ \E s \in r[t] : CalledIn(f[t], s)}
<1>1. N \in Nat /\ DOMAIN script = 1..N BY DEF IsTree
<1>2. Below(NestedOf(plain), N) /\ Reaches(r, NestedOf(plain), N) BY NestedBelow
<1>3. \A t \in 1..N : f[t] \in Cursors(end) BY DEF IsSearch
<1> HIDE DEF r
<1>4. ASSUME NEW t \in 1..N, \A m \in 1..(t - 1) : m \in S PROVE t \in S
  <2>1. IsFound(f[t], f, script[t], begun) BY DEF IsSearch
  <2>2. CASE f[t] = NoCursor BY <2>2 DEF NoCursor
  <2>3. CASE \E x \in InFront(script[t], begun) : f[t] = FoundIn(script[t][x[1]], x[2], f)
    <3>1. PICK x \in InFront(script[t], begun) : f[t] = FoundIn(script[t][x[1]], x[2], f) BY <2>3
    <3>2. x \in Places(script[t]) /\ f[t] = FoundIn(CallAt(t, x), x[2], f) BY <3>1 DEF InFront, CallAt
    <3>3. \A m \in 1..(t - 1) : m \in 1..N BY <1>1
    <3>4. \A m \in 1..(t - 1) : f[m] \in Cursors(end) BY <1>3, <3>3
    <3>5. CASE f[t].call = Id(CallAt(t, x))
      <4>1. x[1] \in 1..Len(script[t]) BY <3>2, PlaceTypedIn
      <4>2. CallAt(t, x) \in ToSet(script[t]) BY <4>1, CallsIn DEF CallAt
      <4>3. CalledIn(f[t], t) BY <3>5, <4>2 DEF CalledIn
      <4>4. t \in r[t] BY <1>1, <1>2, ReachStep
      <4> QED BY <4>3, <4>4
    <3>6. CASE \E j : /\ IsPart(t, x, j) /\ WordAt(t, x, j).type = "SCRIPT"
                      /\ f[t].call = f[WordAt(t, x, j).script].call
      <4>1. PICK j : /\ IsPart(t, x, j) /\ WordAt(t, x, j).type = "SCRIPT"
                     /\ f[t].call = f[WordAt(t, x, j).script].call
        BY <3>6
      <4>2. Fits(t, x, j, plain) BY DEF AnyPart
      <4> DEFINE u == WordAt(t, x, j).script
      <4>3. u \in NestedOf(plain)[t] BY <1>1, <4>1, <4>2, IsNestedIn
      <4> HIDE DEF u
      <4>4. u \in 1..(t - 1) /\ r[u] \subseteq r[t] BY <1>1, <1>2, <4>3, ReachStep
      <4>5. u \in S BY <1>4, <4>4
      <4>6. f[t].call = f[u].call BY <4>1 DEF u
      <4> QED BY <4>4, <4>5, <4>6 DEF CalledIn
    <3> QED BY <3>2, <3>4, <3>5, <3>6, FoundInCall
  <2> QED BY <2>1, <2>2, <2>3 DEF IsFound
<1> HIDE DEF S
<1>5. \A t \in 1..N : t \in S BY <1>1, <1>4, FromBelow
<1> QED BY <1>5 DEF S, r

\* The walks go from script to script by scripts in the arguments of calls.
ScanNested ==
    [s \in DOMAIN script |->
        UNION {UNION {ScanWord(call, k) : k \in BodyOrAll(call, {"NAMESPACE_EVAL"})}
               : call \in ToSet(script[s])}]

IndexNested ==
    [s \in DOMAIN script |->
        UNION {UNION {IndexWord(call, k) : k \in BodyOrAll(call, {"NAMESPACE_EVAL", "PROC"})}
               : call \in ToSet(script[s])}]

LEMMA WalksAre ==
    /\ ScanScript(script) = {Id(call) : call \in CallsOf(script, Reach(ScanNested)[Len(script)])}
    /\ IndexScript(script) = {Id(call) : call \in CallsOf(script, Reach(IndexNested)[Len(script)])}
BY DEF ScanScript, IndexScript, ScanNested, IndexNested

LEMMA WordsAreBelow ==
    ASSUME NEW call, NEW most \in Nat, GoodCall(call, script, most), NEW k \in call.args, NEW types
    PROVE  ScriptsIn(call, Within(call, k, types)) \subseteq 1..most
<1> SUFFICES ASSUME NEW u \in ScriptsIn(call, Within(call, k, types)) PROVE u \in 1..most
  OBVIOUS
<1>1. PICK j \in Within(call, k, types) : call.words[j].type = "SCRIPT" /\ u = call.words[j].script
  BY DEF ScriptsIn
<1>2. k \in 1..Len(call.words) /\ call.words[k].last \in k..Len(call.words)
  BY DEF GoodCall, Laminar
<1>3. j \in k..call.words[k].last BY DEF Within
<1>4. j \in 1..Len(call.words) BY <1>2, <1>3
<1> QED BY <1>1, <1>4 DEF GoodCall, ScriptsLie

LEMMA WalksBelow ==
    ASSUME NEW end \in Nat, IsTree(script, end)
    PROVE  /\ Below(ScanNested, Len(script)) /\ Reaches(Reach(ScanNested), ScanNested, Len(script))
           /\ Below(IndexNested, Len(script)) /\ Reaches(Reach(IndexNested), IndexNested, Len(script))
<1>1. Len(script) \in Nat /\ DOMAIN script = 1..Len(script) BY DEF IsTree
<1>2. ASSUME NEW s \in 1..Len(script), NEW call \in ToSet(script[s]), NEW k \in call.args
      PROVE  ScanWord(call, k) \subseteq 1..(s - 1) /\ IndexWord(call, k) \subseteq 1..(s - 1)
  <2>1. PICK i \in 1..Len(script[s]) : call = script[s][i] BY CallsIn
  <2>2. GoodCall(call, script, s - 1) /\ s - 1 \in Nat BY <2>1, TreeArgs
  <2> QED BY <2>2, WordsAreBelow DEF ScanWord, IndexWord
<1>3. Below(ScanNested, Len(script))
  <2>1. ASSUME NEW s \in 1..Len(script) PROVE ScanNested[s] \subseteq 1..(s - 1)
    BY <1>1, <1>2 DEF ScanNested, BodyOrAll
  <2> QED BY <1>1, <2>1 DEF Below, ScanNested
<1>4. Below(IndexNested, Len(script))
  <2>1. ASSUME NEW s \in 1..Len(script) PROVE IndexNested[s] \subseteq 1..(s - 1)
    BY <1>1, <1>2 DEF IndexNested, BodyOrAll
  <2> QED BY <1>1, <2>1 DEF Below, IndexNested
<1> QED BY <1>1, <1>3, <1>4, ReachIs

\* A call with a body has it as the last of four arguments.
LEMMA PlaceBound ==
    ASSUME NEW call \in Calls, NEW most, GoodCall(call, script, most), NEW k \in call.args,
           call.type \in {"PROC", "NAMESPACE_EVAL"}
    PROVE  Place(call.args, k) = 3 \/ Place(call.args, k) < 3
<1> DEFINE A == call.args
           B == {j \in A : j < k}
<1>1. Len(call.words) \in Nat /\ A \subseteq 1..Len(call.words) /\ Cardinality(A) = 4
  BY DEF Calls, GoodCall
<1> HIDE DEF A
<1>2. IsFiniteSet(1..Len(call.words)) BY <1>1, FS_Interval
<1>3. IsFiniteSet(A) BY <1>1, <1>2, FS_Subset
<1>4. k \in A BY DEF A
<1> DEFINE C == A \ {k}
<1>5. IsFiniteSet(C) /\ Cardinality(C) = IF k \in A THEN Cardinality(A) - 1 ELSE Cardinality(A)
  BY <1>3, FS_RemoveElement
<1>6. B \in SUBSET C
  <2>1. \A j \in A : j \in Nat BY <1>1
  <2> QED BY <1>4, <2>1
<1> HIDE DEF B, C
<1>7. IsFiniteSet(B) /\ Cardinality(B) <= Cardinality(C) BY <1>5, <1>6, FS_Subset
<1>8. Cardinality(B) \in Nat /\ Cardinality(C) = 3 BY <1>1, <1>4, <1>5, <1>7, FS_CardinalityType
<1>9. Place(call.args, k) = Cardinality(B) BY DEF Place, A, B
<1> QED BY <1>7, <1>8, <1>9

\* What is reached from the words of the calls a walk does not look at.
HeadsFrom(r) ==
    UNION {r[s] : s \in UNION {HeadsOf(call) : call \in CallsOf(script, r[Len(script)])}}

LEMMA ReachedAreWalked ==
    ASSUME NEW end \in Nat, IsTree(script, end), Len(script) > 0, NEW plain
    PROVE  \A s \in ReachOf(plain)[Len(script)] :
               \/ s \in HeadsFrom(ReachOf(plain))
               \/ s \in Reach(ScanNested)[Len(script)] /\ s \in Reach(IndexNested)[Len(script)]
<1> DEFINE N == Len(script)
           nested == NestedOf(plain)
           r == ReachOf(plain)
           scan == Reach(ScanNested)
           index == Reach(IndexNested)
           H == HeadsFrom(r)
           R == {u \in r[N] : u \in H \/ (u \in scan[N] /\ u \in index[N])}
<1>1. N \in Nat /\ DOMAIN script = 1..N /\ N \in 1..N BY DEF IsTree
<1>2. Below(nested, N) /\ Reaches(r, nested, N) BY NestedBelow
<1>3. /\ Below(ScanNested, N) /\ Reaches(scan, ScanNested, N)
      /\ Below(IndexNested, N) /\ Reaches(index, IndexNested, N)
  BY WalksBelow
<1> HIDE DEF N, r, scan, index, H
<1>4. N \in R BY <1>1, <1>2, <1>3, ReachStep
<1>5. ASSUME NEW u \in 1..N, u \in R, NEW v \in nested[u] PROVE v \in R
  <2>1. v \in r[N] /\ v \in 1..N
    <3>1. v \in r[N] BY <1>1, <1>2, <1>5, ReachClosed
    <3> QED BY <1>1, <1>2, <3>1, ReachClosed
  <2>2. PICK x, j : IsPart(u, x, j) /\ WordAt(u, x, j).type = "SCRIPT" /\ WordAt(u, x, j).script = v
    BY <1>1, NestedIn
  <2> DEFINE call == CallAt(u, x)
             k == x[2]
  <2>3. u \in 1..Len(script) BY DEF N
  <2>4. /\ call \in Calls /\ GoodCall(call, script, u - 1) /\ k \in call.args
        /\ x[1] \in 1..Len(script[u])
    BY <2>2, <2>3, PartTyped
  <2>5. call \in ToSet(script[u]) BY <2>3, <2>4, CallsIn DEF CallAt
  <2>6. j \in Within(call, k, Lists) /\ call.words[j].type = "SCRIPT" /\ call.words[j].script = v
    BY <2>2 DEF IsPart, WordAt
  <2>7. Within(call, k, Lists) \subseteq Within(call, k, Lists \cup {"ARRAY_ACCESS"})
    BY DEF Within
  <2>8. v \in ScanWord(call, k) /\ v \in IndexWord(call, k)
    BY <2>6, <2>7 DEF ScanWord, IndexWord, ScriptsIn
  <2> HIDE DEF call, k
  <2>9. CASE u \in H
    <3>1. PICK h \in UNION {HeadsOf(c) : c \in CallsOf(script, r[N])} : u \in r[h]
      BY <2>9 DEF H, HeadsFrom, N
    <3>2. h \in 1..N
      <4>1. PICK c \in CallsOf(script, r[N]) : h \in HeadsOf(c) BY <3>1
      <4>2. PICK s \in r[N] : c \in ToSet(script[s]) BY <4>1 DEF CallsOf
      <4>3. s \in 1..N BY <1>1, <1>2, ReachClosed
      <4>4. s \in 1..Len(script) /\ s - 1 \in Nat BY <1>1, <4>3 DEF N
      <4>5. PICK i \in 1..Len(script[s]) : c = script[s][i] BY <4>2, <4>4, CallsIn
      <4>6. GoodCall(c, script, s - 1) BY <4>4, <4>5, TreeArgs
      <4>7. PICK l \in c.args : h \in ScanWord(c, l) BY <4>1 DEF HeadsOf
      <4>8. h \in 1..(s - 1) BY <4>4, <4>6, <4>7, WordsAreBelow DEF ScanWord
      <4> QED BY <1>1, <4>3, <4>8
    <3>3. v \in r[h] BY <1>1, <1>2, <1>5, <3>1, <3>2, ReachClosed
    <3>4. v \in H BY <3>1, <3>3 DEF H, HeadsFrom, N
    <3> QED BY <2>1, <3>4
  <2>10. CASE u \in scan[N] /\ u \in index[N]
    <3>1. CASE k \in BodyOrAll(call, {"NAMESPACE_EVAL"}) /\ k \in BodyOrAll(call, {"NAMESPACE_EVAL", "PROC"})
      <4>1. v \in ScanNested[u] /\ v \in IndexNested[u]
        BY <1>1, <2>5, <2>8, <3>1 DEF ScanNested, IndexNested
      <4>2. v \in scan[N] BY <1>1, <1>3, <2>10, <4>1, ReachClosed
      <4>3. v \in index[N] BY <1>1, <1>3, <2>10, <4>1, ReachClosed
      <4> QED BY <2>1, <4>2, <4>3
    <3>2. CASE ~(k \in BodyOrAll(call, {"NAMESPACE_EVAL"}) /\ k \in BodyOrAll(call, {"NAMESPACE_EVAL", "PROC"}))
      <4>1. call.type \in {"PROC", "NAMESPACE_EVAL"} /\ Place(call.args, k) # 3
        BY <2>4, <3>2 DEF BodyOrAll, call, k
      <4>2. Place(call.args, k) < 3 BY <2>4, <4>1, PlaceBound DEF call, k
      <4>3. v \in HeadsOf(call) BY <2>4, <2>8, <4>1, <4>2 DEF HeadsOf, call, k
      <4>4. call \in CallsOf(script, r[N]) BY <1>5, <2>5 DEF CallsOf
      <4>5. v \in r[v] BY <1>1, <1>2, <2>1, ReachStep
      <4>6. v \in H BY <4>3, <4>4, <4>5 DEF H, HeadsFrom, N
      <4> QED BY <2>1, <4>6
    <3> QED BY <3>1, <3>2
  <2> QED BY <1>5, <2>9, <2>10
<1> HIDE DEF R, nested
<1>6. \A u \in 1..N : u \in R => nested[u] \subseteq R BY <1>5
<1>7. r[N] \subseteq R BY <1>1, <1>2, <1>4, <1>6, ReachLeast
<1> QED BY <1>7 DEF R, r, scan, index, H, N

\* A call that can be asked about is one that both walks of the index come to,
\* or is in front of the body of a proc or a namespace eval, for every script
\* (index.cpp:415-451, 644-668).
THEOREM AskedAreIndexed == CursorSpec => []AskedCallsAreIndexed
<1>1. ASSUME CursorInv PROVE AskedCallsAreIndexed
  <2>0. PICK plain : plain = FALSE OBVIOUS
  <2> SUFFICES ASSUME outcome \in {"lookup", "empty"} PROVE AskedCallsAreIndexed
    BY DEF AskedCallsAreIndexed
  <2> DEFINE N == Len(script)
             r == ReachOf(plain)
             end == Len(contents)
  <2>1. phase = "asked" BY <1>1 DEF CursorInv, RequestInv
  <2>2. /\ IsTree(script, end) /\ N \in Nat /\ N > 0 /\ end \in Nat /\ N \in 1..N
    BY <1>1, <2>1, TreeIs
  <2>3. outcome = Outcome(cursor) BY <1>1, <2>1, AskedIs
  <2>4. cursor.call # NoCall BY <2>3 DEF Outcome
  <2>5. PICK f : IsSearch(f, script, end, BegunAt(pos)) /\ cursor = f[N]
    BY <1>1, <2>1, AskedIs
  <2>6. AnyPart(plain) BY <2>0 DEF AnyPart, Fits
  <2>7. \E s \in r[N] : CalledIn(f[N], s)
    BY <2>2, <2>4, <2>5, <2>6, FoundIsCalled
  <2>8. PICK s \in r[N] : CalledIn(cursor, s) BY <2>5, <2>7
  <2>9. PICK call \in ToSet(script[s]) : cursor.call = Id(call) BY <2>8 DEF CalledIn
  <2>10. Heads = HeadsFrom(r) BY <2>0 DEF Heads, HeadsFrom, Searched
  <2>11. CASE s \in HeadsFrom(r)
    <3>1. call \in CallsOf(script, Heads) BY <2>9, <2>10, <2>11 DEF CallsOf
    <3> QED BY <2>9, <3>1 DEF AskedCallsAreIndexed
  <2>12. CASE s \in Reach(ScanNested)[N] /\ s \in Reach(IndexNested)[N]
    <3>1. call \in CallsOf(script, Reach(ScanNested)[N]) /\ call \in CallsOf(script, Reach(IndexNested)[N])
      BY <2>9, <2>12 DEF CallsOf
    <3>2. cursor.call \in ScanScript(script) /\ cursor.call \in IndexScript(script)
      BY <2>9, <3>1, WalksAre
    <3> QED BY <3>2 DEF AskedCallsAreIndexed
  <2> QED BY <2>2, <2>8, <2>11, <2>12, ReachedAreWalked
<1> QED BY <1>1, CursorInvariant, PTL

-----------------------------------------------------------------------------
(* The nearest word.                                                       *)

WordsFrom(t, plain) == UNION {WordsOf(s, plain) : s \in ReachOf(plain)[t]}
LeavesBegun(t, plain, begun) == {c \in LeavesAmong(WordsFrom(t, plain)) : c.word.at \in begun}
ScriptsBegun(t, plain, begun) == {c \in ScriptsAmong(WordsFrom(t, plain)) : c.word.at \in begun}

IsNearest(c, leaves, scripts) ==
    \/ c = NoCursor /\ \A leaf \in leaves : \E s \in scripts : s.word.at > leaf.word.at
    \/ c \in leaves /\ \A d \in leaves \cup scripts : d.word.at <= c.word.at

PlainIn(s) == \A x, j : IsPart(s, x, j) => IsPlain(s, x, j)

LEMMA FromTyped ==
    ASSUME NEW end \in Nat, IsTree(script, end), NEW plain, NEW t \in 1..Len(script),
           NEW c \in WordsFrom(t, plain)
    PROVE  c.word \in TypedWords /\ c.word.at \in Nat /\ End(c.word) \in Nat
           /\ c.word.at <= End(c.word) /\ End(c.word) <= end
<1> DEFINE r == ReachOf(plain)
<1>1. Len(script) \in Nat BY DEF IsTree
<1>2. Below(NestedOf(plain), Len(script)) /\ Reaches(r, NestedOf(plain), Len(script)) BY NestedBelow
<1>3. PICK s \in r[t] : c \in WordsOf(s, plain) BY DEF WordsFrom
<1> HIDE DEF r
<1>4. s \in 1..Len(script) BY <1>1, <1>2, ReachClosed
<1>5. PICK x, j : IsPart(s, x, j) /\ c = CursorAt(s, x, j) BY <1>3, WordOf
<1>6. c.word = WordAt(s, x, j) BY <1>5 DEF CursorAt
<1> QED BY <1>4, <1>5, <1>6, PartTyped

\* Where a word is that has begun, if all words are plain.
LEMMA BegunAnchored ==
    ASSUME NEW end \in Nat, IsTree(script, end), NEW plain, NEW begun, IsDown(begun),
           NEW t \in 1..Len(script), PlainIn(t), NEW c \in WordsFrom(t, plain),
           c.word.type \notin Lists, c.word.at \in begun
    PROVE  \E y \in Places(script[t]) :
               /\ ~IsPastAt(t, y, begun)
               /\ Lies(c.word, t, y, LastIn(t, y))
               /\ \/ c = CursorAt(t, y, LastIn(t, y))
                  \/ /\ WordAt(t, y, LastIn(t, y)).type = "SCRIPT"
                     /\ c \in WordsFrom(WordAt(t, y, LastIn(t, y)).script, plain)
<1>1. PICK s \in ReachOf(plain)[t] : c \in WordsOf(s, plain) BY DEF WordsFrom
<1>2. PICK y, j : /\ IsPart(t, y, j)
                  /\ Lies(c.word, t, y, j)
                  /\ \/ s = t /\ c = CursorAt(t, y, j)
                     \/ /\ WordAt(t, y, j).type = "SCRIPT"
                        /\ s \in ReachOf(plain)[WordAt(t, y, j).script]
  BY <1>1, Anchored
<1> DEFINE w == WordAt(t, y, j)
<1>3. y \in Places(script[t]) BY <1>2 DEF IsPart
<1>4. c = CursorAt(t, y, j) => c.word = w BY DEF CursorAt
<1>5. w.type \notin Lists BY <1>2, <1>4 DEF Lists
<1>6. IsPlain(t, y, j) BY <1>2 DEF PlainIn
<1>7. j = LastIn(t, y) BY <1>2, <1>3, <1>5, <1>6, LastInIs
<1>8. w.at \in Nat /\ c.word.at \in Nat BY <1>2, PartTyped, FromTyped
<1>9. w.at <= c.word.at BY <1>2 DEF Lies
<1> HIDE DEF w
<1>10. w.at \in 0..c.word.at BY <1>8, <1>9
<1>11. w.at \in begun BY <1>10 DEF IsDown
<1>12. ~IsPastAt(t, y, begun) BY <1>3, <1>7, <1>11, PastByLast DEF w
<1>13. s \in ReachOf(plain)[w.script] => c \in WordsFrom(w.script, plain) BY <1>1 DEF WordsFrom
<1> QED BY <1>2, <1>3, <1>7, <1>12, <1>13 DEF w

LEMMA FromNested ==
    ASSUME NEW end \in Nat, IsTree(script, end), NEW plain, AnyPart(plain), NEW t \in 1..Len(script),
           NEW x, NEW j, IsPart(t, x, j), WordAt(t, x, j).type = "SCRIPT"
    PROVE  /\ WordAt(t, x, j).script \in 1..Len(script)
           /\ WordAt(t, x, j).script \in 1..(t - 1)
           /\ WordAt(t, x, j).script \in ReachOf(plain)[t]
           /\ WordsFrom(WordAt(t, x, j).script, plain) \subseteq WordsFrom(t, plain)
           /\ \A c \in WordsFrom(WordAt(t, x, j).script, plain) : WordAt(t, x, j).at <= c.word.at
<1> DEFINE w == WordAt(t, x, j)
           u == w.script
           r == ReachOf(plain)
<1>1. Len(script) \in Nat /\ DOMAIN script = 1..Len(script) BY DEF IsTree
<1>2. Below(NestedOf(plain), Len(script)) /\ Reaches(r, NestedOf(plain), Len(script)) BY NestedBelow
<1>3. Fits(t, x, j, plain) BY DEF AnyPart
<1>4. u \in NestedOf(plain)[t] BY <1>1, <1>3, IsNestedIn
<1>5. w.at \in Nat /\ End(w) \in Nat /\ WordsLie(script[u], w.at, End(w)) BY PartTyped
<1> HIDE DEF r, w, u
<1>6. u \in 1..(t - 1) /\ u \in 1..Len(script) /\ r[u] \subseteq r[t] /\ u \in r[u]
  <2>1. u \in 1..(t - 1) /\ u \in 1..Len(script) /\ r[u] \subseteq r[t]
    BY <1>1, <1>2, <1>4, ReachStep
  <2> QED BY <1>1, <1>2, <2>1, ReachStep
<1>7. WordsFrom(u, plain) \subseteq WordsFrom(t, plain) BY <1>6 DEF WordsFrom, r
<1>8. ASSUME NEW c \in WordsFrom(u, plain) PROVE w.at <= c.word.at
  <2>1. PICK s \in r[u] : c \in WordsOf(s, plain) BY DEF WordsFrom, r
  <2>2. w.at \in Int /\ End(w) \in Int BY <1>5
  <2>3. WordsLie(script[s], w.at, End(w)) BY <1>5, <1>6, <2>1, <2>2, ReachedLie DEF r
  <2>4. s \in 1..Len(script) BY <1>1, <1>2, <1>6, <2>1, ReachClosed
  <2>5. PICK y, l : IsPart(s, y, l) /\ c = CursorAt(s, y, l) BY <2>1, WordOf
  <2>6. y[1] \in 1..Len(script[s]) /\ l \in 1..Len(CallAt(s, y).words) BY <2>4, <2>5, PartTyped
  <2>7. c.word = script[s][y[1]].words[l] BY <2>5 DEF CursorAt, WordAt, CallAt
  <2> QED BY <2>3, <2>6, <2>7 DEF WordsLie, CallAt
<1> QED BY <1>6, <1>7, <1>8 DEF w, u, r

\* If all words are plain the search gives the last one that has begun, unless
\* only a script has begun since.
LEMMA NearestIsFound ==
    ASSUME NEW end \in Nat, IsTree(script, end), Len(script) > 0, NEW plain, AnyPart(plain),
           \A s \in ReachOf(plain)[Len(script)] : PlainIn(s),
           NEW begun, IsDown(begun), NEW f, IsSearch(f, script, end, begun)
    PROVE  IsNearest(f[Len(script)], LeavesBegun(Len(script), plain, begun),
                     ScriptsBegun(Len(script), plain, begun))
<1> DEFINE N == Len(script)
           r == ReachOf(plain)
           B(t) == LeavesBegun(t, plain, begun)
           C(t) == ScriptsBegun(t, plain, begun)
           S == {t \in 1..N : t \in r[N] => IsNearest(f[t], B(t), C(t))}
<1>1. N \in Nat /\ N \in 1..N BY DEF IsTree
<1>2. Below(NestedOf(plain), N) /\ Reaches(r, NestedOf(plain), N) BY NestedBelow
<1>3. \A t : \A c : /\ c \in B(t) <=> /\ c \in WordsFrom(t, plain) /\ c.word.at \in begun
                                     /\ c.word.type \notin Lists \cup {"SCRIPT"}
                    /\ c \in C(t) <=> /\ c \in WordsFrom(t, plain) /\ c.word.at \in begun
                                     /\ c.word.type = "SCRIPT"
  BY DEF LeavesBegun, ScriptsBegun, LeavesAmong, ScriptsAmong
<1>4. "SCRIPT" \notin Lists BY DEF Lists
<1> HIDE DEF N, r, B, C
<1>5. ASSUME NEW t \in 1..N, \A m \in 1..(t - 1) : m \in S PROVE t \in S
  <2> SUFFICES ASSUME t \in r[N] PROVE IsNearest(f[t], B(t), C(t))
    OBVIOUS
  <2>t. t \in 1..Len(script) BY DEF N
  <2>1. PlainIn(t) BY DEF N, r
  <2>2. ASSUME NEW c \in B(t) \cup C(t)
        PROVE  \E y \in Places(script[t]) :
                   /\ y \in InFront(script[t], begun)
                   /\ Lies(c.word, t, y, LastIn(t, y))
                   /\ \/ c = CursorAt(t, y, LastIn(t, y))
                      \/ /\ WordAt(t, y, LastIn(t, y)).type = "SCRIPT"
                         /\ c \in WordsFrom(WordAt(t, y, LastIn(t, y)).script, plain)
    <3>1. c \in WordsFrom(t, plain) /\ c.word.at \in begun /\ c.word.type \notin Lists BY <1>3, <1>4
    <3> QED BY <2>t, <2>1, <3>1, BegunAnchored, InFrontIs
  <2>3. CASE InFront(script[t], begun) = {}
    <3>1. f[t] = NoCursor BY <2>t, <2>3 DEF IsSearch, IsFound
    <3>2. B(t) = {} BY <2>2, <2>3
    <3> QED BY <3>1, <3>2 DEF IsNearest
  <2>4. CASE InFront(script[t], begun) # {}
    <3>1. PICK x \in InFront(script[t], begun) : /\ IsLastPlace(x, InFront(script[t], begun))
                                                 /\ f[t] = FoundIn(script[t][x[1]], x[2], f)
      BY <2>t, <2>4 DEF IsSearch, IsFound
    <3>2. x \in Places(script[t]) /\ ~IsPastAt(t, x, begun) BY <2>t, <3>1, InFrontIs
    <3>3. f[t] = FoundIn(CallAt(t, x), x[2], f) BY <3>1 DEF CallAt
    <3> DEFINE m == LastIn(t, x)
               w == WordAt(t, x, m)
               here == CursorAt(t, x, m)
    <3>4. IsPart(t, x, m) /\ w.type \notin Lists BY <2>t, <3>2, LastInIs
    <3>5. w.at \in Nat /\ w.at \in begun BY <2>t, <3>2, <3>4, PartTyped, PastByLast
    <3>6. here.word = w BY DEF CursorAt
    <3>7. here \in WordsFrom(t, plain)
      <4>1. Fits(t, x, m, plain) BY DEF AnyPart
      <4>2. here \in WordsOf(t, plain) BY <2>t, <3>4, <4>1, IsWordOf
      <4>3. t \in r[t] BY <1>1, <1>2, ReachStep
      <4> QED BY <4>2, <4>3 DEF WordsFrom, r
    <3>8. ASSUME NEW c \in B(t) \cup C(t)
          PROVE  \/ c.word.at < w.at
                 \/ c = here
                 \/ w.type = "SCRIPT" /\ c \in WordsFrom(w.script, plain)
      <4>1. PICK y \in Places(script[t]) :
                   /\ y \in InFront(script[t], begun)
                   /\ Lies(c.word, t, y, LastIn(t, y))
                   /\ \/ c = CursorAt(t, y, LastIn(t, y))
                      \/ /\ WordAt(t, y, LastIn(t, y)).type = "SCRIPT"
                         /\ c \in WordsFrom(WordAt(t, y, LastIn(t, y)).script, plain)
        BY <2>2
      <4>2. CASE y = x BY <4>1, <4>2
      <4>3. CASE y # x
        <5>1. Precedes(y, x) BY <3>1, <4>1, <4>3 DEF IsLastPlace
        <5> DEFINE l == LastIn(t, y)
        <5>2. IsPart(t, y, l) BY <2>t, LastInIs
        <5> HIDE DEF l, m, w
        <5>3. End(WordAt(t, y, l)) < w.at BY <2>t, <3>4, <5>1, <5>2, InOrder DEF w
        <5>4. End(WordAt(t, y, l)) \in Nat BY <2>t, <5>2, PartTyped
        <5>5. c \in WordsFrom(t, plain) BY <1>3
        <5>6. c.word.at \in Nat /\ End(c.word) \in Nat /\ c.word.at <= End(c.word)
          BY <2>t, <5>5, FromTyped
        <5>7. End(c.word) <= End(WordAt(t, y, l)) BY <4>1 DEF Lies, l
        <5> QED BY <3>5, <5>3, <5>4, <5>6, <5>7
      <4> QED BY <4>2, <4>3
    <3>9. \A c \in B(t) \cup C(t) : c.word.at \in Nat BY <1>3, <2>t, FromTyped
    <3>10. CASE w.type # "SCRIPT"
      <4>1. ASSUME NEW j, IsPart(t, x, j) PROVE WordAt(t, x, j).type # "SCRIPT"
        <5>1. IsPlain(t, x, j) BY <2>1, <4>1 DEF PlainIn
        <5>2. WordAt(t, x, j).type = "SCRIPT" => j = m
          BY <1>4, <2>t, <3>2, <4>1, <5>1, LastInIs
        <5> QED BY <3>10, <5>2
      <4>2. f[t] = here BY <2>t, <3>2, <3>3, <4>1, LastFound
      <4> HIDE DEF here, w, m
      <4>3. here \in B(t) BY <1>3, <3>4, <3>5, <3>6, <3>7, <3>10
      <4>4. ASSUME NEW d \in B(t) \cup C(t) PROVE d.word.at <= here.word.at
        <5>1. d.word.at < w.at \/ d = here BY <3>8, <3>10
        <5>2. d.word.at \in Nat BY <3>9
        <5> QED BY <3>5, <3>6, <5>1, <5>2
      <4> QED BY <4>2, <4>3, <4>4 DEF IsNearest
    <3>11. CASE w.type = "SCRIPT"
      <4> DEFINE u == w.script
      <4>1. f[t] = f[u] BY <2>t, <3>2, <3>3, <3>11, LastFound
      <4>2. /\ u \in 1..N /\ u \in 1..(t - 1) /\ u \in r[t]
            /\ WordsFrom(u, plain) \subseteq WordsFrom(t, plain)
            /\ \A c \in WordsFrom(u, plain) : w.at <= c.word.at
        BY <2>t, <3>4, <3>11, FromNested DEF r, N
      <4> HIDE DEF here, w, m, u
      <4>3. u \in r[N] BY <1>1, <1>2, <4>2, ReachClosed
      <4>4. IsNearest(f[u], B(u), C(u)) BY <1>5, <4>2, <4>3
      <4>5. here \in C(t) BY <1>3, <3>5, <3>6, <3>7, <3>11
      <4>6. B(u) \subseteq B(t) /\ C(u) \subseteq C(t) BY <1>3, <4>2
      <4>7. ASSUME NEW c \in B(t) \cup C(t), c \in WordsFrom(u, plain)
            PROVE  (c \in B(t) => c \in B(u)) /\ (c \in C(t) => c \in C(u))
        BY <1>3, <4>7
      <4>8. CASE /\ f[u] = NoCursor
                 /\ \A leaf \in B(u) : \E s \in C(u) : s.word.at > leaf.word.at
        <5>1. ASSUME NEW leaf \in B(t) PROVE \E s \in C(t) : s.word.at > leaf.word.at
          <6>1. CASE leaf.word.at < w.at
            <7>1. leaf.word.at \in Nat BY <3>9
            <7>2. here.word.at > leaf.word.at BY <3>5, <3>6, <6>1, <7>1
            <7> QED BY <4>5, <7>2
          <6>2. CASE leaf = here
            <7>1. leaf.word.type # "SCRIPT" BY <1>3
            <7> QED BY <3>6, <3>11, <6>2, <7>1
          <6>3. CASE leaf \in WordsFrom(u, plain)
            <7>1. leaf \in B(u) BY <4>7, <6>3
            <7> QED BY <4>6, <4>8, <7>1
          <6> QED BY <3>8, <6>1, <6>2, <6>3 DEF u
        <5> QED BY <4>1, <4>8, <5>1 DEF IsNearest, u
      <4>9. CASE f[u] \in B(u) /\ \A d \in B(u) \cup C(u) : d.word.at <= f[u].word.at
        <5> DEFINE c == f[u]
        <5>1. c \in B(u) /\ c \in B(t) /\ c \in WordsFrom(u, plain) BY <1>3, <4>6, <4>9
        <5>2. \A d \in B(u) \cup C(u) : d.word.at <= c.word.at BY <4>9
        <5> HIDE DEF c
        <5>3. w.at <= c.word.at /\ c.word.at \in Nat BY <3>9, <4>2, <5>1
        <5>4. ASSUME NEW d \in B(t) \cup C(t) PROVE d.word.at <= c.word.at
          <6>1. CASE d.word.at < w.at
            <7>1. d.word.at \in Nat BY <3>9
            <7> QED BY <3>5, <5>3, <6>1, <7>1
          <6>2. CASE d = here BY <3>6, <5>3, <6>2
          <6>3. CASE d \in WordsFrom(u, plain)
            <7>1. d \in B(u) \cup C(u) BY <4>7, <6>3
            <7> QED BY <5>2, <7>1
          <6> QED BY <3>8, <6>1, <6>2, <6>3 DEF u
        <5>5. f[t] = c BY <4>1 DEF c, u
        <5> QED BY <5>1, <5>4, <5>5 DEF IsNearest
      <4> QED BY <4>4, <4>8, <4>9 DEF IsNearest
    <3> QED BY <3>10, <3>11
  <2> QED BY <2>3, <2>4
<1> HIDE DEF S
<1>6. \A t \in 1..N : t \in S BY <1>1, <1>5, FromBelow
<1>7. N \in r[N] BY <1>1, <1>2, ReachStep
<1> QED BY <1>1, <1>6, <1>7 DEF S, N, B, C, r

\* If all words are plain, a request about any position is answered with the last
\* word that begins before it or at it, in a text of any length and however deep
\* scripts are nested in it (index.cpp:711-784).
THEOREM CursorsAreNearest == CursorSpec => []NearestWord
<1>1. ASSUME CursorInv PROVE NearestWord
  <2>0. PICK plain : plain = FALSE OBVIOUS
  <2> SUFFICES ASSUME phase = "asked", AllPlain PROVE NearestWord
    BY DEF NearestWord
  <2> DEFINE N == Len(script)
             end == Len(contents)
             begun == BegunAt(pos)
             words == AllWords(FALSE)
  <2>1. /\ IsTree(script, end) /\ N \in Nat /\ N > 0 /\ end \in Nat /\ N \in 1..N
        /\ FileInv /\ Scanned
    BY <1>1, TreeIs
  <2>2. PICK f : IsSearch(f, script, end, begun) /\ cursor = f[N] BY <1>1, AskedIs
  <2>3. IsDown(begun) BY <1>1, <2>1, AskedIs, BegunIsDown
  <2>4. AnyPart(plain) BY <2>0 DEF AnyPart, Fits
  <2>5. words = WordsFrom(N, plain) BY <2>0 DEF AllWords, Searched, WordsFrom
  <2>6. ASSUME NEW s \in ReachOf(plain)[N] PROVE PlainIn(s)
    <3> SUFFICES ASSUME NEW x, NEW j, IsPart(s, x, j) PROVE IsPlain(s, x, j)
      BY DEF PlainIn
    <3>1. s \in Searched(FALSE) BY <2>0 DEF Searched
    <3>2. x \in Places(script[s]) BY DEF IsPart
    <3>3. PartsOf(CallAt(s, x), x[2], TRUE) = PartsOf(CallAt(s, x), x[2], FALSE)
      BY <3>1, <3>2 DEF AllPlain, CallAt
    <3>4. j \in PartsOf(CallAt(s, x), x[2], FALSE) BY DEF PartsOf, IsPart
    <3>5. j \in PartsOf(CallAt(s, x), x[2], TRUE) BY <3>3, <3>4
    <3> QED BY <3>5 DEF PartsOf, IsPlain
  <2>7. IsNearest(cursor, LeavesBegun(N, plain, begun), ScriptsBegun(N, plain, begun))
    BY <2>1, <2>2, <2>3, <2>4, <2>6, NearestIsFound
  <2>8. ASSUME NEW c \in words PROVE ~Before(pos, OffsetToLineByte(c.word.at)) <=> c.word.at \in begun
    <3> HIDE DEF begun, words
    <3>1. c.word.at \in Nat /\ End(c.word) \in Nat /\ c.word.at <= End(c.word) /\ End(c.word) <= end
      BY <2>1, <2>5, FromTyped
    <3>2. c.word.at \in 0..end BY <2>1, <3>1
    <3> QED BY <3>2 DEF begun, BegunAt, Offsets
  <2>9. /\ LeavesBegun(N, plain, begun)
             = {c \in LeavesAmong(words) : ~Before(pos, OffsetToLineByte(c.word.at))}
        /\ ScriptsBegun(N, plain, begun)
             = {c \in ScriptsAmong(words) : ~Before(pos, OffsetToLineByte(c.word.at))}
    <3> HIDE DEF begun, words
    <3> QED BY <2>5, <2>8 DEF LeavesBegun, ScriptsBegun, LeavesAmong, ScriptsAmong
  <2> DEFINE leaves == {c \in LeavesAmong(words) : ~Before(pos, OffsetToLineByte(c.word.at))}
             scripts == {c \in ScriptsAmong(words) : ~Before(pos, OffsetToLineByte(c.word.at))}
  <2>10. IsNearest(cursor, leaves, scripts) BY <2>7, <2>9
  <2> QED BY <2>10 DEF NearestWord, IsNearest
<1> QED BY <1>1, CursorInvariant, PTL
=============================================================================
