--------------------------- MODULE SourceLocation ---------------------------
(***************************************************************************)
(* A SourceFile: its contents and the offsets at which its lines end, and  *)
(* the lines and columns OffsetToLineByte finds with them.                 *)
(*                                                                         *)
(* Offsets, lines and columns count from 0 as in the code.  Of a byte the  *)
(* module keeps whether it is a newline.                                   *)
(***************************************************************************)
EXTENDS Integers, Sequences, FiniteSets

CONSTANT Contents    \* the contents a file may have

Bytes == {"newline", "other"}
ASSUME ContentsAssumption == Contents \subseteq Seq(Bytes)

VARIABLES
    contents,    \* SourceFile.contents
    newlines,    \* SourceFile.newlines
    scanAt       \* ParseNewLines: the byte to look at; behind the end: done

fileVars == <<contents, newlines, scanAt>>

\* The contents are followed by a NUL, which the loop looks at too.
Byte(i) == IF i < Len(contents) THEN contents[i + 1] ELSE "NUL"

FileInit ==
    /\ contents \in Contents
    /\ newlines = <<>>
    /\ scanAt = 0

\* One round of the loop of ParseNewLines.
ScanByte ==
    /\ scanAt <= Len(contents)
    /\ newlines' = IF Byte(scanAt) = "newline" THEN Append(newlines, scanAt) ELSE newlines
    /\ scanAt' = scanAt + 1
    /\ UNCHANGED contents

\* The end of the file ends its last line.
EndScan ==
    /\ scanAt = Len(contents) + 1
    /\ newlines' = Append(newlines, Len(contents))
    /\ scanAt' = scanAt + 1
    /\ UNCHANGED contents

Scanned == scanAt = Len(contents) + 2

FileNext == ScanByte \/ EndScan \/ (Scanned /\ UNCHANGED fileVars)

FileSpec == FileInit /\ [][FileNext]_fileVars

-----------------------------------------------------------------------------
(* OffsetToLineByte.                                                       *)

\* The first line that does not end before the offset.
LineOf(offset) == CHOOSE i \in 1..Len(newlines) :
    /\ newlines[i] >= offset
    /\ \A j \in 1..(i - 1) : newlines[j] < offset

\* Mutant: the newline counts as the first byte of the next line.
StartOfLine_AtNewline(i) == IF i = 1 THEN 0 ELSE newlines[i - 1]

StartOfLine(i) == IF i = 1 THEN 0 ELSE newlines[i - 1] + 1

OffsetToLineByte(offset) ==
    [line |-> LineOf(offset) - 1,
     column |-> offset - StartOfLine(LineOf(offset))]

\* Mutant: the members are declared, and so compared, the other way round.
Before_ColumnFirst(p, q) == \/ p.column < q.column
                            \/ p.column = q.column /\ p.line < q.line

\* LinePos has the order of its members.
Before(p, q) == \/ p.line < q.line
                \/ p.line = q.line /\ p.column < q.column

Offsets == 0..Len(contents)

-----------------------------------------------------------------------------
(* Properties.                                                             *)

\* The table holds offsets of the file (source_location.cpp:32-48).
FileTypeOK ==
    /\ contents \in Seq(Bytes)
    /\ newlines \in Seq(Offsets)
    /\ scanAt \in 0..(Len(contents) + 2)

\* "Returns the 0-based line number and 0-based byte offset into that line"
\* (source_location.cpp:67): the line counts the newlines before the offset, and
\* the column leads back from it to the beginning of the file or to just behind
\* a newline, over no other newline.
PositionsExact ==
    Scanned => \A offset \in Offsets :
        LET pos == OffsetToLineByte(offset)
            start == offset - pos.column
        IN  /\ pos.line = Cardinality({i \in 0..(offset - 1) : Byte(i) = "newline"})
            /\ start \in 0..offset
            /\ start = 0 \/ Byte(start - 1) = "newline"
            /\ \A i \in start..(offset - 1) : Byte(i) # "newline"

\* assert( false && "Invalid offset" ) (source_location.cpp:84) is never reached
\* from an offset of the file, its end included.
OffsetsValid ==
    Scanned => \A offset \in Offsets : \E i \in 1..Len(newlines) : newlines[i] >= offset

\* Locations are compared instead of offsets (index.cpp:715-723): their order is
\* that of the offsets, and different offsets have different locations.
OrderPreserved ==
    Scanned => \A o1, o2 \in Offsets :
        o1 < o2 => Before(OffsetToLineByte(o1), OffsetToLineByte(o2))
=============================================================================
