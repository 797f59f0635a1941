--------------------------- MODULE FramingProofs ---------------------------
(***************************************************************************)
(* Proofs about Framing, for any clients, sizes and numbers of messages,   *)
(* and any chunks.                                                         *)
(***************************************************************************)
EXTENDS Framing, Iteration, SequenceTheorems

USE ClientsAssumption, SizesAssumption, FramingBounds

-----------------------------------------------------------------------------
(* The input: what the streambuf and the pipe contain, one behind the other. *)

Drop(s, n) == SubSeq(s, n + 1, Len(s))

LEMMA Associative ==
    ASSUME NEW S, NEW x \in Seq(S), NEW y \in Seq(S), NEW z \in Seq(S)
    PROVE  x \o (y \o z) = (x \o y) \o z
BY ConcatAssociative, SMT

LEMMA TokensAssociative ==
    \A x, y, z \in Seq(Token) : x \o (y \o z) = (x \o y) \o z
<1> SUFFICES ASSUME NEW x \in Seq(Token), NEW y \in Seq(Token), NEW z \in Seq(Token)
             PROVE  x \o (y \o z) = (x \o y) \o z
  OBVIOUS
<1> HIDE DEF Token
<1> QED BY Associative

LEMMA DropProperties ==
    ASSUME NEW S, NEW s \in Seq(S), NEW n \in 0..Len(s)
    PROVE  /\ Drop(s, n) \in Seq(S) /\ Len(Drop(s, n)) = Len(s) - n
           /\ \A i \in 1..(Len(s) - n) : Drop(s, n)[i] = s[i + n]
<1>1. \A i \in (n + 1)..Len(s) : s[i] \in S
  OBVIOUS
<1> QED BY <1>1, SubSeqProperties DEF Drop

LEMMA TakeProperties ==
    ASSUME NEW S, NEW s \in Seq(S), NEW n \in 0..Len(s)
    PROVE  /\ SubSeq(s, 1, n) \in Seq(S) /\ Len(SubSeq(s, 1, n)) = n
           /\ \A i \in 1..n : SubSeq(s, 1, n)[i] = s[i]
<1>1. \A i \in 1..n : s[i] \in S
  OBVIOUS
<1> QED BY <1>1, SubSeqProperties

\* What is read from the pipe moves to the streambuf; the input stays the same.
LEMMA ReceiveKeeps ==
    ASSUME NEW S, NEW b \in Seq(S), NEW w \in Seq(S), NEW n \in 1..Len(w)
    PROVE  /\ b \o SubSeq(w, 1, n) \in Seq(S)
           /\ SubSeq(w, n + 1, Len(w)) \in Seq(S)
           /\ (b \o SubSeq(w, 1, n)) \o SubSeq(w, n + 1, Len(w)) = b \o w
<1>1. SubSeq(w, 1, n) \in Seq(S) BY TakeProperties
<1>2. SubSeq(w, n + 1, Len(w)) \in Seq(S) BY DropProperties DEF Drop
<1>3. SubSeq(w, 1, n) \o SubSeq(w, n + 1, Len(w)) = SubSeq(w, 1, Len(w))
  BY ConcatAdjacentSubSeq
<1>4. SubSeq(w, 1, Len(w)) = w BY SubSeqFull
<1>5. b \o SubSeq(w, 1, n) \in Seq(S) BY <1>1, ConcatProperties
<1>6. \A x, y \in Seq(S) : (b \o x) \o y = b \o (x \o y)
  BY Associative
<1> DEFINE x == SubSeq(w, 1, n)
           y == SubSeq(w, n + 1, Len(w))
<1>7. x \in Seq(S) /\ y \in Seq(S) /\ x \o y = w BY <1>1, <1>2, <1>3, <1>4
<1> HIDE DEF x, y
<1>8. (b \o x) \o y = b \o w BY <1>6, <1>7
<1> QED BY <1>2, <1>5, <1>8 DEF x, y

\* What is consumed is taken off the front of the input.
LEMMA ConsumeShifts ==
    ASSUME NEW b \in Seq(Token), NEW w \in Seq(Token), NEW n \in 0..Len(b)
    PROVE  /\ Drop(b, n) \in Seq(Token)
           /\ Drop(b, n) \o w \in Seq(Token)
           /\ Len(Drop(b, n) \o w) = Len(b \o w) - n
           /\ \A i \in 1..Len(Drop(b, n) \o w) : (Drop(b, n) \o w)[i] = (b \o w)[i + n]
<1>1. /\ Drop(b, n) \in Seq(Token) /\ Len(Drop(b, n)) = Len(b) - n
      /\ \A i \in 1..(Len(b) - n) : Drop(b, n)[i] = b[i + n]
  BY DropProperties
<1> DEFINE d == Drop(b, n)
<1>2. /\ d \in Seq(Token) /\ Len(d) = Len(b) - n
      /\ \A i \in 1..(Len(b) - n) : d[i] = b[i + n]
  BY <1>1
<1> HIDE DEF d
<1>3. /\ d \o w \in Seq(Token) /\ Len(d \o w) = Len(d) + Len(w)
      /\ \A i \in 1..(Len(d) + Len(w)) : (d \o w)[i] = IF i <= Len(d) THEN d[i] ELSE w[i - Len(d)]
  BY <1>2, ConcatProperties
<1>4. /\ Len(b \o w) = Len(b) + Len(w)
      /\ \A i \in 1..(Len(b) + Len(w)) : (b \o w)[i] = IF i <= Len(b) THEN b[i] ELSE w[i - Len(b)]
  BY ConcatProperties
<1>5. ASSUME NEW i \in 1..Len(d \o w) PROVE (d \o w)[i] = (b \o w)[i + n]
  <2>1. CASE i <= Len(d)
    BY <1>2, <1>3, <1>4, <2>1
  <2>2. CASE i > Len(d)
    <3>1. (d \o w)[i] = w[i - Len(d)] BY <1>2, <1>3, <2>2
    <3>2. (b \o w)[i + n] = w[(i + n) - Len(b)] BY <1>2, <1>3, <1>4, <2>2
    <3>3. i - Len(d) = (i + n) - Len(b) BY <1>2, <1>3
    <3> QED BY <3>1, <3>2, <3>3
  <2> QED BY <1>2, <2>1, <2>2
<1> QED BY <1>2, <1>3, <1>4, <1>5 DEF d

-----------------------------------------------------------------------------
(* What the client writes.                                                 *)

LEMMA TextType ==
    ASSUME NEW id \in 0..MaxMessages, NEW size \in Nat
    PROVE  /\ Text(id, size) \in Seq(Token) /\ Len(Text(id, size)) = size
           /\ \A i \in 1..size : Text(id, size)[i] = [kind |-> "text", value |-> i, message |-> id]
<1>1. Text(id, size) \in [1..size -> Token] BY DEF Text, Token, TokenKinds
<1>2. Text(id, size) \in Seq(Token) BY <1>1, SeqDef
<1>3. Len(Text(id, size)) = size BY <1>1, <1>2, LenProperties DEF Text
<1> QED BY <1>2, <1>3 DEF Text

LEMMA HeadersType ==
    ASSUME NEW kind \in AllKinds, NEW size \in Nat
    PROVE  Headers(kind, size) \in Seq(Token)
<1>1. \A k \in TokenKinds : Line(k) \in Token BY DEF Line, Token
<1>2. \A n \in Nat : LengthLine(n) \in Token BY DEF LengthLine, Token, TokenKinds
<1> QED BY <1>1, <1>2 DEF Headers, AllKinds, TokenKinds

\* Four parts of a packet, and where they are.
LEMMA FourParts ==
    ASSUME NEW S, NEW h \in Seq(S), NEW b \in S, NEW t \in Seq(S), NEW e \in Seq(S)
    PROVE  LET p == h \o <<b>> \o t \o e
           IN  /\ p \in Seq(S) /\ Len(p) = Len(h) + 1 + Len(t) + Len(e)
               /\ \A i \in 1..Len(h) : p[i] = h[i]
               /\ p[Len(h) + 1] = b
               /\ \A i \in 1..Len(t) : p[Len(h) + 1 + i] = t[i]
               /\ \A i \in 1..Len(e) : p[Len(h) + 1 + Len(t) + i] = e[i]
<1>0. <<b>> \in Seq(S) /\ Len(<<b>>) = 1 /\ <<b>>[1] = b
  OBVIOUS
<1> DEFINE p1 == h \o <<b>>
           p2 == p1 \o t
           p3 == p2 \o e
<1>1. /\ p1 \in Seq(S) /\ Len(p1) = Len(h) + 1
      /\ \A i \in 1..Len(h) : p1[i] = h[i]
      /\ p1[Len(h) + 1] = b
  <2>1. /\ p1 \in Seq(S) /\ Len(p1) = Len(h) + 1
        /\ \A i \in 1..(Len(h) + 1) : p1[i] = IF i <= Len(h) THEN h[i] ELSE <<b>>[i - Len(h)]
    BY <1>0, ConcatProperties
  <2>2. (Len(h) + 1) - Len(h) = 1
    OBVIOUS
  <2> QED BY <1>0, <2>1, <2>2
<1> HIDE DEF p1
<1>2. /\ p2 \in Seq(S) /\ Len(p2) = Len(p1) + Len(t)
      /\ \A i \in 1..Len(p1) : p2[i] = p1[i]
      /\ \A i \in 1..Len(t) : p2[Len(p1) + i] = t[i]
  <2>1. /\ p2 \in Seq(S) /\ Len(p2) = Len(p1) + Len(t)
        /\ \A i \in 1..(Len(p1) + Len(t)) : p2[i] = IF i <= Len(p1) THEN p1[i] ELSE t[i - Len(p1)]
    BY <1>1, ConcatProperties
  <2>2. \A i \in 1..Len(t) : (Len(p1) + i) - Len(p1) = i
    BY <1>1
  <2> QED BY <1>1, <2>1, <2>2
<1> HIDE DEF p2
<1>3. /\ p3 \in Seq(S) /\ Len(p3) = Len(p2) + Len(e)
      /\ \A i \in 1..Len(p2) : p3[i] = p2[i]
      /\ \A i \in 1..Len(e) : p3[Len(p2) + i] = e[i]
  <2>1. /\ p3 \in Seq(S) /\ Len(p3) = Len(p2) + Len(e)
        /\ \A i \in 1..(Len(p2) + Len(e)) : p3[i] = IF i <= Len(p2) THEN p2[i] ELSE e[i - Len(p2)]
    BY <1>2, ConcatProperties
  <2>2. \A i \in 1..Len(e) : (Len(p2) + i) - Len(p2) = i
    BY <1>2
  <2> QED BY <1>2, <2>1, <2>2
<1> HIDE DEF p3
<1>4. p3 = h \o <<b>> \o t \o e BY DEF p1, p2, p3
<1>5. \A i \in 1..Len(t) : p3[Len(h) + 1 + i] = t[i]
  BY <1>1, <1>2, <1>3
<1>6. \A i \in 1..Len(e) : p3[Len(h) + 1 + Len(t) + i] = e[i]
  BY <1>1, <1>2, <1>3
<1> QED BY <1>1, <1>2, <1>3, <1>4, <1>5, <1>6

\* The n units of the text of the message follow i.
TextAt(s, i, n, id) ==
    /\ i + n <= Len(s)
    /\ \A j \in 1..n : s[i + j] = [kind |-> "text", value |-> j, message |-> id]

LEMMA PacketShape ==
    ASSUME NEW id \in 0..MaxMessages, NEW kind \in AllKinds, NEW size \in Nat,
           client.newline \in BOOLEAN
    PROVE  /\ Packet(id, kind, size) \in Seq(Token)
           /\ kind = "plain" => Len(Packet(id, kind, size)) >= size + 2
           /\ kind # "twice" => \A i \in 1..Len(Packet(id, kind, size)) :
                 Packet(id, kind, size)[i].kind = "length"
                     /\ Packet(id, kind, size)[i].value > 0 =>
                 /\ kind = "plain" => i = 1
                 /\ Packet(id, kind, size)[i].value = size
                 /\ Packet(id, kind, size)[i + 1].kind = "blank"
                 /\ TextAt(Packet(id, kind, size), i + 1, size, id)
<1> DEFINE h == Headers(kind, size)
           b == Line("blank")
           t == IF kind = "empty" THEN <<>> ELSE Text(id, size)
           e == IF client.newline THEN <<b>> ELSE <<>>
           p == Packet(id, kind, size)
<1>1. /\ h \in Seq(Token) /\ b \in Token /\ t \in Seq(Token) /\ e \in Seq(Token)
      /\ b.kind = "blank"
  <2>1. h \in Seq(Token) BY HeadersType
  <2>2. b \in Token /\ b.kind = "blank" BY DEF Line, Token, TokenKinds
  <2>3. t \in Seq(Token) BY TextType, EmptySeq
  <2>4. <<b>> \in Seq(Token)
    <3> HIDE DEF b
    <3> QED BY <2>2
  <2> QED BY <2>1, <2>2, <2>3, <2>4, EmptySeq
<1>2. /\ p \in Seq(Token) /\ Len(p) = Len(h) + 1 + Len(t) + Len(e)
      /\ \A i \in 1..Len(h) : p[i] = h[i]
      /\ p[Len(h) + 1] = b
      /\ \A i \in 1..Len(t) : p[Len(h) + 1 + i] = t[i]
      /\ \A i \in 1..Len(e) : p[Len(h) + 1 + Len(t) + i] = e[i]
  <2> HIDE DEF h, b, t, e
  <2>1. LET q == h \o <<b>> \o t \o e
        IN  /\ q \in Seq(Token) /\ Len(q) = Len(h) + 1 + Len(t) + Len(e)
            /\ \A i \in 1..Len(h) : q[i] = h[i]
            /\ q[Len(h) + 1] = b
            /\ \A i \in 1..Len(t) : q[Len(h) + 1 + i] = t[i]
            /\ \A i \in 1..Len(e) : q[Len(h) + 1 + Len(t) + i] = e[i]
    BY <1>1, FourParts
  <2>2. p = h \o <<b>> \o t \o e BY DEF Packet, h, b, t, e
  <2> HIDE DEF p
  <2> QED BY <2>1, <2>2
<1>3. kind # "empty" => /\ Len(t) = size
                        /\ \A i \in 1..size : t[i] = [kind |-> "text", value |-> i, message |-> id]
  BY TextType
<1>4. \A i \in 1..Len(t) : t[i].kind = "text"
  <2> HIDE DEF t
  <2>1. CASE kind = "empty"
    <3>1. Len(t) = 0 BY <2>1 DEF t
    <3> QED BY <3>1
  <2>2. CASE kind # "empty" BY <1>3, <2>2
  <2> QED BY <2>1, <2>2
<1>5. \A i \in 1..Len(e) : e[i].kind = "blank"
  BY <1>1
<1>6. kind = "plain" => Len(h) = 1
  BY DEF Headers
<1>7. ASSUME kind # "twice", NEW i \in 1..Len(h), h[i].kind = "length", h[i].value > 0
      PROVE  i = Len(h) /\ h[i].value = size /\ kind # "empty"
  BY <1>7 DEF Headers, AllKinds, Line, LengthLine
<1> HIDE DEF h, b, t, e, p
<1>8. Len(h) \in Nat /\ Len(t) \in Nat /\ Len(e) \in Nat
  BY <1>1, LenProperties
<1>9. kind = "plain" => Len(p) >= size + 2
  <2>1. Len(p) = Len(h) + 1 + Len(t) + Len(e) BY <1>2
  <2>2. kind = "plain" => Len(t) = size BY <1>3
  <2> QED BY <1>6, <1>8, <2>1, <2>2
<1>10. ASSUME kind # "twice", NEW i \in 1..Len(p), p[i].kind = "length", p[i].value > 0
       PROVE  /\ kind = "plain" => i = 1
              /\ p[i].value = size
              /\ p[i + 1].kind = "blank"
              /\ TextAt(p, i + 1, size, id)
  <2>1. i \in 1..Len(h)
    <3>1. CASE i = Len(h) + 1 BY <1>1, <1>2, <1>10, <3>1
    <3>2. CASE i > Len(h) + 1 /\ i <= Len(h) + 1 + Len(t)
      <4>1. i - (Len(h) + 1) \in 1..Len(t) /\ Len(h) + 1 + (i - (Len(h) + 1)) = i
        BY <1>8, <3>2
      <4> QED BY <1>2, <1>4, <1>10, <4>1
    <3>3. CASE i > Len(h) + 1 + Len(t)
      <4>1. /\ i - (Len(h) + 1 + Len(t)) \in 1..Len(e)
            /\ Len(h) + 1 + Len(t) + (i - (Len(h) + 1 + Len(t))) = i
        BY <1>2, <1>8, <3>3
      <4> QED BY <1>2, <1>5, <1>10, <4>1
    <3> QED BY <1>8, <3>1, <3>2, <3>3
  <2>2. p[i] = h[i] BY <1>2, <2>1
  <2>3. i = Len(h) /\ h[i].value = size /\ kind # "empty"
    BY <1>7, <1>10, <2>1, <2>2
  <2>4. TextAt(p, i + 1, size, id)
    <3>1. Len(t) = size /\ \A j \in 1..size : t[j] = [kind |-> "text", value |-> j, message |-> id]
      BY <1>3, <2>3
    <3>2. i + 1 + size <= Len(p) BY <1>2, <1>8, <2>3, <3>1
    <3>3. \A j \in 1..size : p[i + 1 + j] = t[j] BY <1>2, <2>3, <3>1
    <3> QED BY <3>1, <3>2, <3>3 DEF TextAt
  <2> QED BY <1>1, <1>2, <1>6, <2>2, <2>3, <2>4
<1> QED BY <1>2, <1>9, <1>10 DEF p

-----------------------------------------------------------------------------
(* Types.                                                                  *)

LEMMA LineEndIsFirst ==
    ASSUME buf \in Seq(Token), HasLine
    PROVE  /\ LineEnd \in 1..Len(buf) /\ buf[LineEnd].kind # "text"
           /\ \A j \in 1..(LineEnd - 1) : buf[j].kind = "text"
<1> DEFINE T == {i \in 1..Len(buf) : buf[i].kind # "text"}
<1>1. T \subseteq Nat /\ T # {} BY DEF HasLine
<1>2. PICK i \in T : \A j \in T : i <= j BY <1>1, LeastMember
<1>3. \A j \in 1..(i - 1) : buf[j].kind = "text" BY <1>2
<1>4. \E k \in 1..Len(buf) : /\ buf[k].kind # "text"
                             /\ \A j \in 1..(k - 1) : buf[j].kind = "text"
  BY <1>2, <1>3
<1> QED BY <1>4 DEF LineEnd

\* The loop over the headers ends with a length other than 0.
TypeInv == TypeOK /\ (pc = "content" => length > 0)

LEMMA InitTypeInv == Init => TypeInv
<1> SUFFICES ASSUME Init PROVE TypeInv
  OBVIOUS
<1>1. sent = <<>> /\ sent \in Seq([kind : client.kinds, size : Sizes]) /\ Len(sent) <= MaxMessages
  BY EmptySeq DEF Init
<1>2. /\ wire \in Seq(Token) /\ buf \in Seq(Token)
      /\ due \in Seq(1..MaxMessages) /\ yielded \in Seq(1..MaxMessages)
  BY EmptySeq DEF Init
<1>3. /\ client \in Clients /\ eof \in BOOLEAN /\ length \in Nat
      /\ pc = "line"
  BY DEF Init
<1> QED BY <1>1, <1>2, <1>3 DEF TypeInv, TypeOK

LEMMA ClientTypes ==
    ASSUME TypeOK
    PROVE  /\ client.kinds \subseteq AllKinds /\ client.newline \in BOOLEAN
           /\ client.most \in 0..MaxMessages
  BY DEF TypeOK

LEMMA WriteType ==
    ASSUME TypeInv, NEW kind \in client.kinds, NEW size \in Sizes, Write(kind, size)
    PROVE  TypeInv'
<1> USE DEF TypeInv, TypeOK
<1>1. Len(sent) < client.most BY DEF Write
<1>2. [kind |-> kind, size |-> size] \in [kind : client.kinds, size : Sizes]
  OBVIOUS
<1>3. /\ sent' \in Seq([kind : client.kinds, size : Sizes])
      /\ Len(sent') = Len(sent) + 1
  BY <1>2, AppendProperties DEF Write
<1>4. Len(sent') \in 0..MaxMessages BY <1>1, <1>3, ClientTypes
<1>5. Packet(Len(sent'), kind, size) \in Seq(Token)
  BY <1>4, ClientTypes, PacketShape
<1>6. wire' \in Seq(Token) BY <1>5, ConcatProperties DEF Write
<1>7. due' \in Seq(1..MaxMessages)
  <2>1. Len(sent') \in 1..MaxMessages BY <1>3, <1>4, LenProperties
  <2>2. due \in Seq(1..MaxMessages) /\ (due' = due \/ due' = Append(due, Len(sent')))
    BY DEF Write
  <2>3. Append(due, Len(sent')) \in Seq(1..MaxMessages)
    <3> HIDE DEF TypeInv, TypeOK
    <3> QED BY <2>1, <2>2, AppendProperties
  <2> QED BY <2>2, <2>3
<1> QED BY <1>3, <1>4, <1>6, <1>7 DEF Write

LEMMA HangUpType ==
    ASSUME TypeInv, NEW size \in Sizes, NEW cut \in 0..(size + 1), HangUp(size, cut)
    PROVE  TypeInv'
<1> USE DEF TypeInv, TypeOK
<1>1. /\ Packet(0, "plain", size) \in Seq(Token)
      /\ Len(Packet(0, "plain", size)) >= size + 2
  <2>1. 0 \in 0..MaxMessages /\ "plain" \in AllKinds /\ size \in Nat /\ client.newline \in BOOLEAN
    BY ClientTypes DEF AllKinds
  <2> QED BY <2>1, PacketShape
<1>2. cut \in 0..Len(Packet(0, "plain", size)) BY <1>1, LenProperties
<1>3. SubSeq(Packet(0, "plain", size), 1, cut) \in Seq(Token)
  BY <1>1, <1>2, TakeProperties
<1>4. wire' \in Seq(Token) BY <1>3, ConcatProperties DEF HangUp
<1> QED BY <1>4 DEF HangUp

LEMMA ReceiveType ==
    ASSUME TypeInv, NEW n \in 1..Len(wire), ReceiveLine(n) \/ ReceiveContent(n)
    PROVE  TypeInv' /\ buf' \o wire' = buf \o wire
<1> USE DEF TypeInv, TypeOK
<1>1. /\ buf' = buf \o SubSeq(wire, 1, n) /\ wire' = SubSeq(wire, n + 1, Len(wire))
      /\ UNCHANGED <<clientVars, length, pc, yielded>>
  BY DEF ReceiveLine, ReceiveContent
<1>2. buf' \in Seq(Token) /\ wire' \in Seq(Token) /\ buf' \o wire' = buf \o wire
  <2>1. buf \in Seq(Token) /\ wire \in Seq(Token)
    OBVIOUS
  <2>2. /\ buf \o SubSeq(wire, 1, n) \in Seq(Token)
        /\ SubSeq(wire, n + 1, Len(wire)) \in Seq(Token)
        /\ (buf \o SubSeq(wire, 1, n)) \o SubSeq(wire, n + 1, Len(wire)) = buf \o wire
    <3> HIDE DEF TypeInv, TypeOK
    <3>1. \A b, w \in Seq(Token) : \A k \in 1..Len(w) :
             /\ b \o SubSeq(w, 1, k) \in Seq(Token)
             /\ SubSeq(w, k + 1, Len(w)) \in Seq(Token)
             /\ (b \o SubSeq(w, 1, k)) \o SubSeq(w, k + 1, Len(w)) = b \o w
      BY ReceiveKeeps, Zenon
    <3> QED BY <2>1, <3>1, Zenon
  <2> QED BY <1>1, <2>2
<1> QED BY <1>1, <1>2 DEF clientVars

LEMMA LineType ==
    ASSUME TypeInv, BlankLine \/ SkipLine \/ ReadLength \/ BadLength
    PROVE  TypeInv'
<1> USE DEF TypeInv, TypeOK
<1>1. AtLine /\ ConsumeLine BY DEF BlankLine, SkipLine, ReadLength, BadLength
<1>2. LineEnd \in 1..Len(buf) BY <1>1, LineEndIsFirst DEF AtLine
<1>3. buf' \in Seq(Token)
  <2>1. LineEnd \in 0..Len(buf) BY <1>2
  <2> QED BY <1>1, <2>1, DropProperties DEF ConsumeLine, Drop
<1>4. buf[1] \in Token BY <1>2
<1>5. buf[1].value \in Nat BY <1>4 DEF Token
<1>6. CASE EndOfHeaders BY <1>3, <1>6 DEF EndOfHeaders, clientVars
<1>7. CASE SkipLine BY <1>1, <1>3, <1>7 DEF SkipLine, AtLine, clientVars
<1>8. CASE ReadLength BY <1>1, <1>3, <1>5, <1>8 DEF ReadLength, AtLine, clientVars
<1> QED BY <1>6, <1>7, <1>8 DEF BlankLine, BadLength

LEMMA TakeType ==
    ASSUME TypeInv, TakeContent
    PROVE  TypeInv'
<1> USE DEF TypeInv, TypeOK
<1>1. /\ pc = "content" /\ length \in 1..Len(buf)
      /\ buf' = SubSeq(buf, length + 1, Len(buf))
  BY DEF TakeContent
<1>2. buf' \in Seq(Token)
  <2>1. length \in 0..Len(buf) BY <1>1
  <2> QED BY <1>1, <2>1, DropProperties DEF Drop
<1>3. SubSeq(buf, 1, length)[1] = buf[1] /\ buf[1] \in Token
  <2>1. length \in 0..Len(buf) /\ 1 \in 1..length BY <1>1
  <2> QED BY <1>1, <2>1, TakeProperties
<1>4. buf[1].message \in 0..MaxMessages BY <1>3 DEF Token
<1>5. pc' \in {"message", "failed"} /\ yielded' \in Seq(1..MaxMessages)
  <2>1. CASE Parses(SubSeq(buf, 1, length))
    <3>1. buf[1].message \in 1..MaxMessages
      <4>1. SubSeq(buf, 1, length)[1].message # 0 BY <2>1 DEF Parses
      <4>2. buf[1].message # 0 BY <1>3, <4>1
      <4> HIDE DEF TypeInv, TypeOK
      <4> QED BY <1>4, <4>2
    <3>2. pc' = "message" /\ yielded' = Append(yielded, SubSeq(buf, 1, length)[1].message)
      BY <2>1 DEF TakeContent
    <3>3. yielded' = Append(yielded, buf[1].message) BY <1>3, <3>2
    <3>4. yielded' \in Seq(1..MaxMessages) BY <3>1, <3>3, AppendProperties
    <3> QED BY <3>2, <3>4
  <2>2. CASE ~Parses(SubSeq(buf, 1, length)) BY <2>2 DEF TakeContent
  <2> QED BY <2>1, <2>2
<1> QED BY <1>2, <1>5 DEF TakeContent, clientVars

LEMMA NextTypeInv == TypeInv /\ [Next]_vars => TypeInv'
<1> SUFFICES ASSUME TypeInv, [Next]_vars PROVE TypeInv'
  OBVIOUS
<1>1. CASE Client BY <1>1, WriteType, HangUpType DEF Client
<1>2. CASE Reader
  <2>1. CASE Resume BY <2>1 DEF Resume, TypeInv, TypeOK, clientVars
  <2>2. CASE EndOfInput BY <2>2 DEF EndOfInput, TypeInv, TypeOK, clientVars
  <2> QED BY <1>2, <2>1, <2>2, ReceiveType, LineType, TakeType DEF Reader
<1>3. CASE UNCHANGED vars BY <1>3 DEF vars, clientVars, TypeInv, TypeOK
<1> QED BY <1>1, <1>2, <1>3 DEF Next, Done

\* The generator's variables and the input keep to their types; a text that is
\* parsed has a first token (comms.cpp:27-173).
THEOREM TypeCorrect == Spec => []TypeOK
<1>1. TypeInv => TypeOK BY DEF TypeInv
<1> QED BY <1>1, InitTypeInv, NextTypeInv, PTL DEF Spec

-----------------------------------------------------------------------------
(* Every length in the input stands before the text of its size.           *)

\* The text of a message of n units is next after i; or, when the client is
\* gone, less than n units of it are.
ContentAt(m, over, s, i, n) ==
    \/ \E id \in 1..Len(m) : m[id].size = n /\ TextAt(s, i, n, id)
    \/ over /\ i + n > Len(s)

\* The headers end after i, and such a text follows.
HeadedAt(m, over, s, i, n) ==
    /\ i + 1 <= Len(s) => s[i + 1].kind = "blank"
    /\ ContentAt(m, over, s, i + 1, n)

LengthsHeaded(m, over, s) ==
    \A i \in 1..Len(s) : s[i].kind = "length" /\ s[i].value > 0 =>
        HeadedAt(m, over, s, i, s[i].value)

Input == buf \o wire

Framed ==
    /\ LengthsHeaded(sent, eof, Input)
    /\ pc = "line" /\ length > 0 => HeadedAt(sent, eof, Input, 0, length)
    /\ pc = "content" => ContentAt(sent, eof, Input, 0, length)
    /\ pc # "failed"

OneLengthEach == \A i \in 1..Len(sent) : sent[i].kind # "twice"

FramedInv == TypeInv /\ (OneLengthEach => Framed)

\* t is s without its first k elements: what is after i in t is after i + k in s.
Suffix(t, s, k) == /\ Len(s) = Len(t) + k
                   /\ \A j \in 1..Len(t) : t[j] = s[j + k]

LEMMA TextMoves ==
    ASSUME NEW t, NEW s, NEW k \in Nat, NEW i \in Nat, NEW n \in Nat, NEW id,
           Len(t) \in Nat, Suffix(t, s, k)
    PROVE  TextAt(t, i, n, id) <=> TextAt(s, i + k, n, id)
<1>1. i + n <= Len(t) <=> (i + k) + n <= Len(s) BY DEF Suffix
<1>2. ASSUME i + n <= Len(t), NEW j \in 1..n PROVE t[i + j] = s[(i + k) + j]
  <2>1. i + j \in 1..Len(t) /\ (i + j) + k = (i + k) + j BY <1>2
  <2>2. t[i + j] = s[(i + j) + k] BY <2>1 DEF Suffix
  <2> QED BY <2>1, <2>2
<1> QED BY <1>1, <1>2 DEF TextAt

LEMMA ContentMoves ==
    ASSUME NEW m, NEW over \in BOOLEAN, NEW t, NEW s, NEW k \in Nat, NEW i \in Nat, NEW n \in Nat,
           Len(t) \in Nat, Suffix(t, s, k)
    PROVE  ContentAt(m, over, t, i, n) <=> ContentAt(m, over, s, i + k, n)
<1>1. \A id : TextAt(t, i, n, id) <=> TextAt(s, i + k, n, id) BY TextMoves
<1>2. i + n > Len(t) <=> (i + k) + n > Len(s) BY DEF Suffix
<1> QED BY <1>1, <1>2 DEF ContentAt

LEMMA HeadedMoves ==
    ASSUME NEW m, NEW over \in BOOLEAN, NEW t, NEW s, NEW k \in Nat, NEW i \in Nat, NEW n \in Nat,
           Len(t) \in Nat, Suffix(t, s, k)
    PROVE  HeadedAt(m, over, t, i, n) <=> HeadedAt(m, over, s, i + k, n)
<1>1. ContentAt(m, over, t, i + 1, n) <=> ContentAt(m, over, s, (i + 1) + k, n)
  <2>1. i + 1 \in Nat
    OBVIOUS
  <2> QED BY <2>1, ContentMoves
<1>2. (i + 1) + k = (i + k) + 1
  OBVIOUS
<1>3. i + 1 <= Len(t) <=> (i + k) + 1 <= Len(s) BY DEF Suffix
<1>4. i + 1 <= Len(t) => t[i + 1] = s[(i + k) + 1] BY <1>2 DEF Suffix
<1> QED BY <1>1, <1>2, <1>3, <1>4 DEF HeadedAt

LEMMA LengthsMove ==
    ASSUME NEW m, NEW over \in BOOLEAN, NEW t \in Seq(Token), NEW s \in Seq(Token), NEW k \in Nat,
           Suffix(t, s, k), LengthsHeaded(m, over, s)
    PROVE  LengthsHeaded(m, over, t)
<1> SUFFICES ASSUME NEW i \in 1..Len(t), t[i].kind = "length", t[i].value > 0
             PROVE  HeadedAt(m, over, t, i, t[i].value)
  BY DEF LengthsHeaded
<1>1. t[i] \in Token /\ i \in Nat /\ Len(t) \in Nat
  OBVIOUS
<1>4. t[i].value \in Nat BY <1>1 DEF Token
<1>2. i + k \in 1..Len(s) /\ s[i + k] = t[i] BY DEF Suffix
<1>3. HeadedAt(m, over, s, i + k, t[i].value) BY <1>2 DEF LengthsHeaded
<1> QED BY <1>1, <1>3, <1>4, HeadedMoves

\* Further messages, and further input, leave a text that is there where it is.
LEMMA ContentStays ==
    ASSUME NEW m, NEW m2, NEW over \in BOOLEAN, NEW s \in Seq(Token), NEW p \in Seq(Token),
           NEW i \in Nat, NEW n \in Nat,
           Len(m) \in Nat, Len(m2) \in Nat, Len(m) <= Len(m2),
           \A id \in 1..Len(m) : m2[id] = m[id]
    PROVE  /\ ContentAt(m, FALSE, s, i, n) => ContentAt(m2, over, s \o p, i, n)
           /\ HeadedAt(m, FALSE, s, i, n) => HeadedAt(m2, over, s \o p, i, n)
<1>1. /\ Len(s \o p) = Len(s) + Len(p)
      /\ \A j \in 1..Len(s) : (s \o p)[j] = s[j]
  BY ConcatProperties
<1>2. ASSUME NEW h \in Nat, ContentAt(m, FALSE, s, h, n)
      PROVE  ContentAt(m2, over, s \o p, h, n) /\ h <= Len(s)
  <2>1. PICK id \in 1..Len(m) : m[id].size = n /\ TextAt(s, h, n, id)
    BY <1>2 DEF ContentAt
  <2>2. h + n <= Len(s) /\ \A j \in 1..n : h + j \in 1..Len(s) BY <2>1 DEF TextAt
  <2>3. TextAt(s \o p, h, n, id) BY <1>1, <2>1, <2>2 DEF TextAt
  <2>4. id \in 1..Len(m2) /\ m2[id].size = n BY <2>1
  <2> QED BY <2>2, <2>3, <2>4 DEF ContentAt
<1>3. ASSUME HeadedAt(m, FALSE, s, i, n) PROVE HeadedAt(m2, over, s \o p, i, n)
  <2>1. ContentAt(m2, over, s \o p, i + 1, n) /\ i + 1 <= Len(s)
    <3>1. i + 1 \in Nat
      OBVIOUS
    <3>2. ContentAt(m, FALSE, s, i + 1, n) BY <1>3 DEF HeadedAt
    <3> QED BY <1>2, <3>1, <3>2
  <2>2. (s \o p)[i + 1].kind = "blank" BY <1>1, <1>3, <2>1 DEF HeadedAt
  <2> QED BY <2>1, <2>2 DEF HeadedAt
<1> QED BY <1>2, <1>3

LEMMA LengthsAppend ==
    ASSUME NEW m, NEW m2, NEW over \in BOOLEAN, NEW s \in Seq(Token), NEW p \in Seq(Token),
           Len(m) \in Nat, Len(m2) \in Nat, Len(m) <= Len(m2),
           \A id \in 1..Len(m) : m2[id] = m[id],
           LengthsHeaded(m, FALSE, s), LengthsHeaded(m2, over, p)
    PROVE  LengthsHeaded(m2, over, s \o p)
<1> DEFINE q == s \o p
<1>1. /\ q \in Seq(Token) /\ Len(q) = Len(s) + Len(p)
      /\ \A j \in 1..(Len(s) + Len(p)) : q[j] = IF j <= Len(s) THEN s[j] ELSE p[j - Len(s)]
  BY ConcatProperties
<1> HIDE DEF q
<1>2. Suffix(p, q, Len(s))
  <2>1. \A j \in 1..Len(p) : /\ j + Len(s) \in 1..(Len(s) + Len(p)) /\ ~(j + Len(s) <= Len(s))
                             /\ (j + Len(s)) - Len(s) = j
    OBVIOUS
  <2>2. \A j \in 1..Len(p) : p[j] = q[j + Len(s)] BY <1>1, <2>1
  <2> QED BY <1>1, <2>2 DEF Suffix
<1> SUFFICES ASSUME NEW i \in 1..Len(q), q[i].kind = "length", q[i].value > 0
             PROVE  HeadedAt(m2, over, q, i, q[i].value)
  BY DEF LengthsHeaded, q
<1>3. q[i].value \in Nat
  <2>1. q[i] \in Token BY <1>1
  <2> QED BY <2>1 DEF Token
<1>4. CASE i <= Len(s)
  <2>1. q[i] = s[i] /\ i \in 1..Len(s) BY <1>1, <1>4
  <2>2. HeadedAt(m, FALSE, s, i, q[i].value) BY <2>1 DEF LengthsHeaded
  <2>3. HeadedAt(m2, over, s \o p, i, q[i].value)
    <3>1. i \in Nat BY <2>1
    <3> QED BY <1>3, <2>2, <3>1, ContentStays
  <2> QED BY <2>3 DEF q
<1>5. CASE i > Len(s)
  <2> DEFINE j == i - Len(s)
  <2>1. j \in 1..Len(p) /\ q[i] = p[j] /\ i = j + Len(s) BY <1>1, <1>5
  <2>2. HeadedAt(m2, over, p, j, q[i].value) BY <2>1 DEF LengthsHeaded
  <2>3. j \in Nat /\ Len(p) \in Nat /\ Len(s) \in Nat BY <2>1
  <2>4. HeadedAt(m2, over, q, j + Len(s), q[i].value)
    <3> HIDE DEF j
    <3> QED BY <1>2, <1>3, <2>2, <2>3, HeadedMoves
  <2> QED BY <2>1, <2>4
<1> QED BY <1>4, <1>5

-----------------------------------------------------------------------------
(* The steps.                                                              *)

LEMMA InitFramedInv == Init => FramedInv
<1> SUFFICES ASSUME Init PROVE Framed
  BY InitTypeInv DEF FramedInv
<1>1. Input = <<>> /\ Len(Input) = 0 BY DEF Init, Input
<1>2. LengthsHeaded(sent, eof, Input) BY <1>1 DEF LengthsHeaded
<1> QED BY <1>2 DEF Init, Framed

\* More input leaves what is framed as it is.
LEMMA FramedGrows ==
    ASSUME TypeInv, Framed, ~eof, NEW p \in Seq(Token), Input' = Input \o p,
           UNCHANGED <<length, pc>>, eof' \in BOOLEAN,
           Len(sent') \in Nat, Len(sent) <= Len(sent'),
           \A id \in 1..Len(sent) : sent'[id] = sent[id],
           LengthsHeaded(sent', eof', p)
    PROVE  Framed'
<1>1. /\ Input \in Seq(Token) /\ length \in Nat /\ 0 \in Nat /\ eof = FALSE /\ Len(sent) \in Nat
  <2>1. buf \in Seq(Token) /\ wire \in Seq(Token) BY DEF TypeInv, TypeOK
  <2> QED BY <2>1, ConcatProperties DEF TypeInv, TypeOK, Input
<1>2. LengthsHeaded(sent, FALSE, Input) BY <1>1 DEF Framed
<1>3. LengthsHeaded(sent', eof', Input') BY <1>1, <1>2, LengthsAppend
<1>4. /\ ContentAt(sent, FALSE, Input, 0, length) => ContentAt(sent', eof', Input', 0, length)
      /\ HeadedAt(sent, FALSE, Input, 0, length) => HeadedAt(sent', eof', Input', 0, length)
  BY <1>1, ContentStays
<1> QED BY <1>1, <1>3, <1>4 DEF Framed

LEMMA WriteFramed ==
    ASSUME FramedInv, NEW kind \in client.kinds, NEW size \in Sizes, Write(kind, size),
           OneLengthEach'
    PROVE  Framed'
<1>1. TypeInv BY DEF FramedInv
<1> DEFINE r == [kind |-> kind, size |-> size]
           p == Packet(Len(sent'), kind, size)
<1>2. /\ sent \in Seq([kind : client.kinds, size : Sizes]) /\ r \in [kind : client.kinds, size : Sizes]
      /\ buf \in Seq(Token) /\ wire \in Seq(Token)
  BY <1>1 DEF TypeInv, TypeOK
<1>3. /\ Len(sent') = Len(sent) + 1 /\ sent'[Len(sent')] = r
      /\ \A id \in 1..Len(sent) : sent'[id] = sent[id]
  <2>1. sent' = Append(sent, r) BY DEF Write
  <2> HIDE DEF r
  <2> QED BY <1>2, <2>1, AppendProperties
<1>4. Len(sent) \in Nat /\ Len(sent') \in 1..MaxMessages /\ Len(sent') \in 0..MaxMessages
  <2>1. Len(sent) < client.most /\ client.most \in 0..MaxMessages
    BY <1>1, ClientTypes DEF Write, TypeInv
  <2>2. Len(sent) \in Nat BY <1>2, LenProperties
  <2> QED BY <1>3, <2>1, <2>2
<1>5. kind \in AllKinds /\ size \in Nat /\ client.newline \in BOOLEAN
  BY <1>1, ClientTypes DEF TypeInv
<1>6. /\ p \in Seq(Token)
      /\ kind # "twice" => \A i \in 1..Len(p) : p[i].kind = "length" /\ p[i].value > 0 =>
            /\ p[i].value = size
            /\ p[i + 1].kind = "blank"
            /\ TextAt(p, i + 1, size, Len(sent'))
  <2> DEFINE n == Len(sent')
  <2>1. n \in 0..MaxMessages BY <1>4
  <2> HIDE DEF n
  <2>2. LET w == Packet(n, kind, size)
        IN  /\ w \in Seq(Token)
            /\ kind # "twice" => \A i \in 1..Len(w) : w[i].kind = "length" /\ w[i].value > 0 =>
                  /\ w[i].value = size
                  /\ w[i + 1].kind = "blank"
                  /\ TextAt(w, i + 1, size, n)
    BY <1>5, <2>1, PacketShape
  <2> QED BY <2>2 DEF n
<1>7. OneLengthEach /\ kind # "twice"
  <2>1. \A i \in 1..Len(sent') : sent'[i].kind # "twice" BY DEF OneLengthEach
  <2>2. sent'[Len(sent')].kind = kind BY <1>3
  <2>3. \A i \in 1..Len(sent) : i \in 1..Len(sent') BY <1>3, <1>4
  <2> QED BY <1>3, <1>4, <2>1, <2>2, <2>3 DEF OneLengthEach
<1> HIDE DEF r, p
<1>8. LengthsHeaded(sent', eof', p)
  <2> SUFFICES ASSUME NEW i \in 1..Len(p), p[i].kind = "length", p[i].value > 0
               PROVE  HeadedAt(sent', eof', p, i, p[i].value)
    BY DEF LengthsHeaded
  <2>1. /\ p[i].value = size /\ p[i + 1].kind = "blank"
        /\ TextAt(p, i + 1, p[i].value, Len(sent'))
    BY <1>6, <1>7
  <2>2. sent'[Len(sent')].size = size BY <1>3 DEF r
  <2>3. Len(sent') \in 1..Len(sent') BY <1>4
  <2>4. ContentAt(sent', eof', p, i + 1, p[i].value) BY <2>1, <2>2, <2>3 DEF ContentAt
  <2> QED BY <2>1, <2>4 DEF HeadedAt
<1>9. /\ ~eof /\ UNCHANGED <<length, pc>> /\ eof' \in BOOLEAN
      /\ wire' = wire \o p /\ buf' = buf
  <2>1. eof \in BOOLEAN BY <1>1 DEF TypeInv, TypeOK
  <2> QED BY <2>1 DEF Write, p
<1>10. Input' = Input \o p
  <2>1. buf \o (wire \o p) = (buf \o wire) \o p
    BY <1>2, <1>6, TokensAssociative
  <2> QED BY <1>9, <2>1 DEF Input
<1>11. Framed BY <1>7 DEF FramedInv
<1>12. Len(sent') \in Nat /\ Len(sent) <= Len(sent') BY <1>3, <1>4
<1> QED BY <1>1, <1>3, <1>6, <1>8, <1>9, <1>10, <1>11, <1>12, FramedGrows

LEMMA HangUpFramed ==
    ASSUME FramedInv, OneLengthEach, NEW size \in Sizes, NEW cut \in 0..(size + 1),
           HangUp(size, cut)
    PROVE  Framed'
<1>1. TypeInv /\ Framed BY DEF FramedInv
<1> DEFINE w == Packet(0, "plain", size)
           p == SubSeq(w, 1, cut)
<1>2. buf \in Seq(Token) /\ wire \in Seq(Token) /\ Len(sent) \in Nat
  BY <1>1 DEF TypeInv, TypeOK
<1>3. 0 \in 0..MaxMessages /\ "plain" \in AllKinds /\ size \in Nat /\ client.newline \in BOOLEAN
  BY <1>1, ClientTypes DEF AllKinds, TypeInv
<1>4. /\ w \in Seq(Token) /\ Len(w) >= size + 2
      /\ \A i \in 1..Len(w) : w[i].kind = "length" /\ w[i].value > 0 =>
            i = 1 /\ w[i].value = size /\ w[i + 1].kind = "blank"
  BY <1>3, PacketShape
<1> HIDE DEF w
<1>5. cut \in 0..Len(w) BY <1>3, <1>4
<1>6. p \in Seq(Token) /\ Len(p) = cut /\ \A i \in 1..cut : p[i] = w[i]
  BY <1>4, <1>5, TakeProperties
<1> HIDE DEF p
<1>7. LengthsHeaded(sent, TRUE, p)
  <2> SUFFICES ASSUME NEW i \in 1..Len(p), p[i].kind = "length", p[i].value > 0
               PROVE  HeadedAt(sent, TRUE, p, i, p[i].value)
    BY DEF LengthsHeaded
  <2>1. i = 1 /\ p[i].value = size /\ w[i + 1].kind = "blank"
    <3>1. i \in 1..Len(w) /\ p[i] = w[i] BY <1>5, <1>6
    <3> QED BY <1>4, <3>1
  <2>2. i + 1 <= Len(p) => p[i + 1].kind = "blank" BY <1>6, <2>1
  <2>3. (i + 1) + p[i].value > Len(p) BY <1>3, <1>6, <2>1
  <2>4. ContentAt(sent, TRUE, p, i + 1, p[i].value) BY <2>3 DEF ContentAt
  <2> QED BY <2>2, <2>4 DEF HeadedAt
<1>8. /\ ~eof /\ eof' = TRUE /\ UNCHANGED <<sent, length, pc>>
      /\ wire' = wire \o p /\ buf' = buf
  BY DEF HangUp, p, w
<1>9. Input' = Input \o p
  <2> HIDE DEF p
  <2>1. buf \o (wire \o p) = (buf \o wire) \o p BY <1>2, <1>6, TokensAssociative
  <2> QED BY <1>8, <2>1 DEF Input
<1>10. /\ LengthsHeaded(sent', eof', p) /\ eof' \in BOOLEAN
       /\ Len(sent') \in Nat /\ Len(sent) <= Len(sent')
       /\ \A id \in 1..Len(sent) : sent'[id] = sent[id]
  <2>1. LengthsHeaded(sent', eof', p) BY <1>7, <1>8, Zenon
  <2> QED BY <1>2, <1>8, <2>1
<1> QED BY <1>1, <1>6, <1>8, <1>9, <1>10, FramedGrows

\* What is taken off the front of the buffer.
LEMMA InputMoves ==
    ASSUME TypeInv, NEW k \in 0..Len(buf), buf' = SubSeq(buf, k + 1, Len(buf)), wire' = wire
    PROVE  /\ Input \in Seq(Token) /\ Input' \in Seq(Token)
           /\ Suffix(Input', Input, k)
           /\ Len(Input) = Len(buf) + Len(wire)
           /\ \A i \in 1..Len(buf) : Input[i] = buf[i]
<1>1. buf \in Seq(Token) /\ wire \in Seq(Token) BY DEF TypeInv, TypeOK
<1>2. buf' = Drop(buf, k) BY DEF Drop
<1>3. /\ Drop(buf, k) \o wire \in Seq(Token)
      /\ Len(Drop(buf, k) \o wire) = Len(buf \o wire) - k
      /\ \A i \in 1..Len(Drop(buf, k) \o wire) : (Drop(buf, k) \o wire)[i] = (buf \o wire)[i + k]
  <2>1. \A b, w \in Seq(Token) : \A n \in 0..Len(b) :
           /\ Drop(b, n) \o w \in Seq(Token)
           /\ Len(Drop(b, n) \o w) = Len(b \o w) - n
           /\ \A i \in 1..Len(Drop(b, n) \o w) : (Drop(b, n) \o w)[i] = (b \o w)[i + n]
    <3> SUFFICES ASSUME NEW b \in Seq(Token), NEW w \in Seq(Token), NEW n \in 0..Len(b)
                 PROVE  /\ Drop(b, n) \o w \in Seq(Token)
                        /\ Len(Drop(b, n) \o w) = Len(b \o w) - n
                        /\ \A i \in 1..Len(Drop(b, n) \o w) :
                              (Drop(b, n) \o w)[i] = (b \o w)[i + n]
      OBVIOUS
    <3> QED BY ConsumeShifts
  <2> QED BY <1>1, <2>1, Zenon
<1>4. /\ Input \in Seq(Token) /\ Len(Input) = Len(buf) + Len(wire)
      /\ \A i \in 1..Len(buf) : Input[i] = buf[i]
  BY <1>1, ConcatProperties DEF Input
<1>5. Input' = Drop(buf, k) \o wire BY <1>2 DEF Input
<1>6. Len(Input') \in Nat /\ Len(Input) \in Nat BY <1>3, <1>4, <1>5, LenProperties
<1>7. Suffix(Input', Input, k)
  <2>1. Len(Input') = Len(Input) - k BY <1>3, <1>5 DEF Input
  <2>2. Len(Input) = Len(Input') + k BY <1>6, <2>1
  <2>3. \A i \in 1..Len(Input') : Input'[i] = Input[i + k] BY <1>3, <1>5 DEF Input
  <2> QED BY <2>2, <2>3 DEF Suffix
<1> QED BY <1>3, <1>4, <1>5, <1>7

LEMMA LineFramed ==
    ASSUME FramedInv, OneLengthEach, BlankLine \/ SkipLine \/ ReadLength \/ BadLength
    PROVE  Framed'
<1>1. TypeInv /\ Framed BY DEF FramedInv
<1>2. buf \in Seq(Token) /\ length \in Nat /\ eof \in BOOLEAN BY <1>1 DEF TypeInv, TypeOK
<1>3. /\ AtLine /\ ConsumeLine /\ pc = "line" /\ HasLine /\ wire' = wire
      /\ sent' = sent /\ eof' = eof
  BY DEF BlankLine, SkipLine, ReadLength, BadLength, EndOfHeaders, AtLine, clientVars
<1>4. /\ LineEnd \in 1..Len(buf)
      /\ \A j \in 1..(LineEnd - 1) : buf[j].kind = "text"
  BY <1>2, <1>3, LineEndIsFirst
<1> DEFINE k == LineEnd
<1>5. k \in 1..Len(buf) /\ k \in 0..Len(buf) /\ k \in Nat /\ buf' = SubSeq(buf, k + 1, Len(buf))
  BY <1>3, <1>4 DEF ConsumeLine
<1>6. k # 1 => buf[1].kind = "text" BY <1>4
<1>7. LineKind = IF k = 1 THEN buf[1].kind ELSE "other" BY DEF LineKind
<1> HIDE DEF k
<1>8. /\ Input \in Seq(Token) /\ Input' \in Seq(Token) /\ Suffix(Input', Input, k)
      /\ Len(Input) >= Len(buf) /\ Input[1] = buf[1] /\ 1 \in 1..Len(Input)
  <2>1. /\ Input \in Seq(Token) /\ Input' \in Seq(Token) /\ Suffix(Input', Input, k)
        /\ Len(Input) = Len(buf) + Len(wire)
        /\ \A i \in 1..Len(buf) : Input[i] = buf[i]
    BY <1>1, <1>3, <1>5, InputMoves
  <2>2. Len(wire) \in Nat /\ Len(buf) \in Nat BY <1>1, LenProperties DEF TypeInv, TypeOK
  <2> QED BY <1>5, <2>1, <2>2
<1>9. Len(Input') \in Nat /\ 0 \in Nat BY <1>8, LenProperties
<1>10. LengthsHeaded(sent', eof', Input')
  BY <1>1, <1>2, <1>3, <1>5, <1>8, LengthsMove DEF Framed
\* Once the length is known the next line is the end of the headers.
<1>11. length > 0 => buf[1].kind = "blank" /\ ContentAt(sent, eof, Input, 1, length)
  BY <1>1, <1>3, <1>8 DEF Framed, HeadedAt
<1>12. ASSUME EndOfHeaders, length > 0, k = 1 PROVE ContentAt(sent', eof', Input', 0, length')
  <2>1. length' = length BY <1>12 DEF EndOfHeaders
  <2>2. ContentAt(sent, eof, Input', 0, length) <=> ContentAt(sent, eof, Input, 0 + k, length)
    BY <1>2, <1>5, <1>8, <1>9, ContentMoves
  <2> QED BY <1>3, <1>11, <1>12, <2>1, <2>2
<1>13. CASE length = 0 /\ EndOfHeaders
  <2>1. pc' = "line" /\ length' = 0 BY <1>13 DEF EndOfHeaders
  <2> QED BY <1>10, <2>1 DEF Framed
<1>14. CASE BlankLine /\ length > 0
  <2>1. EndOfHeaders BY <1>14 DEF BlankLine
  <2>2. k = 1 BY <1>7, <1>14 DEF BlankLine
  <2>3. pc' = "content" BY <1>14, <2>1 DEF EndOfHeaders
  <2> QED BY <1>10, <1>12, <1>14, <2>1, <2>2, <2>3 DEF Framed
<1>15. CASE BadLength /\ length > 0
  BY <1>6, <1>7, <1>11, <1>15 DEF BadLength
<1>16. CASE SkipLine
  <2>1. length = 0 BY <1>2, <1>6, <1>7, <1>11, <1>16 DEF SkipLine
  <2>2. pc' = "line" /\ length' = 0 BY <1>3, <1>16, <2>1 DEF SkipLine
  <2> QED BY <1>10, <2>2 DEF Framed
<1>17. CASE ReadLength
  <2>1. k = 1 /\ buf[1].kind = "length" BY <1>7, <1>17 DEF ReadLength
  <2>2. pc' = "line" /\ length' = buf[1].value BY <1>3, <1>17 DEF ReadLength
  <2>3. buf[1].value \in Nat
    <3>1. buf[1] \in Token BY <1>2, <1>5, <2>1
    <3> QED BY <3>1 DEF Token
  <2>4. buf[1].value > 0 => HeadedAt(sent, eof, Input, 0 + k, buf[1].value)
    BY <1>1, <1>8, <2>1 DEF Framed, LengthsHeaded
  <2>5. HeadedAt(sent, eof, Input', 0, buf[1].value)
        <=> HeadedAt(sent, eof, Input, 0 + k, buf[1].value)
    <3> DEFINE v == buf[1].value
    <3>1. v \in Nat BY <2>3
    <3> HIDE DEF v
    <3>2. HeadedAt(sent, eof, Input', 0, v) <=> HeadedAt(sent, eof, Input, 0 + k, v)
      BY <1>2, <1>5, <1>8, <1>9, <3>1, HeadedMoves
    <3> QED BY <3>2 DEF v
  <2> QED BY <1>3, <1>10, <2>2, <2>4, <2>5 DEF Framed
<1>18. length = 0 \/ length > 0 BY <1>2
<1> QED BY <1>13, <1>14, <1>15, <1>16, <1>17, <1>18 DEF BlankLine, BadLength

LEMMA TakeFramed ==
    ASSUME FramedInv, OneLengthEach, TakeContent
    PROVE  Framed'
<1>1. TypeInv /\ Framed BY DEF FramedInv
<1>2. /\ buf \in Seq(Token) /\ wire \in Seq(Token) /\ length \in Nat /\ eof \in BOOLEAN
      /\ pc = "content" /\ length > 0 /\ length \in 0..Len(buf)
  BY <1>1 DEF TypeInv, TypeOK, TakeContent
<1>3. buf' = SubSeq(buf, length + 1, Len(buf)) /\ wire' = wire /\ sent' = sent /\ eof' = eof
  BY DEF TakeContent, clientVars
<1>4. /\ Input \in Seq(Token) /\ Input' \in Seq(Token) /\ Suffix(Input', Input, length)
      /\ Len(Input) = Len(buf) + Len(wire)
      /\ \A i \in 1..Len(buf) : Input[i] = buf[i]
  BY <1>1, <1>2, <1>3, InputMoves
<1>5. LengthsHeaded(sent', eof', Input')
  BY <1>1, <1>2, <1>3, <1>4, LengthsMove DEF Framed
<1> DEFINE content == SubSeq(buf, 1, length)
<1>6. /\ content \in Seq(Token) /\ Len(content) = length
      /\ \A i \in 1..length : content[i] = buf[i]
  BY <1>2, TakeProperties
<1>7. ContentAt(sent, eof, Input, 0, length) BY <1>1, <1>2 DEF Framed
<1>8. ~(0 + length > Len(Input)) BY <1>2, <1>4
<1>9. PICK id \in 1..Len(sent) : sent[id].size = length /\ TextAt(Input, 0, length, id)
  BY <1>7, <1>8 DEF ContentAt
<1>10. \A i \in 1..length : content[i] = [kind |-> "text", value |-> i, message |-> id]
  BY <1>2, <1>4, <1>6, <1>9 DEF TextAt
<1> HIDE DEF content
<1>11. content[1].message = id /\ id # 0
  <2>1. 1 \in 1..length BY <1>2
  <2>2. content[1] = [kind |-> "text", value |-> 1, message |-> id] BY <1>10, <2>1
  <2> QED BY <1>9, <2>2
<1>12. content = Text(id, length)
  <2>1. id \in 0..MaxMessages BY <1>1, <1>9 DEF TypeInv, TypeOK
  <2>2. /\ Text(id, length) \in Seq(Token) /\ Len(Text(id, length)) = length
        /\ \A i \in 1..length : Text(id, length)[i] = [kind |-> "text", value |-> i, message |-> id]
    BY <1>2, <2>1, TextType
  <2> QED BY <1>6, <1>10, <2>2, SeqEqual
<1>13. Parses(content) BY <1>9, <1>11, <1>12 DEF Parses
<1>14. pc' = "message" BY <1>13 DEF TakeContent, content
<1> QED BY <1>5, <1>14 DEF Framed

LEMMA NextFramedInv == FramedInv /\ [Next]_vars => FramedInv'
<1> SUFFICES ASSUME FramedInv, [Next]_vars, OneLengthEach' PROVE Framed'
  BY NextTypeInv DEF FramedInv
<1>1. TypeInv BY DEF FramedInv
<1>2. ASSUME sent' = sent PROVE OneLengthEach /\ Framed BY <1>2 DEF OneLengthEach, FramedInv
<1>3. CASE Client
  <2>1. ASSUME NEW size \in Sizes, NEW kind \in client.kinds, Write(kind, size) PROVE Framed'
    BY <2>1, WriteFramed
  <2>2. ASSUME NEW size \in Sizes, NEW cut \in 0..(size + 1), HangUp(size, cut) PROVE Framed'
    <3>1. OneLengthEach BY <1>2, <2>2 DEF HangUp
    <3> QED BY <2>2, <3>1, HangUpFramed
  <2> QED BY <1>3, <2>1, <2>2 DEF Client
<1>4. CASE Reader
  <2>1. sent' = sent
    BY <1>4 DEF Reader, ReceiveLine, ReceiveContent, BlankLine, SkipLine, ReadLength, BadLength,
                EndOfHeaders, TakeContent, Resume, EndOfInput, clientVars
  <2>2. OneLengthEach /\ Framed BY <1>2, <2>1
  <2>3. ASSUME NEW n \in 1..Len(wire), ReceiveLine(n) \/ ReceiveContent(n) PROVE Framed'
    <3>1. Input' = Input BY <1>1, <2>3, ReceiveType DEF Input
    <3>2. UNCHANGED <<sent, eof, length, pc>>
      BY <2>3 DEF ReceiveLine, ReceiveContent, clientVars
    <3> QED BY <2>2, <3>1, <3>2 DEF Framed
  <2>4. CASE Resume \/ EndOfInput
    <3>1. Input' = Input /\ sent' = sent /\ eof' = eof
      BY <2>4 DEF Resume, EndOfInput, clientVars, Input
    <3>2. pc' = "closed" \/ (pc' = "line" /\ length' = 0) BY <2>4 DEF Resume, EndOfInput
    <3> QED BY <2>2, <3>1, <3>2 DEF Framed
  <2> QED BY <1>4, <2>2, <2>3, <2>4, LineFramed, TakeFramed DEF Reader
<1>5. CASE UNCHANGED vars
  <2>1. UNCHANGED <<sent, eof, length, pc>> /\ Input' = Input
    BY <1>5 DEF vars, clientVars, Input
  <2> QED BY <1>2, <2>1 DEF Framed
<1> QED BY <1>3, <1>4, <1>5 DEF Next, Done

\* A Content-Length that is no number never makes json::parse see what is not
\* the text of a message, whatever the chunks; only an earlier length in the same
\* headers does (comms.cpp:117-142).
THEOREM BadLengthsAreSurvived == Spec => []BadLengthIsSurvived
<1>1. FramedInv => BadLengthIsSurvived
  BY DEF FramedInv, Framed, OneLengthEach, BadLengthIsSurvived
<1> QED BY <1>1, InitFramedInv, NextFramedInv, PTL DEF Spec

-----------------------------------------------------------------------------
(* The messages of a client that keeps to the protocol.                    *)

HeaderLines(kind) == IF kind = "typed" THEN 2 ELSE 1

LEMMA LegalShape ==
    ASSUME NEW id \in 0..MaxMessages, NEW kind \in LegalKinds, NEW size \in Nat \ {0},
           ~client.newline
    PROVE  LET p == Packet(id, kind, size)
               h == HeaderLines(kind)
           IN  /\ p \in Seq(Token)
               /\ Len(p) = h + 1 + (IF kind = "empty" THEN 0 ELSE size)
               /\ kind = "typed" => p[1].kind = "other"
               /\ p[h].kind = "length"
               /\ p[h].value = IF kind = "empty" THEN 0 ELSE size
               /\ p[h + 1].kind = "blank"
               /\ kind # "empty" => p[h + 2].message = id
<1> DEFINE a == Headers(kind, size)
           b == Line("blank")
           t == IF kind = "empty" THEN <<>> ELSE Text(id, size)
           e == IF client.newline THEN <<b>> ELSE <<>>
           p == Packet(id, kind, size)
           h == HeaderLines(kind)
<1>1. kind \in AllKinds /\ size \in Nat BY DEF AllKinds, LegalKinds
<1>2. a \in Seq(Token) BY <1>1, HeadersType
<1>3. /\ Len(a) = h /\ h \in 1..2
      /\ kind = "typed" => a[1].kind = "other"
      /\ a[h].kind = "length" /\ a[h].value = IF kind = "empty" THEN 0 ELSE size
  <2>1. CASE kind = "plain" BY <2>1 DEF Headers, HeaderLines, LengthLine
  <2>2. CASE kind = "typed" BY <2>2 DEF Headers, HeaderLines, LengthLine, Line
  <2>3. CASE kind = "empty" BY <2>3 DEF Headers, HeaderLines, LengthLine
  <2> QED BY <2>1, <2>2, <2>3 DEF LegalKinds
<1>4. b \in Token /\ b.kind = "blank" BY DEF Line, Token, TokenKinds
<1>5. /\ t \in Seq(Token) /\ Len(t) = IF kind = "empty" THEN 0 ELSE size
      /\ kind # "empty" => t[1].message = id
  <2>1. CASE kind = "empty" BY <2>1, EmptySeq
  <2>2. CASE kind # "empty"
    <3>1. /\ Text(id, size) \in Seq(Token) /\ Len(Text(id, size)) = size
          /\ \A i \in 1..size : Text(id, size)[i] = [kind |-> "text", value |-> i, message |-> id]
      BY <1>1, TextType
    <3>2. Text(id, size)[1] = [kind |-> "text", value |-> 1, message |-> id] BY <3>1
    <3> QED BY <2>2, <3>1, <3>2
  <2> QED BY <2>1, <2>2
<1>6. p = a \o <<b>> \o t \o e BY DEF Packet
<1>7. e \in Seq(Token) /\ Len(e) = 0 BY EmptySeq
<1> HIDE DEF a, b, t, e, p, h
<1>8. LET q == a \o <<b>> \o t \o e
      IN  /\ q \in Seq(Token) /\ Len(q) = Len(a) + 1 + Len(t) + Len(e)
          /\ \A i \in 1..Len(a) : q[i] = a[i]
          /\ q[Len(a) + 1] = b
          /\ \A i \in 1..Len(t) : q[Len(a) + 1 + i] = t[i]
  <2>1. a \in Seq(Token) /\ b \in Token /\ t \in Seq(Token) /\ e \in Seq(Token)
    BY <1>2, <1>4, <1>5, <1>7
  <2> QED BY <2>1, FourParts
<1>9. /\ p \in Seq(Token) /\ Len(p) = Len(a) + 1 + Len(t) + 0
      /\ \A i \in 1..Len(a) : p[i] = a[i]
      /\ p[Len(a) + 1] = b
      /\ \A i \in 1..Len(t) : p[Len(a) + 1 + i] = t[i]
  BY <1>6, <1>7, <1>8
<1>10. Len(p) = h + 1 + (IF kind = "empty" THEN 0 ELSE size) BY <1>3, <1>5, <1>9
<1>11. /\ kind = "typed" => p[1].kind = "other"
       /\ p[h].kind = "length" /\ p[h].value = IF kind = "empty" THEN 0 ELSE size
       /\ p[h + 1].kind = "blank"
  BY <1>3, <1>4, <1>9
<1>12. kind # "empty" => p[h + 2].message = id
  <2>1. kind # "empty" => 1 \in 1..Len(t) BY <1>5
  <2>2. h + 1 + 1 = h + 2 BY <1>3
  <2> QED BY <1>3, <1>5, <1>9, <2>1, <2>2
<1> QED BY <1>9, <1>10, <1>11, <1>12 DEF p, h

\* Packet j of the client.  The one behind all that are sent is the one it is
\* cut off in, of s units.
KindOf(j) == IF j \in 1..Len(sent) THEN sent[j].kind ELSE "plain"
SizeOf(j, s) == IF j \in 1..Len(sent) THEN sent[j].size ELSE s
PacketOf(j, s) == Packet(IF j \in 1..Len(sent) THEN j ELSE 0, KindOf(j), SizeOf(j, s))

Packets == 1..(Len(sent) + 1)

\* The input consists of packets; p[j] is where packet j begins, negative or 0 if
\* it has been consumed up to there.
Placed(p, s) ==
    /\ \A i, j \in Packets : i <= j => p[i] <= p[j]
    /\ \A j \in 1..Len(sent) : p[j + 1] = p[j] + Len(PacketOf(j, s))
    /\ \A j \in Packets : \A k \in 1..Len(PacketOf(j, s)) :
          p[j] + k \in 1..Len(Input) => Input[p[j] + k] = PacketOf(j, s)[k]
    /\ IF eof THEN Len(Input) <= p[Len(sent) + 1] + s + 1
       ELSE Len(Input) = p[Len(sent) + 1]

\* How much of packet id the generator has consumed.
ReaderAt(id, p, s) ==
    /\ pc = "line" /\ length = 0 =>
          p[id] = 0 \/ (id <= Len(sent) /\ KindOf(id) # "plain" /\ p[id] = -1)
    /\ pc = "line" /\ length > 0 =>
          KindOf(id) # "empty" /\ length = SizeOf(id, s) /\ p[id] = -HeaderLines(KindOf(id))
    /\ pc = "content" =>
          KindOf(id) # "empty" /\ length = SizeOf(id, s) /\ p[id] = -(HeaderLines(KindOf(id)) + 1)
    /\ pc = "message" => p[id] = 0

\* What is due of the packets before id has been yielded, and no more.
YieldedUpTo(id) ==
    \A i \in 1..Len(due) : IF i <= Len(yielded) THEN due[i] < id ELSE due[i] >= id

DueListed ==
    /\ \A i \in 1..Len(due) : due[i] \in 1..Len(sent) /\ sent[due[i]].kind # "empty"
    /\ \A i, j \in 1..Len(due) : i < j => due[i] < due[j]
    /\ \A j \in 1..Len(sent) : sent[j].kind # "empty" => \E i \in 1..Len(due) : due[i] = j

Running == pc \in {"line", "content", "message"}

InStep == Running => \E id \in Packets, s \in Nat \ {0}, p \in [Packets -> Int] :
                        Placed(p, s) /\ ReaderAt(id, p, s) /\ YieldedUpTo(id)

Delivering == DueListed /\ Len(yielded) <= Len(due) /\ InStep

DeliveryInv == FramedInv /\ (Legal => Delivering)

LEMMA PacketOfShape ==
    ASSUME TypeInv, Legal, NEW j \in Packets, NEW s \in Nat \ {0}
    PROVE  LET h == HeaderLines(KindOf(j))
           IN  /\ h \in 1..2 /\ KindOf(j) \in LegalKinds /\ SizeOf(j, s) \in Nat \ {0}
               /\ PacketOf(j, s) \in Seq(Token)
               /\ Len(PacketOf(j, s)) = h + 1 + (IF KindOf(j) = "empty" THEN 0 ELSE SizeOf(j, s))
               /\ KindOf(j) = "typed" => PacketOf(j, s)[1].kind = "other"
               /\ PacketOf(j, s)[h].kind = "length"
               /\ PacketOf(j, s)[h].value = IF KindOf(j) = "empty" THEN 0 ELSE SizeOf(j, s)
               /\ PacketOf(j, s)[h + 1].kind = "blank"
               /\ KindOf(j) # "empty" =>
                     PacketOf(j, s)[h + 2].message = IF j <= Len(sent) THEN j ELSE 0
<1>1. /\ sent \in Seq([kind : client.kinds, size : Sizes]) /\ Len(sent) <= MaxMessages
      /\ client.kinds \subseteq LegalKinds /\ ~client.newline /\ Len(sent) \in Nat
  BY ClientTypes DEF TypeInv, TypeOK, Legal
<1>2. KindOf(j) \in LegalKinds
  <2>1. CASE j \in 1..Len(sent)
    <3>1. sent[j] \in [kind : client.kinds, size : Sizes] BY <1>1, <2>1, ElementOfSeq
    <3> QED BY <1>1, <2>1, <3>1 DEF KindOf
  <2>2. CASE j \notin 1..Len(sent) BY <2>2 DEF KindOf, LegalKinds
  <2> QED BY <2>1, <2>2
<1>3. SizeOf(j, s) \in Nat \ {0}
  <2>1. CASE j \in 1..Len(sent)
    <3>1. sent[j] \in [kind : client.kinds, size : Sizes] BY <1>1, <2>1, ElementOfSeq
    <3> QED BY <1>1, <2>1, <3>1 DEF SizeOf
  <2>2. CASE j \notin 1..Len(sent) BY <2>2 DEF SizeOf
  <2> QED BY <2>1, <2>2
<1> DEFINE n == IF j \in 1..Len(sent) THEN j ELSE 0
<1>4. n \in 0..MaxMessages /\ n = IF j <= Len(sent) THEN j ELSE 0 BY <1>1 DEF Packets
<1>5. HeaderLines(KindOf(j)) \in 1..2 BY DEF HeaderLines
<1> DEFINE kind == KindOf(j)
           size == SizeOf(j, s)
           h == HeaderLines(kind)
           q == PacketOf(j, s)
<1>6. q = Packet(n, kind, size) BY DEF PacketOf
<1>7. n \in 0..MaxMessages /\ kind \in LegalKinds /\ size \in Nat \ {0} BY <1>2, <1>3, <1>4
<1> HIDE DEF n, kind, size, q
<1>8. LET w == Packet(n, kind, size)
      IN  /\ w \in Seq(Token)
          /\ Len(w) = h + 1 + (IF kind = "empty" THEN 0 ELSE size)
          /\ kind = "typed" => w[1].kind = "other"
          /\ w[h].kind = "length"
          /\ w[h].value = IF kind = "empty" THEN 0 ELSE size
          /\ w[h + 1].kind = "blank"
          /\ kind # "empty" => w[h + 2].message = n
  <2>1. n \in 0..MaxMessages /\ kind \in LegalKinds /\ size \in Nat \ {0} /\ ~client.newline
    BY <1>1, <1>7
  <2>2. \A i \in 0..MaxMessages, c \in LegalKinds, m \in Nat \ {0} :
           LET w == Packet(i, c, m)
               g == HeaderLines(c)
           IN  /\ w \in Seq(Token)
               /\ Len(w) = g + 1 + (IF c = "empty" THEN 0 ELSE m)
               /\ c = "typed" => w[1].kind = "other"
               /\ w[g].kind = "length"
               /\ w[g].value = IF c = "empty" THEN 0 ELSE m
               /\ w[g + 1].kind = "blank"
               /\ c # "empty" => w[g + 2].message = i
    BY <2>1, LegalShape
  <2> QED BY <2>1, <2>2
<1>9. /\ q \in Seq(Token)
      /\ Len(q) = h + 1 + (IF kind = "empty" THEN 0 ELSE size)
      /\ kind = "typed" => q[1].kind = "other"
      /\ q[h].kind = "length"
      /\ q[h].value = IF kind = "empty" THEN 0 ELSE size
      /\ q[h + 1].kind = "blank"
      /\ kind # "empty" => q[h + 2].message = n
  BY <1>6, <1>8
<1> QED BY <1>2, <1>3, <1>4, <1>5, <1>9 DEF kind, size, q

-----------------------------------------------------------------------------
(* The steps, for such a client.                                           *)

LEMMA InStepBy ==
    ASSUME NEW id \in Packets', NEW s \in Nat \ {0}, NEW p \in [Packets' -> Int],
           Placed(p, s)', ReaderAt(id, p, s)', YieldedUpTo(id)'
    PROVE  InStep'
BY DEF InStep

LEMMA PacketsStay ==
    ASSUME UNCHANGED <<client, sent>>, NEW j, NEW s
    PROVE  /\ KindOf(j)' = KindOf(j) /\ SizeOf(j, s)' = SizeOf(j, s)
           /\ PacketOf(j, s)' = PacketOf(j, s) /\ Packets' = Packets
<1>1. KindOf(j)' = KindOf(j) /\ SizeOf(j, s)' = SizeOf(j, s) /\ Packets' = Packets
  BY DEF KindOf, SizeOf, Packets
<1> QED BY <1>1 DEF PacketOf, Packet

\* The packets stay where they are in what is left of the input.
LEMMA ConsumePlaced ==
    ASSUME TypeInv, Legal, NEW n \in 0..Len(buf), buf' = SubSeq(buf, n + 1, Len(buf)), wire' = wire,
           UNCHANGED clientVars,
           NEW s \in Nat \ {0}, NEW p \in [Packets -> Int], Placed(p, s),
           NEW q, q = [j \in Packets |-> p[j] - n]
    PROVE  q \in [Packets' -> Int] /\ Placed(q, s)'
<1>1. UNCHANGED <<client, sent>> /\ sent' = sent /\ eof' = eof BY DEF clientVars
<1>2. Packets' = Packets /\ \A j : PacketOf(j, s)' = PacketOf(j, s) BY <1>1, PacketsStay
<1>3. q \in [Packets -> Int] /\ \A j \in Packets : q[j] = p[j] - n /\ p[j] \in Int
  OBVIOUS
<1>4. /\ Input \in Seq(Token) /\ Input' \in Seq(Token) /\ Suffix(Input', Input, n)
  BY InputMoves
<1>5. /\ Len(Input') \in Nat /\ Len(Input) = Len(Input') + n
      /\ \A i \in 1..Len(Input') : i + n \in 1..Len(Input) /\ Input'[i] = Input[i + n]
  BY <1>4, LenProperties DEF Suffix
<1>6. \A i, j \in Packets : i <= j => q[i] <= q[j] BY <1>3 DEF Placed
<1>7. Len(sent) \in Nat BY DEF TypeInv, TypeOK
<1>8. \A j \in 1..Len(sent) : q[j + 1] = q[j] + Len(PacketOf(j, s))
  <2> TAKE j \in 1..Len(sent)
  <2>1. j \in Packets /\ j + 1 \in Packets BY <1>7 DEF Packets
  <2>2. p[j + 1] = p[j] + Len(PacketOf(j, s)) BY DEF Placed
  <2>3. Len(PacketOf(j, s)) \in Nat BY <2>1, PacketOfShape, LenProperties
  <2> QED BY <1>3, <2>1, <2>2, <2>3
<1>9. ASSUME NEW j \in Packets, NEW k \in 1..Len(PacketOf(j, s)), q[j] + k \in 1..Len(Input')
      PROVE  Input'[q[j] + k] = PacketOf(j, s)[k]
  <2>1. (q[j] + k) + n = p[j] + k BY <1>3
  <2>2. p[j] + k \in 1..Len(Input) /\ Input'[q[j] + k] = Input[p[j] + k]
    BY <1>5, <1>9, <2>1
  <2>3. Input[p[j] + k] = PacketOf(j, s)[k]
    <3>1. \A i \in Packets : \A m \in 1..Len(PacketOf(i, s)) :
             p[i] + m \in 1..Len(Input) => Input[p[i] + m] = PacketOf(i, s)[m]
      BY DEF Placed
    <3> QED BY <1>9, <2>2, <3>1
  <2> QED BY <2>2, <2>3
<1>10. IF eof THEN Len(Input') <= q[Len(sent) + 1] + s + 1 ELSE Len(Input') = q[Len(sent) + 1]
  <2>1. Len(sent) + 1 \in Packets BY <1>7 DEF Packets
  <2> QED BY <1>3, <1>5, <2>1 DEF Placed
<1>11. /\ \A i, j \in Packets' : i <= j => q[i] <= q[j]
       /\ \A j \in 1..Len(sent') : q[j + 1] = q[j] + Len(PacketOf(j, s)')
       /\ IF eof' THEN Len(Input') <= q[Len(sent') + 1] + s + 1
          ELSE Len(Input') = q[Len(sent') + 1]
  <2>1. \A i, j \in Packets' : i <= j => q[i] <= q[j] BY <1>2, <1>6
  <2>2. \A j \in 1..Len(sent') : q[j + 1] = q[j] + Len(PacketOf(j, s)') BY <1>1, <1>2, <1>8
  <2> QED BY <1>1, <1>10, <2>1, <2>2
<1>12. \A j \in Packets' : \A k \in 1..Len(PacketOf(j, s)') :
          q[j] + k \in 1..Len(Input') => Input'[q[j] + k] = PacketOf(j, s)'[k]
  BY <1>2, <1>9
<1>13. Placed(q, s)' BY <1>11, <1>12 DEF Placed
<1>14. q \in [Packets' -> Int] BY <1>2, <1>3
<1> QED BY <1>13, <1>14

\* The token in front of the input is the next one of its packet.
LEMMA FrontToken ==
    ASSUME TypeInv, Legal, Len(buf) > 0,
           NEW s \in Nat \ {0}, NEW p \in [Packets -> Int], NEW id \in Packets, Placed(p, s),
           NEW k \in 1..Len(PacketOf(id, s)), p[id] + k = 1
    PROVE  buf[1] = PacketOf(id, s)[k]
<1>1. buf \in Seq(Token) /\ wire \in Seq(Token) BY DEF TypeInv, TypeOK
<1>2. /\ Len(Input) = Len(buf) + Len(wire)
      /\ \A i \in 1..Len(buf) : Input[i] = buf[i]
  BY <1>1, ConcatProperties DEF Input
<1>3. 1 \in 1..Len(Input) /\ Input[1] = buf[1] BY <1>1, <1>2, LenProperties
<1> QED BY <1>3 DEF Placed

\* The next message due is the one that is being read.
LEMMA NextDue ==
    ASSUME TypeInv, DueListed, NEW id \in 1..Len(sent), sent[id].kind # "empty", YieldedUpTo(id)
    PROVE  /\ Len(yielded) + 1 \in 1..Len(due) /\ due[Len(yielded) + 1] = id
           /\ \A i \in 1..Len(due) :
                 IF i <= Len(yielded) + 1 THEN due[i] < id + 1 ELSE due[i] >= id + 1
<1>1. /\ Len(due) \in Nat /\ Len(yielded) \in Nat /\ Len(sent) \in Nat
      /\ \A i \in 1..Len(due) : due[i] \in Int
  <2>1. due \in Seq(1..MaxMessages) /\ yielded \in Seq(1..MaxMessages) BY DEF TypeInv, TypeOK
  <2>2. \A i \in 1..Len(due) : due[i] \in 1..MaxMessages BY <2>1
  <2> QED BY <2>1, <2>2, LenProperties DEF TypeInv, TypeOK
<1> DEFINE d == Len(yielded) + 1
<1>2. PICK i \in 1..Len(due) : due[i] = id BY DEF DueListed
<1>3. i > Len(yielded) BY <1>1, <1>2 DEF YieldedUpTo
<1>4. d \in 1..Len(due) /\ d <= i BY <1>1, <1>3
<1>5. due[d] >= id BY <1>1, <1>4 DEF YieldedUpTo
<1>6. i = d
  <2>1. i > d => due[d] < due[i] BY <1>1, <1>4 DEF DueListed
  <2> QED BY <1>1, <1>2, <1>4, <1>5, <2>1
<1>7. ASSUME NEW j \in 1..Len(due) PROVE IF j <= d THEN due[j] < id + 1 ELSE due[j] >= id + 1
  <2>1. j < d => due[j] < due[d] BY <1>4 DEF DueListed
  <2>2. j > d => due[d] < due[j] BY <1>4 DEF DueListed
  <2> QED BY <1>1, <1>2, <1>4, <1>6, <2>1, <2>2
<1> QED BY <1>2, <1>4, <1>6, <1>7

\* Packets that the reader skips, without text, leave it as far as it was.
LEMMA LineDelivers ==
    ASSUME TypeInv, Legal, Delivering, BlankLine \/ SkipLine \/ ReadLength \/ BadLength
    PROVE  InStep'
<1>1. /\ AtLine /\ ConsumeLine /\ pc = "line" /\ HasLine /\ wire' = wire
      /\ UNCHANGED clientVars /\ yielded' = yielded
  BY DEF BlankLine, SkipLine, ReadLength, BadLength, EndOfHeaders, AtLine
<1>2. PICK id \in Packets, s \in Nat \ {0}, p \in [Packets -> Int] :
         Placed(p, s) /\ ReaderAt(id, p, s) /\ YieldedUpTo(id)
  BY <1>1 DEF Delivering, InStep, Running
<1>3. buf \in Seq(Token) /\ length \in Nat /\ Len(sent) \in Nat BY DEF TypeInv, TypeOK
<1>4. LineEnd \in 1..Len(buf) /\ \A j \in 1..(LineEnd - 1) : buf[j].kind = "text"
  BY <1>1, <1>3, LineEndIsFirst
<1>5. Len(buf) \in Nat /\ Len(buf) > 0 BY <1>3, <1>4, LenProperties
<1> DEFINE kind == KindOf(id)
           size == SizeOf(id, s)
           h == HeaderLines(kind)
           P == PacketOf(id, s)
           k == 1 - p[id]
<1>6. /\ h \in 1..2 /\ kind \in LegalKinds /\ size \in Nat \ {0}
      /\ h = IF kind = "typed" THEN 2 ELSE 1
      /\ Len(P) = h + 1 + (IF kind = "empty" THEN 0 ELSE size)
      /\ kind = "typed" => P[1].kind = "other"
      /\ P[h].kind = "length"
      /\ P[h].value = IF kind = "empty" THEN 0 ELSE size
      /\ P[h + 1].kind = "blank"
  BY PacketOfShape DEF HeaderLines
<1>7. /\ length = 0 => p[id] = 0 \/ (id <= Len(sent) /\ kind # "plain" /\ p[id] = -1)
      /\ length > 0 => kind # "empty" /\ length = size /\ p[id] = -h
  BY <1>1, <1>2 DEF ReaderAt
<1>8. kind # "plain" => id <= Len(sent) BY DEF KindOf
<1>9. p[id] \in Int /\ id \in Packets BY <1>2
<1> HIDE DEF kind, size, h, P
<1>10. k \in 1..Len(P) /\ p[id] + k = 1 BY <1>3, <1>6, <1>7, <1>9 DEF LegalKinds
<1>11. buf[1] = P[k] BY <1>2, <1>5, <1>10, FrontToken DEF P
<1>12. P[k].kind \in {"other", "length", "blank"}
  <2>1. k = 1 \/ k = h \/ k = h + 1 BY <1>3, <1>6, <1>7, <1>9 DEF LegalKinds
  <2>2. P[1].kind \in {"other", "length"} BY <1>6 DEF LegalKinds
  <2> HIDE DEF k
  <2> QED BY <1>6, <2>1, <2>2
<1>13. LineEnd = 1
  <2>1. LineEnd > 1 => buf[1].kind = "text" BY <1>4
  <2> QED BY <1>4, <1>11, <1>12, <2>1
<1>14. LineKind = P[k].kind BY <1>11, <1>13 DEF LineKind
<1> PICK q : q = [j \in Packets |-> p[j] - 1] OBVIOUS
<1>15. q \in [Packets' -> Int] /\ Placed(q, s)'
  <2>1. buf' = SubSeq(buf, 1 + 1, Len(buf)) BY <1>1, <1>13 DEF ConsumeLine
  <2>2. 1 \in 0..Len(buf) BY <1>5
  <2> QED BY <1>1, <1>2, <2>1, <2>2, ConsumePlaced
<1>16. \A j \in Packets : q[j] = p[j] - 1 OBVIOUS
<1> HIDE DEF k
<1>17. /\ Packets' = Packets /\ KindOf(id)' = kind /\ SizeOf(id, s)' = size
       /\ sent' = sent /\ due' = due
  BY <1>1, PacketsStay DEF clientVars, kind, size
<1>18. YieldedUpTo(id)' BY <1>1, <1>2, <1>17 DEF YieldedUpTo
<1>19. ASSUME ReaderAt(id, q, s)' PROVE InStep'
  BY <1>2, <1>15, <1>17, <1>18, <1>19, InStepBy
<1>20. k = 1 - p[id] BY DEF k
<1>21. CASE length = 0 /\ p[id] = 0 /\ kind = "typed"
  <2>1. LineKind = "other" BY <1>6, <1>14, <1>20, <1>21
  <2>2. pc' = "line" /\ length' = 0
    BY <1>1, <1>21, <2>1 DEF BlankLine, SkipLine, ReadLength, BadLength
  <2>3. q[id] = -1 BY <1>9, <1>16, <1>21
  <2> QED BY <1>8, <1>17, <1>19, <1>21, <2>2, <2>3 DEF ReaderAt
<1>22. CASE length = 0 /\ k = h
  <2>1. LineKind = "length" /\ buf[1].value = IF kind = "empty" THEN 0 ELSE size
    BY <1>6, <1>11, <1>14, <1>22
  <2>2. pc' = "line" /\ length' = buf[1].value
    BY <1>1, <2>1 DEF BlankLine, SkipLine, ReadLength, BadLength
  <2>3. q[id] = -h BY <1>6, <1>9, <1>16, <1>20, <1>22
  <2>4. h = HeaderLines(KindOf(id)') BY <1>17 DEF h
  <2>5. CASE kind = "empty"
    <3>1. length' = 0 /\ q[id] = -1 BY <1>6, <2>1, <2>2, <2>3, <2>5
    <3> QED BY <1>8, <1>17, <1>19, <2>2, <2>5, <3>1 DEF ReaderAt
  <2>6. CASE kind # "empty"
    <3>1. length' = size /\ size > 0 BY <1>6, <2>1, <2>2, <2>6
    <3> QED BY <1>17, <1>19, <2>2, <2>3, <2>4, <2>6, <3>1 DEF ReaderAt
  <2> QED BY <2>5, <2>6
<1>23. CASE length = 0 /\ p[id] = -1 /\ kind = "empty"
  <2>1. LineKind = "blank" BY <1>6, <1>14, <1>20, <1>23
  <2>2. pc' = "line" /\ length' = 0
    BY <1>1, <1>23, <2>1 DEF BlankLine, SkipLine, ReadLength, BadLength, EndOfHeaders
  <2>3. id \in 1..Len(sent) /\ id + 1 \in Packets BY <1>3, <1>8, <1>9, <1>23 DEF Packets
  <2>4. q[id + 1] = 0
    <3>1. p[id + 1] = p[id] + Len(P) BY <1>2, <2>3 DEF Placed, P
    <3> QED BY <1>6, <1>16, <1>23, <2>3, <3>1
  <2>5. ReaderAt(id + 1, q, s)' BY <2>2, <2>4 DEF ReaderAt
  <2>6. YieldedUpTo(id + 1)'
    <3>1. \A i \in 1..Len(due) : due[i] # id /\ due[i] \in Nat
      <4>1. sent[id].kind = "empty" BY <1>23, <2>3 DEF kind, KindOf
      <4> QED BY <1>3, <4>1 DEF Delivering, DueListed
    <3>2. id \in Nat BY <2>3
    <3> QED BY <1>1, <1>2, <1>17, <3>1, <3>2 DEF YieldedUpTo
  <2> QED BY <1>2, <1>15, <1>17, <2>3, <2>5, <2>6, InStepBy
<1>24. CASE length > 0
  <2>1. LineKind = "blank" BY <1>6, <1>7, <1>14, <1>20, <1>24
  <2>2. pc' = "content" /\ length' = length
    BY <1>1, <1>24, <2>1 DEF BlankLine, SkipLine, ReadLength, BadLength, EndOfHeaders
  <2>3. q[id] = -(h + 1) BY <1>6, <1>7, <1>9, <1>16, <1>24
  <2>4. h = HeaderLines(KindOf(id)') BY <1>17 DEF h
  <2> QED BY <1>7, <1>17, <1>19, <1>24, <2>2, <2>3, <2>4 DEF ReaderAt
<1> QED BY <1>3, <1>6, <1>7, <1>20, <1>21, <1>22, <1>23, <1>24 DEF LegalKinds

LEMMA LegalGivesOneLength ==
    ASSUME TypeInv, Legal
    PROVE  OneLengthEach
<1>1. sent \in Seq([kind : client.kinds, size : Sizes]) /\ client.kinds \subseteq LegalKinds
  BY DEF TypeInv, TypeOK, Legal
<1>2. ASSUME NEW i \in 1..Len(sent) PROVE sent[i].kind # "twice"
  <2>1. sent[i] \in [kind : client.kinds, size : Sizes] BY <1>1, ElementOfSeq
  <2> QED BY <1>1, <2>1 DEF LegalKinds
<1> QED BY <1>2 DEF OneLengthEach

\* What TakeContent yields is the text of the packet, and the next message due.
LEMMA TakeDelivers ==
    ASSUME FramedInv, Legal, Delivering, TakeContent
    PROVE  /\ Len(yielded) < Len(due)
           /\ yielded' = Append(yielded, due[Len(yielded) + 1])
           /\ InStep'
<1>1. TypeInv /\ OneLengthEach BY LegalGivesOneLength DEF FramedInv
<1>2. pc' # "failed" BY <1>1, TakeFramed DEF Framed
<1> DEFINE content == SubSeq(buf, 1, length)
<1>3. /\ pc = "content" /\ Len(buf) >= length /\ pc' = "message"
      /\ yielded' = Append(yielded, content[1].message)
      /\ buf' = SubSeq(buf, length + 1, Len(buf)) /\ wire' = wire /\ UNCHANGED clientVars
  BY <1>2 DEF TakeContent
<1>4. /\ buf \in Seq(Token) /\ wire \in Seq(Token) /\ length \in Nat /\ length > 0
      /\ Len(sent) \in Nat /\ eof \in BOOLEAN /\ Len(buf) \in Nat
  BY <1>1, <1>3, LenProperties DEF TypeInv, TypeOK
<1>5. content[1] = buf[1]
  <2>1. length \in 0..Len(buf) /\ 1 \in 1..length BY <1>3, <1>4
  <2> QED BY <1>4, <2>1, TakeProperties
<1> HIDE DEF content
<1>6. PICK id \in Packets, s \in Nat \ {0}, p \in [Packets -> Int] :
         Placed(p, s) /\ ReaderAt(id, p, s) /\ YieldedUpTo(id)
  BY <1>3 DEF Delivering, InStep, Running
<1> DEFINE kind == KindOf(id)
           size == SizeOf(id, s)
           h == HeaderLines(kind)
           P == PacketOf(id, s)
<1>7. /\ kind # "empty" /\ length = size /\ p[id] = -(h + 1) BY <1>3, <1>6 DEF ReaderAt
<1>8. /\ h \in 1..2 /\ size \in Nat \ {0}
      /\ Len(P) = h + 1 + (IF kind = "empty" THEN 0 ELSE size)
      /\ kind # "empty" => P[h + 2].message = IF id <= Len(sent) THEN id ELSE 0
  BY <1>1, PacketOfShape
<1>9. id \notin 1..Len(sent) => kind = "plain" /\ h = 1 /\ size = s
  BY DEF KindOf, SizeOf, HeaderLines
<1> HIDE DEF kind, size, h, P
\* A message that the client is cut off in never has all its text.
<1>10. id \in 1..Len(sent)
  <2> SUFFICES ASSUME id \notin 1..Len(sent) PROVE FALSE
    OBVIOUS
  <2>1. id = Len(sent) + 1 BY <1>4 DEF Packets
  <2>2. p[id] = -2 /\ length = s BY <1>7, <1>9
  <2>3. Len(Input) = Len(buf) + Len(wire) /\ Len(wire) \in Nat
    BY <1>4, ConcatProperties, LenProperties DEF Input
  <2>4. IF eof THEN Len(Input) <= p[id] + s + 1 ELSE Len(Input) = p[id]
    BY <1>6, <2>1 DEF Placed
  <2> QED BY <1>3, <1>4, <2>2, <2>3, <2>4
<1>11. buf[1] = P[h + 2]
  <2>1. h + 2 \in 1..Len(P) /\ p[id] + (h + 2) = 1 BY <1>7, <1>8
  <2>2. Len(buf) > 0 BY <1>3, <1>4
  <2> QED BY <1>1, <1>6, <2>1, <2>2, FrontToken DEF P
<1>12. content[1].message = id BY <1>5, <1>7, <1>8, <1>10, <1>11
<1>13. /\ Len(yielded) + 1 \in 1..Len(due) /\ due[Len(yielded) + 1] = id
       /\ \A i \in 1..Len(due) :
             IF i <= Len(yielded) + 1 THEN due[i] < id + 1 ELSE due[i] >= id + 1
  <2>1. sent[id].kind # "empty" BY <1>7, <1>10 DEF kind, KindOf
  <2> QED BY <1>1, <1>6, <1>10, <2>1, NextDue DEF Delivering
<1>14. /\ Len(yielded) \in Nat /\ Len(due) \in Nat /\ Len(yielded') = Len(yielded) + 1
  <2>1. yielded \in Seq(1..MaxMessages) /\ due \in Seq(1..MaxMessages) /\ id \in 1..MaxMessages
    BY <1>1, <1>10 DEF TypeInv, TypeOK
  <2>2. yielded' = Append(yielded, id) BY <1>3, <1>12
  <2> QED BY <2>1, <2>2, AppendProperties, LenProperties
<1> PICK q : q = [j \in Packets |-> p[j] - length] OBVIOUS
<1>15. q \in [Packets' -> Int] /\ Placed(q, s)'
  <2>1. length \in 0..Len(buf) BY <1>3, <1>4
  <2> QED BY <1>1, <1>3, <1>6, <2>1, ConsumePlaced
<1>16. id + 1 \in Packets /\ id + 1 \in Packets' /\ due' = due
  BY <1>3, <1>4, <1>10 DEF Packets, clientVars
<1>17. q[id + 1] = 0
  <2>1. p[id + 1] = p[id] + Len(P) BY <1>6, <1>10 DEF Placed, P
  <2> QED BY <1>4, <1>7, <1>8, <1>16, <2>1
<1>18. ReaderAt(id + 1, q, s)' BY <1>3, <1>17 DEF ReaderAt
<1>19. YieldedUpTo(id + 1)' BY <1>13, <1>14, <1>16 DEF YieldedUpTo
<1>20. InStep' BY <1>6, <1>15, <1>16, <1>18, <1>19, InStepBy
<1> QED BY <1>3, <1>12, <1>13, <1>14, <1>20

\* The reader is never beyond what has been written: behind the last packet it
\* is at the beginning of the next.
LEMMA BehindAll ==
    ASSUME TypeInv, Legal, ~eof, Running,
           NEW s \in Nat \ {0}, NEW p \in [Packets -> Int], Placed(p, s),
           ReaderAt(Len(sent) + 1, p, s)
    PROVE  p[Len(sent) + 1] = 0 /\ (pc = "line" => length = 0) /\ pc # "content"
<1> DEFINE id == Len(sent) + 1
<1>1. Len(sent) \in Nat /\ length \in Nat /\ id \in Packets
  BY DEF TypeInv, TypeOK, Packets
<1>2. Len(Input) \in Nat
  <2>1. buf \in Seq(Token) /\ wire \in Seq(Token) BY DEF TypeInv, TypeOK
  <2> QED BY <2>1, ConcatProperties, LenProperties DEF Input
<1>3. p[id] >= 0 BY <1>1, <1>2 DEF Placed
<1>4. HeaderLines(KindOf(id)) \in 1..2 BY DEF HeaderLines
<1>5. ~(id <= Len(sent)) BY <1>1
<1>6. CASE pc = "line"
  <2>1. length = 0 BY <1>1, <1>3, <1>4, <1>6 DEF ReaderAt
  <2> QED BY <1>3, <1>5, <1>6, <2>1 DEF ReaderAt
<1>7. CASE pc = "content" BY <1>3, <1>4, <1>7 DEF ReaderAt
<1>8. CASE pc = "message" BY <1>8 DEF ReaderAt
<1> QED BY <1>6, <1>7, <1>8 DEF Running

LEMMA WriteDue ==
    ASSUME TypeInv, DueListed, Len(yielded) <= Len(due),
           NEW kind \in client.kinds, NEW size \in Sizes, Write(kind, size),
           kind \in LegalKinds
    PROVE  /\ DueListed' /\ Len(due) <= Len(due')
           /\ \A id \in Packets : YieldedUpTo(id) => YieldedUpTo(id)'
<1> DEFINE r == [kind |-> kind, size |-> size]
           n == Len(sent) + 1
<1>1. /\ sent \in Seq([kind : client.kinds, size : Sizes]) /\ r \in [kind : client.kinds, size : Sizes]
      /\ due \in Seq(1..MaxMessages) /\ Len(sent) \in Nat /\ Len(due) \in Nat
      /\ Len(yielded) \in Nat
  BY LenProperties DEF TypeInv, TypeOK
<1>2. sent' = Append(sent, r) /\ yielded' = yielded BY DEF Write
<1> HIDE DEF r
<1>3. /\ Len(sent') = n /\ sent'[n] = r
      /\ \A j \in 1..Len(sent) : sent'[j] = sent[j]
  BY <1>1, <1>2, AppendProperties
<1>4. n \in 1..MaxMessages
  <2>1. Len(sent) < client.most /\ client.most \in 0..MaxMessages
    BY ClientTypes DEF Write, TypeInv
  <2> QED BY <1>1, <2>1
<1>5. \A i \in 1..Len(due) :
         due[i] \in 1..Len(sent) /\ due[i] < n /\ sent'[due[i]].kind # "empty"
  <2>1. \A i \in 1..Len(due) : due[i] \in 1..Len(sent) /\ sent[due[i]].kind # "empty"
    BY DEF DueListed
  <2> QED BY <1>1, <1>3, <2>1
<1>6. r.kind = kind BY DEF r
<1>7. CASE kind = "empty"
  <2>1. due' = due BY <1>7 DEF Write
  <2>2. DueListed'
    <3>1. \A j \in 1..Len(sent') : sent'[j].kind # "empty" => \E i \in 1..Len(due) : due[i] = j
      <4> SUFFICES ASSUME NEW j \in 1..Len(sent'), sent'[j].kind # "empty"
                   PROVE  \E i \in 1..Len(due) : due[i] = j
        OBVIOUS
      <4>1. j \in 1..Len(sent) BY <1>1, <1>3, <1>6, <1>7
      <4> QED BY <1>3, <4>1 DEF DueListed
    <3>2. \A i \in 1..Len(due) : due[i] \in 1..Len(sent') /\ sent'[due[i]].kind # "empty"
      BY <1>1, <1>3, <1>5
    <3>3. \A i, j \in 1..Len(due) : i < j => due[i] < due[j] BY DEF DueListed
    <3> QED BY <2>1, <3>1, <3>2, <3>3 DEF DueListed
  <2> QED BY <1>1, <1>2, <2>1, <2>2 DEF YieldedUpTo
<1>8. CASE kind # "empty"
  <2>1. due' = Append(due, n)
    <3>1. kind \in {"plain", "typed"} BY <1>8 DEF LegalKinds
    <3> QED BY <1>3, <3>1 DEF Write
  <2>2. /\ Len(due') = Len(due) + 1 /\ due'[Len(due) + 1] = n
        /\ \A i \in 1..Len(due) : due'[i] = due[i]
    BY <1>1, <1>4, <2>1, AppendProperties
  <2>3. DueListed'
    <3>1. \A j \in 1..Len(sent') : sent'[j].kind # "empty" => \E i \in 1..Len(due') : due'[i] = j
      <4> SUFFICES ASSUME NEW j \in 1..Len(sent'), sent'[j].kind # "empty"
                   PROVE  \E i \in 1..Len(due') : due'[i] = j
        OBVIOUS
      <4>1. CASE j = n
        <5>1. Len(due) + 1 \in 1..Len(due') BY <1>1, <2>2
        <5> QED BY <2>2, <4>1, <5>1
      <4>2. CASE j # n
        <5>1. j \in 1..Len(sent) BY <1>1, <1>3, <4>2
        <5>2. sent[j].kind # "empty" BY <1>3, <5>1
        <5>3. PICK i \in 1..Len(due) : due[i] = j BY <5>1, <5>2 DEF DueListed
        <5>4. i \in 1..Len(due') BY <1>1, <2>2
        <5> QED BY <2>2, <5>3, <5>4
      <4> QED BY <4>1, <4>2
    <3>2. ASSUME NEW i \in 1..Len(due')
          PROVE  due'[i] \in 1..Len(sent') /\ sent'[due'[i]].kind # "empty"
      <4>1. CASE i = Len(due) + 1
        BY <1>1, <1>3, <1>6, <1>8, <2>2, <4>1
      <4>2. CASE i # Len(due) + 1
        <5>1. i \in 1..Len(due) BY <1>1, <2>2, <4>2
        <5> QED BY <1>1, <1>3, <1>5, <2>2, <5>1
      <4> QED BY <4>1, <4>2
    <3>3. ASSUME NEW i \in 1..Len(due'), NEW j \in 1..Len(due'), i < j PROVE due'[i] < due'[j]
      <4>1. i \in 1..Len(due) BY <1>1, <2>2, <3>3
      <4>2. CASE j = Len(due) + 1 BY <1>5, <2>2, <4>1, <4>2
      <4>3. CASE j # Len(due) + 1
        <5>1. j \in 1..Len(due) BY <1>1, <2>2, <4>3
        <5> QED BY <2>2, <3>3, <4>1, <5>1 DEF DueListed
      <4> QED BY <4>2, <4>3
    <3> QED BY <3>1, <3>2, <3>3 DEF DueListed
  <2>4. ASSUME NEW id \in Packets, YieldedUpTo(id) PROVE YieldedUpTo(id)'
    <3>1. id <= n /\ id \in Nat BY <1>1 DEF Packets
    <3> SUFFICES ASSUME NEW i \in 1..Len(due')
                 PROVE  IF i <= Len(yielded) THEN due'[i] < id ELSE due'[i] >= id
      BY <1>2 DEF YieldedUpTo
    <3>2. CASE i = Len(due) + 1 BY <1>1, <2>2, <3>1, <3>2
    <3>3. CASE i # Len(due) + 1
      <4>1. i \in 1..Len(due) BY <1>1, <2>2, <3>3
      <4> QED BY <2>2, <2>4, <4>1 DEF YieldedUpTo
    <3> QED BY <3>2, <3>3
  <2> QED BY <1>1, <2>2, <2>3, <2>4
<1> QED BY <1>7, <1>8

\* What is written comes behind the input.
LEMMA InputGrows ==
    ASSUME TypeInv, NEW c \in Seq(Token), buf' = buf, wire' = wire \o c
    PROVE  /\ Len(Input) \in Nat /\ Len(Input') = Len(Input) + Len(c)
           /\ \A i \in 1..Len(Input) : Input'[i] = Input[i]
           /\ \A i \in 1..Len(c) : Input'[Len(Input) + i] = c[i]
<1>1. buf \in Seq(Token) /\ wire \in Seq(Token) BY DEF TypeInv, TypeOK
<1>2. Input' = Input \o c
  <2>2. buf \o (wire \o c) = (buf \o wire) \o c BY <1>1, TokensAssociative
  <2> QED BY <2>2 DEF Input
<1>3. Input \in Seq(Token) BY <1>1, ConcatProperties DEF Input
<1> QED BY <1>2, <1>3, ConcatProperties, LenProperties

LEMMA WriteDelivers ==
    ASSUME TypeInv, Legal, Delivering, NEW kind \in client.kinds, NEW size \in Sizes,
           Write(kind, size)
    PROVE  InStep'
<1> PICK n : n = Len(sent) + 1 OBVIOUS
<1> DEFINE r == [kind |-> kind, size |-> size]
           w == Packet(n, kind, size)
<1>1. /\ sent \in Seq([kind : client.kinds, size : Sizes]) /\ r \in [kind : client.kinds, size : Sizes]
      /\ Len(sent) \in Nat /\ buf \in Seq(Token) /\ wire \in Seq(Token)
      /\ kind \in LegalKinds /\ ~client.newline
  BY DEF TypeInv, TypeOK, Legal
<1>2. /\ sent' = Append(sent, r) /\ client' = client /\ eof' = eof /\ ~eof /\ buf' = buf
      /\ UNCHANGED <<length, pc, yielded>>
  BY DEF Write
<1>3. /\ Len(sent') = n /\ sent'[n] = r
      /\ \A j \in 1..Len(sent) : sent'[j] = sent[j]
  <2> HIDE DEF r
  <2> QED BY <1>1, <1>2, AppendProperties
<1>4. n \in 0..MaxMessages /\ size \in Nat \ {0}
  <2>1. Len(sent) < client.most /\ client.most \in 0..MaxMessages
    BY ClientTypes DEF Write, TypeInv
  <2>2. n \in 0..MaxMessages BY <1>1, <2>1
  <2>3. Sizes \subseteq Nat \ {0} /\ size \in Sizes BY SizesAssumption
  <2> QED BY <2>2, <2>3
<1>5. wire' = wire \o w BY <1>3 DEF Write
<1>6. w \in Seq(Token) /\ Len(w) \in Nat /\ Len(w) > 0
  <2>1. w \in Seq(Token) /\ Len(w) = HeaderLines(kind) + 1 + (IF kind = "empty" THEN 0 ELSE size)
    BY <1>1, <1>4, LegalShape
  <2>2. HeaderLines(kind) \in Nat BY DEF HeaderLines
  <2> QED BY <1>4, <2>1, <2>2
<1>7. CASE ~Running
  BY <1>2, <1>7 DEF InStep, Running
<1>8. CASE Running
  <2>1. PICK id \in Packets, s \in Nat \ {0}, p \in [Packets -> Int] :
           Placed(p, s) /\ ReaderAt(id, p, s) /\ YieldedUpTo(id)
    BY <1>8 DEF Delivering, InStep
  <2>2. /\ KindOf(n)' = kind /\ SizeOf(n, s)' = size /\ PacketOf(n, s)' = w
        /\ \A j \in 1..Len(sent) : /\ KindOf(j)' = KindOf(j) /\ SizeOf(j, s)' = SizeOf(j, s)
                                   /\ PacketOf(j, s)' = PacketOf(j, s)
    <3>1. /\ n \in 1..Len(sent') /\ r.kind = kind /\ r.size = size
          /\ \A j \in 1..Len(sent) : j \in 1..Len(sent')
      BY <1>1, <1>3
    <3>2. /\ KindOf(n)' = kind /\ SizeOf(n, s)' = size
          /\ \A j \in 1..Len(sent) : KindOf(j)' = KindOf(j) /\ SizeOf(j, s)' = SizeOf(j, s)
      BY <1>3, <3>1 DEF KindOf, SizeOf
    <3> HIDE DEF r, w
    <3>3. \A i, c, m : Packet(i, c, m)' = Packet(i, c, m) BY <1>2 DEF Packet
    <3>4. PacketOf(n, s)' = w BY <3>1, <3>2, <3>3 DEF PacketOf, w
    <3>5. \A j \in 1..Len(sent) : PacketOf(j, s)' = PacketOf(j, s)
      BY <3>1, <3>2, <3>3 DEF PacketOf
    <3> QED BY <3>2, <3>4, <3>5
  <2>3. Packets = 1..n /\ Packets' = 1..(n + 1) /\ n \in Nat BY <1>1, <1>3 DEF Packets
  <2>4. /\ Len(Input) \in Nat /\ Len(Input') = Len(Input) + Len(w)
        /\ \A i \in 1..Len(Input) : Input'[i] = Input[i]
        /\ \A i \in 1..Len(w) : Input'[Len(Input) + i] = w[i]
    <3> HIDE DEF w
    <3> QED BY <1>2, <1>5, <1>6, InputGrows
  <2>5. p[n] = Len(Input) BY <1>2, <2>1 DEF Placed
  <2> PICK q : q = [j \in 1..(n + 1) |-> IF j <= n THEN p[j] ELSE p[n] + Len(w)] OBVIOUS
  <2>6. /\ \A j \in 1..n : q[j] = p[j] /\ p[j] \in Int
        /\ q[n + 1] = p[n] + Len(w) /\ q \in [1..(n + 1) -> Int]
    <3> HIDE DEF w
    <3>1. p \in [1..n -> Int] BY <2>1, <2>3
    <3>2. p[n] \in Int /\ Len(w) \in Int /\ n + 1 \in 1..(n + 1) /\ ~(n + 1 <= n)
      BY <1>1, <1>6, <3>1
    <3>3. \A j \in 1..n : j \in 1..(n + 1) /\ j <= n BY <2>3
    <3>4. \A j \in 1..n : q[j] = p[j] /\ p[j] \in Int BY <3>1, <3>3
    <3>5. q[n + 1] = p[n] + Len(w) BY <3>2
    <3>6. q \in [1..(n + 1) -> Int]
      <4>1. \A j \in 1..(n + 1) : (IF j <= n THEN p[j] ELSE p[n] + Len(w)) \in Int
        <5>1. \A j \in 1..(n + 1) : j <= n => j \in 1..n BY <2>3
        <5> QED BY <3>1, <3>2, <5>1
      <4> QED BY <4>1
    <3> QED BY <3>4, <3>5, <3>6
  <2>7. Placed(q, s)'
    <3> HIDE DEF w
    <3>1. \A i, j \in Packets' : i <= j => q[i] <= q[j]
      <4> SUFFICES ASSUME NEW i \in Packets', NEW j \in Packets', i <= j PROVE q[i] <= q[j]
        OBVIOUS
      <4>1. i \in 1..(n + 1) /\ j \in 1..(n + 1) BY <2>3
      <4>2. CASE j <= n BY <2>1, <2>3, <2>6, <4>1, <4>2 DEF Placed
      <4>3. CASE j = n + 1 /\ i <= n
        <5>1. i \in 1..n /\ n \in 1..n BY <1>1, <2>3, <4>1, <4>3
        <5>2. p[i] <= p[n] BY <2>1, <2>3, <5>1 DEF Placed
        <5>3. q[i] = p[i] /\ p[i] \in Int /\ p[n] \in Int BY <2>6, <5>1
        <5> QED BY <1>6, <2>6, <4>3, <5>2, <5>3
      <4>4. CASE i = n + 1 /\ j = n + 1 BY <1>6, <2>4, <2>5, <2>6, <4>4
      <4> QED BY <2>3, <4>1, <4>2, <4>3, <4>4
    <3>2. \A j \in 1..Len(sent') : q[j + 1] = q[j] + Len(PacketOf(j, s)')
      <4> SUFFICES ASSUME NEW j \in 1..n PROVE q[j + 1] = q[j] + Len(PacketOf(j, s)')
        BY <1>3
      <4>1. CASE j = n BY <2>2, <2>3, <2>6, <4>1
      <4>2. CASE j # n
        <5>1. j \in 1..Len(sent) /\ j + 1 \in 1..n BY <1>1, <2>3, <4>2
        <5> QED BY <2>1, <2>2, <2>6, <5>1 DEF Placed
      <4> QED BY <4>1, <4>2
    <3>3. ASSUME NEW j \in Packets', NEW k \in 1..Len(PacketOf(j, s)'), q[j] + k \in 1..Len(Input')
          PROVE  Input'[q[j] + k] = PacketOf(j, s)'[k]
      <4>1. j \in 1..(n + 1) BY <2>3
      <4>2. CASE j = n + 1
        <5>1. q[j] = Len(Input') BY <2>4, <2>5, <2>6, <4>2
        <5> QED BY <1>6, <2>4, <3>3, <5>1
      <4>3. CASE j = n
        <5>1. PacketOf(j, s)' = w /\ q[j] = Len(Input) BY <1>1, <2>2, <2>3, <2>5, <2>6, <4>3
        <5> QED BY <2>4, <3>3, <5>1
      <4>4. CASE j < n
        <5>1. j \in 1..Len(sent) /\ j \in Packets /\ j + 1 \in Packets /\ n \in Packets
          BY <1>1, <2>3, <4>1, <4>4
        <5>2. PacketOf(j, s)' = PacketOf(j, s) BY <2>2, <5>1
        <5>3. p[j + 1] = p[j] + Len(PacketOf(j, s)) /\ p[j + 1] <= p[n]
          <6>1. j + 1 <= n BY <2>3, <4>1, <4>4
          <6> QED BY <2>1, <5>1, <6>1 DEF Placed
        <5>4. Len(PacketOf(j, s)) \in Nat BY <5>1, PacketOfShape, LenProperties
        <5>5. q[j] = p[j] /\ p[j] \in Int
          <6>1. j \in 1..n BY <2>3, <5>1
          <6> QED BY <2>6, <6>1
        <5>6. p[j] + k \in 1..Len(Input)
          BY <2>4, <2>5, <3>3, <5>2, <5>3, <5>4, <5>5
        <5>7. Input[p[j] + k] = PacketOf(j, s)[k] BY <2>1, <5>1, <5>2, <5>6 DEF Placed
        <5> QED BY <2>4, <5>2, <5>5, <5>6, <5>7
      <4> QED BY <2>3, <4>1, <4>2, <4>3, <4>4
    <3>4. IF eof' THEN Len(Input') <= q[Len(sent') + 1] + s + 1
          ELSE Len(Input') = q[Len(sent') + 1]
      BY <1>2, <1>3, <2>4, <2>5, <2>6
    <3> QED BY <3>1, <3>2, <3>3, <3>4 DEF Placed
  <2>8. ReaderAt(id, q, s)'
    <3>1. CASE id = n
      <4>1. p[n] = 0 /\ (pc = "line" => length = 0) /\ pc # "content"
        BY <1>2, <1>8, <2>1, <3>1, BehindAll
      <4>2. q[id] = 0 BY <2>3, <2>6, <3>1, <4>1
      <4> QED BY <1>2, <4>1, <4>2 DEF ReaderAt
    <3>2. CASE id # n
      <4>1. id \in 1..Len(sent) /\ id \in 1..n BY <1>1, <2>1, <2>3, <3>2
      <4>2. KindOf(id)' = KindOf(id) /\ SizeOf(id, s)' = SizeOf(id, s) BY <2>2, <4>1
      <4>3. q[id] = p[id] /\ id <= Len(sent) /\ id <= Len(sent') BY <1>1, <1>3, <2>6, <4>1
      <4> QED BY <1>2, <2>1, <4>2, <4>3 DEF ReaderAt
    <3> QED BY <3>1, <3>2
  <2>9. YieldedUpTo(id)' BY <1>1, <2>1, WriteDue DEF Delivering
  <2>10. id \in Packets' /\ q \in [Packets' -> Int] BY <2>1, <2>3, <2>6
  <2> QED BY <2>1, <2>7, <2>8, <2>9, <2>10, InStepBy
<1> QED BY <1>7, <1>8

LEMMA HangUpDelivers ==
    ASSUME TypeInv, Legal, Delivering, NEW size \in Sizes, NEW cut \in 0..(size + 1),
           HangUp(size, cut)
    PROVE  InStep'
<1> DEFINE w == Packet(0, "plain", size)
           c == SubSeq(w, 1, cut)
<1> PICK n : n = Len(sent) + 1 OBVIOUS
<1>1. /\ Len(sent) \in Nat /\ buf \in Seq(Token) /\ wire \in Seq(Token) /\ ~client.newline
      /\ MaxMessages \in Nat
  BY FramingBounds DEF TypeInv, TypeOK, Legal
<1>2. /\ UNCHANGED <<client, sent, due, length, pc, yielded, buf>> /\ eof' = TRUE /\ ~eof
      /\ wire' = wire \o c
  BY DEF HangUp
<1>3. size \in Nat \ {0} BY SizesAssumption
<1>4. w \in Seq(Token) /\ Len(w) = size + 2
  <2>1. 0 \in 0..MaxMessages /\ "plain" \in LegalKinds BY <1>1 DEF LegalKinds
  <2>2. w \in Seq(Token) /\ Len(w) = HeaderLines("plain") + 1 + size
    BY <1>1, <1>3, <2>1, LegalShape
  <2> QED BY <1>3, <2>2 DEF HeaderLines
<1>5. c \in Seq(Token) /\ Len(c) = cut /\ \A i \in 1..cut : c[i] = w[i]
  <2> HIDE DEF w
  <2>1. cut \in 0..Len(w) BY <1>3, <1>4
  <2> QED BY <1>4, <2>1, TakeProperties
<1>6. CASE ~Running BY <1>2, <1>6 DEF InStep, Running
<1>7. CASE Running
  <2>1. PICK id \in Packets, s \in Nat \ {0}, p \in [Packets -> Int] :
           Placed(p, s) /\ ReaderAt(id, p, s) /\ YieldedUpTo(id)
    BY <1>7 DEF Delivering, InStep
  <2>2. Packets = 1..n /\ Packets' = Packets BY <1>1, <1>2 DEF Packets
  <2>3. /\ PacketOf(n, size)' = w
        /\ \A j \in 1..Len(sent) : /\ KindOf(j)' = KindOf(j) /\ SizeOf(j, size)' = SizeOf(j, s)
                                   /\ PacketOf(j, size)' = PacketOf(j, s)
    <3>1. \A i, k, m : Packet(i, k, m)' = Packet(i, k, m) BY <1>2 DEF Packet
    <3>2. n \notin 1..Len(sent) BY <1>1
    <3>3. KindOf(n)' = "plain" /\ SizeOf(n, size)' = size BY <1>2, <3>2 DEF KindOf, SizeOf
    <3>4. \A j \in 1..Len(sent) : KindOf(j)' = KindOf(j) /\ SizeOf(j, size)' = SizeOf(j, s)
      BY <1>2 DEF KindOf, SizeOf
    <3> HIDE DEF w, c
    <3>5. PacketOf(n, size)' = w BY <1>2, <3>1, <3>2, <3>3 DEF PacketOf, w
    <3>6. \A j \in 1..Len(sent) : PacketOf(j, size)' = PacketOf(j, s)
      BY <1>2, <3>1, <3>4 DEF PacketOf
    <3> QED BY <3>4, <3>5, <3>6
  <2>4. /\ Len(Input) \in Nat /\ Len(Input') = Len(Input) + cut
        /\ \A i \in 1..Len(Input) : Input'[i] = Input[i]
        /\ \A i \in 1..cut : Input'[Len(Input) + i] = w[i]
    <3> HIDE DEF w, c
    <3> QED BY <1>2, <1>5, InputGrows
  <2>5. p[n] = Len(Input) /\ n \in Packets BY <1>1, <1>2, <2>1, <2>2 DEF Placed
  <2>6. Placed(p, size)'
    <3> HIDE DEF w, c
    <3>1. \A i, j \in Packets' : i <= j => p[i] <= p[j] BY <2>1, <2>2 DEF Placed
    <3>2. \A j \in 1..Len(sent') : p[j + 1] = p[j] + Len(PacketOf(j, size)')
      BY <1>2, <2>1, <2>3 DEF Placed
    <3>3. ASSUME NEW j \in Packets', NEW k \in 1..Len(PacketOf(j, size)'),
                 p[j] + k \in 1..Len(Input')
          PROVE  Input'[p[j] + k] = PacketOf(j, size)'[k]
      <4>1. j \in 1..n /\ p[j] \in Int BY <2>1, <2>2
      <4>2. CASE j = n
        <5>1. k \in 1..cut BY <1>4, <2>3, <2>4, <2>5, <3>3, <4>2
        <5> QED BY <2>3, <2>4, <2>5, <4>2, <5>1
      <4>3. CASE j # n
        <5>1. j \in 1..Len(sent) /\ j \in Packets /\ j + 1 \in Packets /\ j + 1 <= n
          BY <1>1, <2>2, <4>1, <4>3
        <5>2. PacketOf(j, size)' = PacketOf(j, s) BY <2>3, <5>1
        <5>3. p[j + 1] = p[j] + Len(PacketOf(j, s)) /\ p[j + 1] <= p[n]
          BY <2>1, <2>5, <5>1 DEF Placed
        <5>4. Len(PacketOf(j, s)) \in Nat BY <2>1, <5>1, PacketOfShape, LenProperties
        <5>5. p[j] + k \in 1..Len(Input)
          <6> DEFINE l == Len(PacketOf(j, s))
          <6>1. k \in 1..l BY <3>3, <5>2
          <6>2. l \in Nat /\ p[j] + l <= Len(Input) BY <2>5, <5>3, <5>4
          <6>3. p[j] + k \in 1..(Len(Input) + cut) BY <2>4, <3>3
          <6> HIDE DEF l
          <6> QED BY <2>4, <4>1, <6>1, <6>2, <6>3
        <5>6. Input[p[j] + k] = PacketOf(j, s)[k] BY <2>1, <5>1, <5>2, <5>5 DEF Placed
        <5> QED BY <2>4, <5>2, <5>5, <5>6
      <4> QED BY <4>2, <4>3
    <3>4. IF eof' THEN Len(Input') <= p[Len(sent') + 1] + size + 1
          ELSE Len(Input') = p[Len(sent') + 1]
      BY <1>2, <1>3, <2>4, <2>5
    <3> QED BY <3>1, <3>2, <3>3, <3>4 DEF Placed
  <2>7. ReaderAt(id, p, size)'
    <3>1. CASE id = n
      <4>1. p[n] = 0 /\ (pc = "line" => length = 0) /\ pc # "content"
        BY <1>2, <1>7, <2>1, <3>1, BehindAll
      <4> QED BY <1>2, <3>1, <4>1 DEF ReaderAt
    <3>2. CASE id # n
      <4>1. id \in 1..Len(sent) BY <1>1, <2>1, <2>2, <3>2
      <4>2. KindOf(id)' = KindOf(id) /\ SizeOf(id, size)' = SizeOf(id, s) BY <2>3, <4>1
      <4> QED BY <1>2, <2>1, <4>2 DEF ReaderAt
    <3> QED BY <3>1, <3>2
  <2>8. YieldedUpTo(id)' BY <1>2, <2>1 DEF YieldedUpTo
  <2>9. id \in Packets' /\ p \in [Packets' -> Int] BY <2>1, <2>2
  <2> QED BY <1>3, <2>1, <2>6, <2>7, <2>8, <2>9, InStepBy
<1> QED BY <1>6, <1>7

\* A step that leaves the input, and where the reader is in it, alone.
LEMMA RestDelivers ==
    ASSUME Legal, Delivering, UNCHANGED <<clientVars, yielded>>, Input' = Input,
           \/ UNCHANGED <<length, pc>>
           \/ pc' = "closed"
           \/ pc = "message" /\ pc' = "line" /\ length' = 0
    PROVE  InStep'
<1>1. CASE ~Running' BY <1>1 DEF InStep, Running
<1>2. CASE Running'
  <2>1. Running BY <1>2 DEF Running
  <2>2. PICK id \in Packets, s \in Nat \ {0}, p \in [Packets -> Int] :
           Placed(p, s) /\ ReaderAt(id, p, s) /\ YieldedUpTo(id)
    BY <2>1 DEF Delivering, InStep
  <2>3. /\ UNCHANGED <<client, sent>> /\ sent' = sent /\ due' = due /\ eof' = eof
        /\ yielded' = yielded
    BY DEF clientVars
  <2>4. /\ Packets' = Packets
        /\ \A j : /\ KindOf(j)' = KindOf(j) /\ SizeOf(j, s)' = SizeOf(j, s)
                  /\ PacketOf(j, s)' = PacketOf(j, s)
    BY <2>3, PacketsStay
  <2>5. Placed(p, s)' BY <2>2, <2>3, <2>4 DEF Placed
  <2>6. ReaderAt(id, p, s)'
    <3>1. CASE UNCHANGED <<length, pc>> BY <2>2, <2>3, <2>4, <3>1 DEF ReaderAt
    <3>2. CASE pc = "message" /\ pc' = "line" /\ length' = 0 BY <2>2, <3>2 DEF ReaderAt
    <3> QED BY <1>2, <3>1, <3>2 DEF Running
  <2>7. YieldedUpTo(id)' BY <2>2, <2>3 DEF YieldedUpTo
  <2> QED BY <2>2, <2>4, <2>5, <2>6, <2>7, InStepBy
<1> QED BY <1>1, <1>2

LEMMA InitDelivers == Init => DeliveryInv
<1> SUFFICES ASSUME Init PROVE FramedInv /\ Delivering
  BY DEF DeliveryInv
<1>1. FramedInv BY InitFramedInv
<1>2. /\ sent = <<>> /\ due = <<>> /\ yielded = <<>> /\ length = 0 /\ pc = "line" /\ eof = FALSE
      /\ Input = <<>> /\ Len(Input) = 0 /\ Len(sent) = 0 /\ Len(due) = 0 /\ Len(yielded) = 0
  BY DEF Init, Input
<1>3. Packets = {1} BY <1>2 DEF Packets
<1> PICK p : p = [j \in {1} |-> 0] OBVIOUS
<1>4. p \in [Packets -> Int] /\ p[1] = 0 /\ 1 \in Packets /\ 1 \in Nat \ {0} BY <1>3
<1>5. Placed(p, 1) BY <1>2, <1>3, <1>4 DEF Placed
<1>6. ReaderAt(1, p, 1) BY <1>2, <1>4 DEF ReaderAt
<1>7. YieldedUpTo(1) BY <1>2 DEF YieldedUpTo
<1>8. InStep BY <1>4, <1>5, <1>6, <1>7 DEF InStep
<1>9. DueListed BY <1>2 DEF DueListed
<1> QED BY <1>1, <1>2, <1>8, <1>9 DEF Delivering

\* For the client, the generator is a channel.
DeliveryStep ==
    \/ /\ Len(yielded) < Len(due)
       /\ yielded' = Append(yielded, due[Len(yielded) + 1])
       /\ due' = due
    \/ /\ yielded' = yielded
       /\ due' = due \/ \E id \in 1..MaxMessages : due' = Append(due, id)

LEMMA NextDelivers ==
    ASSUME FramedInv, Legal, Delivering, [Next]_vars
    PROVE  Delivering' /\ DeliveryStep
<1>1. TypeInv BY DEF FramedInv
<1>2. /\ Len(yielded) <= Len(due) /\ DueListed /\ InStep
      /\ Len(yielded) \in Nat /\ Len(due) \in Nat
      /\ due \in Seq(1..MaxMessages) /\ yielded \in Seq(1..MaxMessages)
  BY <1>1, LenProperties DEF Delivering, TypeInv, TypeOK
<1>3. ASSUME UNCHANGED <<sent, due, yielded>>, InStep' PROVE Delivering' /\ DeliveryStep
  BY <1>2, <1>3 DEF Delivering, DueListed, DeliveryStep
<1>4. ASSUME NEW size \in Sizes, NEW kind \in client.kinds, Write(kind, size)
      PROVE  Delivering' /\ DeliveryStep
  <2>1. kind \in LegalKinds BY DEF Legal
  <2>2. DueListed' /\ Len(due) <= Len(due') BY <1>1, <1>2, <1>4, <2>1, WriteDue
  <2>3. InStep' BY <1>1, <1>4, WriteDelivers
  <2>4. yielded' = yielded BY <1>4 DEF Write
  <2>5. due' = due \/ \E id \in 1..MaxMessages : due' = Append(due, id)
    <3>1. Len(sent') \in 1..MaxMessages
      <4>1. /\ sent \in Seq([kind : client.kinds, size : Sizes])
            /\ [kind |-> kind, size |-> size] \in [kind : client.kinds, size : Sizes]
            /\ Len(sent) \in Nat
        BY <1>1, LenProperties DEF TypeInv, TypeOK
      <4>2. sent' = Append(sent, [kind |-> kind, size |-> size]) BY <1>4 DEF Write
      <4>3. Len(sent') = Len(sent) + 1 BY <4>1, <4>2, AppendProperties
      <4>4. Len(sent) < client.most /\ client.most \in 0..MaxMessages
        BY <1>1, <1>4, ClientTypes DEF Write, TypeInv
      <4> QED BY <4>1, <4>3, <4>4
    <3> QED BY <1>4, <3>1 DEF Write
  <2>6. Len(yielded') <= Len(due')
    <3>1. due' \in Seq(1..MaxMessages)
      <4>1. \A id \in 1..MaxMessages : Append(due, id) \in Seq(1..MaxMessages)
        BY <1>2, AppendProperties
      <4> QED BY <1>2, <2>5, <4>1
    <3>2. Len(due') \in Nat BY <3>1, LenProperties
    <3> QED BY <1>2, <2>2, <2>4, <3>2
  <2> QED BY <2>2, <2>3, <2>4, <2>5, <2>6 DEF Delivering, DeliveryStep
<1>5. ASSUME NEW size \in Sizes, NEW cut \in 0..(size + 1), HangUp(size, cut)
      PROVE  Delivering' /\ DeliveryStep
  <2>1. InStep' BY <1>1, <1>5, HangUpDelivers
  <2> QED BY <1>3, <1>5, <2>1 DEF HangUp
<1>6. ASSUME NEW n \in 1..Len(wire), ReceiveLine(n) \/ ReceiveContent(n)
      PROVE  Delivering' /\ DeliveryStep
  <2>1. Input' = Input BY <1>1, <1>6, ReceiveType DEF Input
  <2>2. UNCHANGED <<clientVars, length, pc, yielded>> BY <1>6 DEF ReceiveLine, ReceiveContent
  <2>3. InStep' BY <2>1, <2>2, RestDelivers
  <2> QED BY <1>3, <2>2, <2>3 DEF clientVars
<1>7. CASE BlankLine \/ SkipLine \/ ReadLength \/ BadLength
  <2>1. InStep' BY <1>1, <1>7, LineDelivers
  <2>2. UNCHANGED <<clientVars, yielded>>
    BY <1>7 DEF BlankLine, SkipLine, ReadLength, BadLength, EndOfHeaders
  <2> QED BY <1>3, <2>1, <2>2 DEF clientVars
<1>8. CASE TakeContent
  <2>1. /\ Len(yielded) < Len(due) /\ yielded' = Append(yielded, due[Len(yielded) + 1])
        /\ InStep'
    BY <1>8, TakeDelivers
  <2>2. sent' = sent /\ due' = due BY <1>8 DEF TakeContent, clientVars
  <2>3. Len(yielded') = Len(yielded) + 1
    <3>1. due[Len(yielded) + 1] \in 1..MaxMessages BY <1>2, <2>1, ElementOfSeq
    <3> QED BY <1>2, <2>1, <3>1, AppendProperties
  <2> QED BY <1>2, <2>1, <2>2, <2>3 DEF Delivering, DueListed, DeliveryStep
<1>9. CASE Resume \/ EndOfInput
  <2>1. /\ UNCHANGED <<clientVars, yielded>> /\ Input' = Input
        /\ pc' = "closed" \/ (pc = "message" /\ pc' = "line" /\ length' = 0)
    BY <1>9 DEF Resume, EndOfInput, Input
  <2>2. InStep' BY <2>1, RestDelivers
  <2> QED BY <1>3, <2>1, <2>2 DEF clientVars
<1>10. CASE UNCHANGED vars
  <2>1. UNCHANGED <<clientVars, yielded, length, pc>> /\ Input' = Input
    BY <1>10 DEF vars, Input
  <2>2. InStep' BY <2>1, RestDelivers
  <2> QED BY <1>3, <2>1, <2>2 DEF clientVars
<1> QED BY <1>4, <1>5, <1>6, <1>7, <1>8, <1>9, <1>10 DEF Next, Client, Reader, Done

LEMMA NextDeliveryInv == DeliveryInv /\ [Next]_vars => DeliveryInv'
<1> SUFFICES ASSUME DeliveryInv, [Next]_vars, Legal' PROVE Delivering'
  BY NextFramedInv DEF DeliveryInv
<1>1. Legal
  <2>1. client' = client
    BY DEF Next, Client, Write, HangUp, Reader, ReceiveLine, ReceiveContent, BlankLine, SkipLine,
           ReadLength, BadLength, EndOfHeaders, TakeContent, Resume, EndOfInput, Done, vars, clientVars
  <2> QED BY <2>1 DEF Legal
<1> QED BY <1>1, NextDelivers DEF DeliveryInv

\* Whatever the chunks, what the generator yields are the messages that a client
\* which keeps to the protocol has sent: whole, once and in order
\* (comms.cpp:24-175).
THEOREM ImplementsChannel == Spec => Channel!SafeSpec
<1>1. Init => Channel!Init BY DEF Init, Channel!Init
<1>2. DeliveryInv /\ [Next]_vars => [Channel!Next]_(Channel!vars)
  <2> SUFFICES ASSUME DeliveryInv, [Next]_vars PROVE [Channel!Next]_(Channel!vars)
    OBVIOUS
  <2>1. Legal' = Legal
    <3>1. client' = client
      BY DEF Next, Client, Write, HangUp, Reader, ReceiveLine, ReceiveContent, BlankLine, SkipLine,
             ReadLength, BadLength, EndOfHeaders, TakeContent, Resume, EndOfInput, Done, vars, clientVars
    <3> QED BY <3>1 DEF Legal
  <2>2. CASE ~Legal BY <2>1, <2>2 DEF Channel!vars
  <2>3. CASE Legal
    <3>1. DeliveryStep BY <2>3, NextDelivers DEF DeliveryInv
    <3>2. CASE /\ Len(yielded) < Len(due)
               /\ yielded' = Append(yielded, due[Len(yielded) + 1])
               /\ due' = due
      BY <2>1, <2>3, <3>2 DEF Channel!Next, Channel!Deliver
    <3>3. ASSUME NEW id \in 1..MaxMessages, yielded' = yielded, due' = Append(due, id)
          PROVE  [Channel!Next]_(Channel!vars)
      BY <2>1, <2>3, <3>3 DEF Channel!Next, Channel!Send
    <3>4. CASE yielded' = yielded /\ due' = due
      BY <2>1, <2>3, <3>4 DEF Channel!vars
    <3> QED BY <3>1, <3>2, <3>3, <3>4 DEF DeliveryStep
  <2> QED BY <2>2, <2>3
<1> QED BY <1>1, <1>2, InitDelivers, NextDeliveryInv, PTL DEF Spec, Channel!SafeSpec

=============================================================================
