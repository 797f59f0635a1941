------------------------------ MODULE Framing ------------------------------
(***************************************************************************)
(* read_message, the generator that cuts the input of the server into      *)
(* messages.  The input is a sequence of tokens: a token is a header line  *)
(* with its "\n", or one unit of the text of a message, which has none.    *)
(* The client's writes reach the server in chunks that need not respect    *)
(* the borders of messages; async_read_until takes whatever has arrived,   *)
(* async_read no more than the rest of the text it waits for.              *)
(*                                                                         *)
(* `pc' is where the generator is suspended: "line" in async_read_until,   *)
(* "content" in async_read, "message" in co_yield; "closed" when it has    *)
(* returned, "failed" when json::parse has thrown.                         *)
(***************************************************************************)
EXTENDS Integers, Sequences

CONSTANTS
    Clients,      \* clients the server may have, each a record with
                  \*    kinds    the ways it writes the headers of a message
                  \*    newline  it ends a text with a newline it does not count
                  \*    most     bound: messages it sends
    Sizes,        \* bound: the units of text in a message
    MaxMessages   \* bound: messages any client sends

AllKinds == {"plain", "typed", "empty", "bad", "twice"}

\* The protocol knows these only, and no newline after the text.
LegalKinds == {"plain", "typed", "empty"}

ASSUME ClientsAssumption ==
    Clients \subseteq [kinds : SUBSET AllKinds, newline : BOOLEAN,
                 most : 0..MaxMessages]
ASSUME SizesAssumption == Sizes \subseteq Nat \ {0}
ASSUME FramingBounds == MaxMessages \in Nat

VARIABLES
    client,   \* the client of this session
    sent,     \* the messages the client has written, with their headers' kind
    due,      \* the numbers of those that have a text and a length of it
    wire,     \* tokens in the pipe
    eof,      \* the client has closed its end
    buf,      \* the streambuf
    length,   \* content_length
    pc,       \* where the generator is
    yielded   \* the numbers of the messages it has yielded

clientVars == <<client, sent, due, eof>>
vars == <<clientVars, wire, buf, length, pc, yielded>>

Init ==
    /\ client \in Clients
    /\ sent = <<>> /\ due = <<>>
    /\ wire = <<>>
    /\ eof = FALSE
    /\ buf = <<>>
    /\ length = 0
    /\ pc = "line"
    /\ yielded = <<>>

-----------------------------------------------------------------------------
(* The client.                                                             *)

\* "length": Content-Length with a number; "bad": Content-Length with no value
\* or none that from_chars takes; "other": another header, or a line without a
\* colon; "blank": an empty line; "text": text.
Line(kind) == [kind |-> kind, value |-> 0, message |-> 0]
LengthLine(n) == [kind |-> "length", value |-> n, message |-> 0]

Headers(kind, size) ==
    CASE kind = "plain" -> <<LengthLine(size)>>
      [] kind = "typed" -> <<Line("other"), LengthLine(size)>>
      [] kind = "empty" -> <<LengthLine(0)>>
      [] kind = "bad"   -> <<Line("bad")>>
      [] kind = "twice" -> <<LengthLine(size), Line("bad")>>

Text(id, size) ==
    [i \in 1..size |-> [kind |-> "text", value |-> i, message |-> id]]

Packet(id, kind, size) ==
    Headers(kind, size) \o <<Line("blank")>>
    \o (IF kind = "empty" THEN <<>> ELSE Text(id, size))
    \o (IF client.newline THEN <<Line("blank")>> ELSE <<>>)

Write(kind, size) ==
    /\ ~eof
    /\ Len(sent) < client.most
    /\ sent' = Append(sent, [kind |-> kind, size |-> size])
    /\ due' = IF kind \in {"plain", "typed"} THEN Append(due, Len(sent')) ELSE due
    /\ wire' = wire \o Packet(Len(sent'), kind, size)
    /\ UNCHANGED <<client, eof, buf, length, pc, yielded>>

\* The client ends, perhaps in the middle of a message: the first `cut' tokens
\* of it are written, less than all its text.
HangUp(size, cut) ==
    /\ ~eof
    /\ eof' = TRUE
    /\ wire' = wire \o SubSeq(Packet(0, "plain", size), 1, cut)
    /\ UNCHANGED <<client, sent, due, buf, length, pc, yielded>>

-----------------------------------------------------------------------------
(* read_message.                                                           *)

HasLine == \E i \in 1..Len(buf) : buf[i].kind # "text"

LineEnd == CHOOSE i \in 1..Len(buf) :
              /\ buf[i].kind # "text"
              /\ \A j \in 1..(i - 1) : buf[j].kind = "text"

\* Text before a line becomes the beginning of it.  It is JSON: the name before
\* its first colon is never content-length.
LineKind == IF LineEnd = 1 THEN buf[1].kind ELSE "other"

AtLine == pc = "line" /\ HasLine

ConsumeLine == buf' = SubSeq(buf, LineEnd + 1, Len(buf))

\* A message without length is given up: the next line starts a new one.
EndOfHeaders ==
    /\ pc' = IF length = 0 THEN "line" ELSE "content"
    /\ UNCHANGED <<clientVars, wire, length, yielded>>

ReceiveLine(n) ==
    /\ pc = "line"
    /\ ~HasLine
    /\ n \in 1..Len(wire)
    /\ buf' = buf \o SubSeq(wire, 1, n)
    /\ wire' = SubSeq(wire, n + 1, Len(wire))
    /\ UNCHANGED <<clientVars, length, pc, yielded>>

BlankLine ==
    /\ AtLine
    /\ LineKind = "blank"
    /\ ConsumeLine
    /\ EndOfHeaders

SkipLine ==
    /\ AtLine
    /\ LineKind = "other"
    /\ ConsumeLine
    /\ UNCHANGED <<clientVars, wire, length, pc, yielded>>

\* Mutant: what has arrived already is taken off the length.
ReadLength_Rest ==
    /\ AtLine
    /\ LineKind = "length"
    /\ length' = buf[1].value - (Len(buf) - 1)
    /\ ConsumeLine
    /\ UNCHANGED <<clientVars, wire, pc, yielded>>

ReadLength ==
    /\ AtLine
    /\ LineKind = "length"
    /\ length' = buf[1].value
    /\ ConsumeLine
    /\ UNCHANGED <<clientVars, wire, pc, yielded>>

\* Leaves the loop over the headers before their end, with the length that an
\* earlier line may have set.
BadLength ==
    /\ AtLine
    /\ LineKind = "bad"
    /\ ConsumeLine
    /\ EndOfHeaders

Missing == length - Len(buf)

ReceiveContent(n) ==
    /\ pc = "content"
    /\ Len(buf) < length
    /\ n \in 1..Len(wire)
    /\ n <= Missing
    /\ buf' = buf \o SubSeq(wire, 1, n)
    /\ wire' = SubSeq(wire, n + 1, Len(wire))
    /\ UNCHANGED <<clientVars, length, pc, yielded>>

\* What json::parse accepts is the text of one message.
Parses(content) ==
    /\ content[1].message # 0
    /\ content = Text(content[1].message, sent[content[1].message].size)

\* Mutant: everything in the buffer is consumed with the message.
TakeContent_Drains ==
    /\ pc = "content"
    /\ Len(buf) >= length
    /\ LET content == SubSeq(buf, 1, length)
       IN  IF Parses(content)
           THEN /\ yielded' = Append(yielded, content[1].message)
                /\ pc' = "message"
           ELSE pc' = "failed" /\ UNCHANGED yielded
    /\ buf' = <<>>
    /\ UNCHANGED <<clientVars, wire, length>>

TakeContent ==
    /\ pc = "content"
    /\ Len(buf) >= length
    /\ LET content == SubSeq(buf, 1, length)
       IN  IF Parses(content)
           THEN /\ yielded' = Append(yielded, content[1].message)
                /\ pc' = "message"
           ELSE pc' = "failed" /\ UNCHANGED yielded
    /\ buf' = SubSeq(buf, length + 1, Len(buf))
    /\ UNCHANGED <<clientVars, wire, length>>

\* Mutant: content_length is not reset for the next message.
Resume_KeepsLength ==
    /\ pc = "message"
    /\ pc' = "line"
    /\ UNCHANGED <<clientVars, wire, buf, length, yielded>>

\* The dispatch loop asks for the next message.
Resume ==
    /\ pc = "message"
    /\ pc' = "line"
    /\ length' = 0
    /\ UNCHANGED <<clientVars, wire, buf, yielded>>

\* Mutant: the error of the second read is not looked at.
EndOfInput_BetweenLines ==
    /\ eof
    /\ wire = <<>>
    /\ pc = "line" /\ ~HasLine
    /\ pc' = "closed"
    /\ UNCHANGED <<clientVars, wire, buf, length, yielded>>

EndOfInput ==
    /\ eof
    /\ wire = <<>>
    /\ \/ pc = "line" /\ ~HasLine
       \/ pc = "content" /\ Len(buf) < length
    /\ pc' = "closed"
    /\ UNCHANGED <<clientVars, wire, buf, length, yielded>>

-----------------------------------------------------------------------------
Client ==
    \E size \in Sizes :
        \/ \E kind \in client.kinds : Write(kind, size)
        \/ \E cut \in 0..(size + 1) : HangUp(size, cut)

Reader ==
    \/ \E n \in 1..Len(wire) : ReceiveLine(n) \/ ReceiveContent(n)
    \/ BlankLine \/ SkipLine \/ ReadLength \/ BadLength
    \/ TakeContent \/ Resume \/ EndOfInput

\* The generator is over, or waits for input the client never sends.
Done == /\ \/ pc \in {"closed", "failed"}
           \/ wire = <<>> /\ ~HasLine /\ pc = "line" /\ Len(sent) = client.most
        /\ UNCHANGED vars

Next == Client \/ Reader \/ Done

\* The event loop resumes the generator whenever input has arrived for it.
Spec == Init /\ [][Next]_vars /\ WF_vars(Reader)

-----------------------------------------------------------------------------
(* Properties.                                                             *)

TokenKinds == {"length", "bad", "other", "blank", "text"}
Token == [kind : TokenKinds, value : Nat, message : 0..MaxMessages]

\* The types of read_message's locals and of its input (comms.cpp:27-173).
TypeOK ==
    /\ client \in Clients
    /\ sent \in Seq([kind : client.kinds, size : Sizes])
    /\ Len(sent) <= MaxMessages
    /\ due \in Seq(1..MaxMessages)
    /\ wire \in Seq(Token)
    /\ eof \in BOOLEAN
    /\ buf \in Seq(Token)
    /\ length \in Nat
    /\ pc \in {"line", "content", "message", "closed", "failed"}
    /\ yielded \in Seq(1..MaxMessages)

Legal == client.kinds \subseteq LegalKinds /\ ~client.newline

\* What is due is what a reader of the protocol would deliver.
Channel == INSTANCE MessageChannel WITH
              Ids <- 1..MaxMessages,
              sent <- IF Legal THEN due ELSE <<>>,
              delivered <- IF Legal THEN yielded ELSE <<>>

\* Whatever the chunks, the generator delivers what a client that keeps to the
\* protocol has sent, in order and all of it (comms.cpp:24-175).
DeliversAll == Channel!Spec

\* A Content-Length that is no number costs messages, never the server
\* (comms.cpp:117-120, 136-142): only an earlier length in the same headers
\* makes json::parse see what is not the text of a message.
BadLengthIsSurvived ==
    pc = "failed" => \E i \in 1..Len(sent) : sent[i].kind = "twice"

Yielded(id) == \E i \in 1..Len(yielded) : yielded[i] = id
Recognisable(id) == id <= Len(sent) /\ sent[id].kind = "plain"
GivesOneLength == "twice" \notin client.kinds

\* With a newline after every text the reader is back in step after a
\* Content-Length that it cannot read: the next well-formed message is delivered
\* (comms.cpp:117-142).
RecoversAtNewline ==
    \A id \in 1..MaxMessages :
        client.newline /\ GivesOneLength /\ Recognisable(id) ~> Yielded(id)

\* When the client is gone the generator returns, so the server ends, also when
\* it is gone in the middle of a message (comms.cpp:52-55, 153-156).
EndsWithInput == eof ~> pc \in {"closed", "failed"}
=============================================================================
