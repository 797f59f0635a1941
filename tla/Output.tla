------------------------------- MODULE Output -------------------------------
(***************************************************************************)
(* send_message: the one static streambuf through which every answer goes, *)
(* and the writes asio makes of it.  async_write takes the contents of the *)
(* streambuf when it starts and removes as many bytes from it when it      *)
(* ends, which is when the event loop runs its completion.  A write that   *)
(* the pipe takes only in part is started again for the rest.              *)
(*                                                                         *)
(* Answers are numbered in the order their handlers call send_message; an  *)
(* answer is one or more units of bytes.                                   *)
(***************************************************************************)
EXTENDS Naturals, Sequences, FiniteSets

CONSTANTS
    Sizes,          \* bound: units of bytes in an answer
    PipeSize,       \* units of bytes the pipe to the client holds
    MaxMessages,    \* bound: requests
    Patient         \* the client waits for its answers while the pipe is full

ASSUME OutputBounds == /\ Sizes \subseteq Nat \ {0}
                       /\ PipeSize \in Nat \ {0}
                       /\ MaxMessages \in Nat
                       /\ Patient \in BOOLEAN

VARIABLES
    sizes,      \* the sizes of the answers that have been begun
    buf,        \* the contents of the streambuf
    waiting,    \* writes waiting for the pipe, in the order of the descriptor
    events,     \* completions the event loop has to run
    pipe,       \* bytes in the pipe
    received    \* bytes the client has read

vars == <<sizes, buf, waiting, events, pipe, received>>

\* A unit of an answer, or of memory that was moved under a write.
Unit == [id : 0..MaxMessages, part : Nat]
Moved == [id |-> 0, part |-> 0]
Answer(id, size) == [p \in 1..size |-> [id |-> id, part |-> p]]

\* `total' is the number of bytes the read or the write is about.
ReadEvent(size) == [kind |-> "read", left |-> <<>>, total |-> size]
WriteEvent(left, total) == [kind |-> "write", left |-> left, total |-> total]

Init ==
    /\ sizes = <<>>
    /\ buf = <<>>
    /\ waiting = <<>>
    /\ events = <<>>
    /\ pipe = <<>>
    /\ received = <<>>

Least(m, n) == IF m < n THEN m ELSE n
Drop(s, n) == SubSeq(s, n + 1, Len(s))

Writes(e) == e.kind = "write"
InFlight == {waiting[i] : i \in 1..Len(waiting)}
            \cup {events[i] : i \in {i \in 1..Len(events) : Writes(events[i])}}

-----------------------------------------------------------------------------
\* The bytes of the first n answers of these sizes, and of those there are.
Total(of, n) ==
    LET sum[i \in 0..Len(of)] == IF i = 0 THEN 0 ELSE sum[i - 1] + of[i]
    IN  sum[n]
Bytes(n) == Total(sizes, n)

\* How many answers the client has, and the bytes of those it does not have yet.
Whole == Cardinality({i \in 1..Len(sizes) : Bytes(i) <= Len(received)})
Due == Bytes(Len(sizes)) - Bytes(Whole)

\* A request has been read, the dispatch loop is to be resumed; the answer will
\* have `size' units.  A patient client asks when it has all its answers, or as
\* long as the pipe holds those it does not have.
RequestArrives(size) ==
    /\ Len(sizes) < MaxMessages
    /\ \A i \in 1..Len(events) : Writes(events[i])
    /\ Patient => Due = 0 \/ Due + size <= PipeSize
    /\ events' = Append(events, ReadEvent(size))
    /\ UNCHANGED <<sizes, buf, waiting, pipe, received>>

\* The bytes that fit in the pipe go, and the completion is posted.
Transfer(left, total, queue) ==
    LET n == Least(Len(left), PipeSize - Len(pipe))
    IN  /\ n > 0
        /\ pipe' = pipe \o SubSeq(left, 1, n)
        /\ events' = Append(queue, WriteEvent(Drop(left, n), total))

\* A write is tried at once, unless others wait already.  When it does not fit,
\* the pipe may take a part of it or nothing (POSIX: nothing of a short one).
StartWrite(left, total, others, queue) ==
    \/ /\ others = <<>>
       /\ Transfer(left, total, queue)
       /\ waiting' = others
    \/ /\ others # <<>> \/ Len(pipe) + Len(left) > PipeSize
       /\ waiting' = Append(others, WriteEvent(left, total))
       /\ events' = queue
       /\ UNCHANGED pipe

\* prepare moves the contents when there is not enough room behind them; the
\* writes in flight still point to where they were.
MovedUnder(writes, moves) ==
    [i \in 1..Len(writes) |->
        IF moves
        THEN [writes[i] EXCEPT !.left = [j \in 1..Len(writes[i].left) |-> Moved]]
        ELSE writes[i]]

\* Mutant: a request is handled twice.
HandleRequest_Twice ==
    /\ events # <<>>
    /\ ~Writes(Head(events))
    /\ sizes' = Append(sizes, Head(events).total)
    /\ buf' = buf \o Answer(Len(sizes'), Head(events).total)
    /\ \E moves \in BOOLEAN :
          StartWrite(buf', Len(buf'), MovedUnder(waiting, moves),
                     MovedUnder(events, moves))
    /\ UNCHANGED received

\* Mutant: the end of the answer is still in the ostream when the write starts.
HandleRequest_Unflushed ==
    /\ events # <<>>
    /\ ~Writes(Head(events))
    /\ sizes' = Append(sizes, Head(events).total)
    /\ buf' = buf \o Answer(Len(sizes'), Head(events).total)
    /\ \E moves \in BOOLEAN :
          StartWrite(SubSeq(buf', 1, Len(buf') - 1), Len(buf') - 1,
                     MovedUnder(waiting, moves), MovedUnder(Tail(events), moves))
    /\ UNCHANGED received

\* The handler of a request calls send_message.
HandleRequest ==
    /\ events # <<>>
    /\ ~Writes(Head(events))
    /\ sizes' = Append(sizes, Head(events).total)
    /\ buf' = buf \o Answer(Len(sizes'), Head(events).total)
    /\ \E moves \in BOOLEAN :
          StartWrite(buf', Len(buf'), MovedUnder(waiting, moves),
                     MovedUnder(Tail(events), moves))
    /\ UNCHANGED received

CompleteWrite ==
    /\ events # <<>>
    /\ Writes(Head(events))
    /\ LET write == Head(events)
       IN  IF write.left = <<>>
           THEN /\ buf' = Drop(buf, write.total)
                /\ events' = Tail(events)
                /\ UNCHANGED <<waiting, pipe>>
           ELSE /\ StartWrite(write.left, write.total, waiting, Tail(events))
                /\ UNCHANGED buf
    /\ UNCHANGED <<sizes, received>>

\* The pipe has room again for the first of the writes that wait.
PipeReady ==
    /\ waiting # <<>>
    /\ LET write == Head(waiting)
       IN  Transfer(write.left, write.total, events)
    /\ waiting' = Tail(waiting)
    /\ UNCHANGED <<sizes, buf, received>>

\* The client reads, one unit at a time.
ClientReads ==
    /\ pipe # <<>>
    /\ received' = Append(received, Head(pipe))
    /\ pipe' = Tail(pipe)
    /\ UNCHANGED <<sizes, buf, waiting, events>>

-----------------------------------------------------------------------------
EventLoop == HandleRequest \/ CompleteWrite \/ PipeReady

\* The client has read what there is and asks for nothing more.
Idle == /\ events = <<>> /\ waiting = <<>> /\ pipe = <<>>
        /\ UNCHANGED vars

Next == (\E size \in Sizes : RequestArrives(size)) \/ EventLoop \/ ClientReads \/ Idle

\* ctx.run() runs what is ready; the client reads its end of the pipe.
Spec == Init /\ [][Next]_vars /\ WF_vars(EventLoop) /\ WF_vars(ClientReads)

-----------------------------------------------------------------------------
(* Properties.                                                             *)

Event == [kind : {"read", "write"}, left : Seq(Unit), total : Nat]

\* The streambuf, the writes that point into it and the pipe keep within their
\* types, and the pipe within its size (comms.cpp:177-197).
TypeOK ==
    /\ sizes \in Seq(Sizes)
    /\ Len(sizes) <= MaxMessages
    /\ buf \in Seq(Unit)
    /\ waiting \in Seq(Event)
    /\ \A i \in 1..Len(waiting) : Writes(waiting[i])
    /\ events \in Seq(Event)
    /\ \A i \in 1..Len(events) : Writes(events[i]) \/ events[i].total \in Sizes
    /\ pipe \in Seq(Unit)
    /\ Len(pipe) <= PipeSize
    /\ received \in Seq(Unit)

\* What the client makes of the bytes it has: an answer, or 0 for garbage.
Delivered ==
    LET bytes(i) == SubSeq(received, Bytes(i - 1) + 1, Bytes(i))
    IN  [i \in 1..Whole |->
            IF bytes(i) = Answer(bytes(i)[1].id, sizes[i]) THEN bytes(i)[1].id
            ELSE 0]

Channel == INSTANCE MessageChannel WITH
              Ids <- 1..MaxMessages,
              sent <- [i \in 1..Len(sizes) |-> i],
              delivered <- Delivered

\* The client receives the answers whole, each once, in order, and in the end
\* all of them (comms.cpp:177-197).
AnswersArrive == Channel!Spec

\* Between writes the streambuf is empty: no byte of an answer is left over for
\* the next (comms.cpp:180).
BufferDrained == InFlight = {} => buf = <<>>
=============================================================================
