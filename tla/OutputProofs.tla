---------------------------- MODULE OutputProofs ----------------------------
(***************************************************************************)
(* Theorems about Output, for answers of any sizes and a pipe of any size. *)
(***************************************************************************)
EXTENDS Output, FiniteSetTheorems, Iteration, SequenceTheorems, TLAPS

\* A write of at least n bytes is among these events.
Holds(s, n) == \E i \in 1..Len(s) : Writes(s[i]) /\ s[i].total >= n

\* What the streambuf contains is the business of a write in flight.
Covered == buf # <<>> => Holds(waiting, Len(buf)) \/ Holds(events, Len(buf))

\* At most one request is read at a time, and it is not one too many.
OneRequest ==
    \A i \in 1..Len(events) : ~Writes(events[i]) =>
        /\ Len(sizes) < MaxMessages
        /\ \A j \in 1..Len(events) : ~Writes(events[j]) => i = j

OutInv == TypeOK /\ Covered /\ OneRequest

LEMMA InitInv == Init => OutInv
BY OutputBounds DEF Init, OutInv, TypeOK, Covered, OneRequest, Holds

LEMMA DropType ==
    ASSUME NEW s \in Seq(Unit), NEW n \in Nat
    PROVE  /\ Drop(s, n) \in Seq(Unit)
           /\ Drop(s, n) # <<>> => Len(s) > n
           /\ Len(Drop(s, n)) <= Len(s)
<1>1. \A i \in (n + 1)..Len(s) : s[i] \in Unit
  OBVIOUS
<1>2. Drop(s, n) \in Seq(Unit) /\ Len(Drop(s, n)) = IF n + 1 <= Len(s) THEN Len(s) - n ELSE 0
  BY <1>1, SubSeqProperties DEF Drop
<1>. QED
  BY <1>2, EmptySeq

LEMMA PartType ==
    ASSUME NEW s \in Seq(Unit), NEW n \in 0..Len(s)
    PROVE  SubSeq(s, 1, n) \in Seq(Unit) /\ Len(SubSeq(s, 1, n)) = n
<1>1. \A i \in 1..n : s[i] \in Unit
  OBVIOUS
<1>. QED
  BY <1>1, SubSeqProperties

\* What becomes of the two queues when an event of a write is appended to one.
LEMMA AppendHolds ==
    ASSUME NEW s \in Seq(Event), NEW e \in Event, NEW n \in Nat
    PROVE  /\ Append(s, e) \in Seq(Event)
           /\ Holds(s, n) => Holds(Append(s, e), n)
           /\ Writes(e) /\ e.total >= n => Holds(Append(s, e), n)
BY DEF Holds

LEMMA TailHolds ==
    ASSUME NEW s \in Seq(Event), s # <<>>, NEW n \in Nat, Holds(s, n)
    PROVE  Holds(Tail(s), n) \/ (Writes(Head(s)) /\ Head(s).total >= n)
<1>1. PICK i \in 1..Len(s) : Writes(s[i]) /\ s[i].total >= n
  BY DEF Holds
<1>2. CASE i = 1
  BY <1>1, <1>2
<1>3. CASE i # 1
  <2>1. Tail(s)[i - 1] = s[i] /\ i - 1 \in 1..Len(Tail(s))
    BY <1>3
  <2>. QED
    BY <1>1, <2>1 DEF Holds
<1>. QED
  BY <1>2, <1>3

\* A write of n bytes is one of at least m, for every m below n.
LEMMA HoldsFewer ==
    ASSUME NEW s \in Seq(Event), NEW n \in Nat, NEW m \in Nat, m <= n, Holds(s, n)
    PROVE  Holds(s, m)
<1>1. PICK i \in 1..Len(s) : Writes(s[i]) /\ s[i].total >= n
  BY DEF Holds
<1>2. s[i] \in Event
  OBVIOUS
<1>3. s[i].total \in Nat
  BY <1>2 DEF Event
<1>. QED
  BY <1>1, <1>3 DEF Holds

LEMMA MovedUnits ==
    ASSUME NEW s \in Seq(Unit)
    PROVE  /\ [j \in 1..Len(s) |-> Moved] \in Seq(Unit)
           /\ Len([j \in 1..Len(s) |-> Moved]) = Len(s)
BY OutputBounds DEF Moved, Unit

\* MovedUnder changes the bytes of writes only.
LEMMA MovedWrites ==
    ASSUME NEW s \in Seq(Event), NEW moves \in BOOLEAN
    PROVE  /\ MovedUnder(s, moves) \in Seq(Event)
           /\ Len(MovedUnder(s, moves)) = Len(s)
           /\ \A i \in 1..Len(s) :
                 /\ MovedUnder(s, moves)[i].kind = s[i].kind
                 /\ MovedUnder(s, moves)[i].total = s[i].total
           /\ \A n \in Nat : Holds(s, n) => Holds(MovedUnder(s, moves), n)
<1> DEFINE Item(i) == IF moves
                      THEN [s[i] EXCEPT !.left = [j \in 1..Len(s[i].left) |-> Moved]]
                      ELSE s[i]
<1>1. ASSUME NEW i \in 1..Len(s)
      PROVE  Item(i) \in Event /\ Item(i).kind = s[i].kind /\ Item(i).total = s[i].total
  <2>0. s[i] \in Event
    OBVIOUS
  <2>1. s[i].left \in Seq(Unit)
    BY <2>0 DEF Event
  <2>2. [j \in 1..Len(s[i].left) |-> Moved] \in Seq(Unit)
    BY <2>1, MovedUnits
  <2>. QED
    BY <2>0, <2>2 DEF Event
<1>2. MovedUnder(s, moves) = [i \in 1..Len(s) |-> Item(i)]
  BY DEF MovedUnder
<1>3. [i \in 1..Len(s) |-> Item(i)] \in Seq(Event)
  <2>1. [i \in 1..Len(s) |-> Item(i)] \in [1..Len(s) -> Event]
    BY <1>1
  <2>. QED
    BY <2>1, SeqDef
<1>4. Len([i \in 1..Len(s) |-> Item(i)]) = Len(s)
  BY <1>3, LenProperties
<1>5. \A i \in 1..Len(s) : /\ MovedUnder(s, moves)[i].kind = s[i].kind
                           /\ MovedUnder(s, moves)[i].total = s[i].total
  BY <1>1, <1>2
<1>. QED
  BY <1>2, <1>3, <1>4, <1>5 DEF Holds, Writes

LEMMA MovedStayWrites ==
    ASSUME NEW s \in Seq(Event), NEW moves \in BOOLEAN,
           \A i \in 1..Len(s) : Writes(s[i])
    PROVE  /\ MovedUnder(s, moves) \in Seq(Event)
           /\ \A i \in 1..Len(MovedUnder(s, moves)) : Writes(MovedUnder(s, moves)[i])
<1> DEFINE moved == MovedUnder(s, moves)
<1>1. /\ moved \in Seq(Event) /\ Len(moved) = Len(s)
      /\ \A i \in 1..Len(s) : moved[i].kind = s[i].kind
  BY MovedWrites
<1> HIDE DEF moved
<1>2. \A i \in 1..Len(moved) : Writes(moved[i])
  BY <1>1 DEF Writes
<1>. QED
  BY <1>1, <1>2 DEF moved

\* The bytes the pipe takes keep to its size.
LEMMA TransferStep ==
    ASSUME pipe \in Seq(Unit), Len(pipe) <= PipeSize,
           NEW left \in Seq(Unit), NEW total \in Nat, NEW queue \in Seq(Event),
           Transfer(left, total, queue)
    PROVE  /\ pipe' \in Seq(Unit) /\ Len(pipe') <= PipeSize
           /\ \E e \in Event : /\ events' = Append(queue, e)
                              /\ Writes(e) /\ e.total = total
<1> DEFINE n == Least(Len(left), PipeSize - Len(pipe))
<1>1. n \in 0..Len(left) /\ n <= PipeSize - Len(pipe)
  BY OutputBounds DEF Least, Transfer
<1>2. SubSeq(left, 1, n) \in Seq(Unit) /\ Len(SubSeq(left, 1, n)) = n
  BY <1>1, PartType
<1>3. pipe' = pipe \o SubSeq(left, 1, n)
  BY DEF Transfer
<1>4. pipe' \in Seq(Unit) /\ Len(pipe') <= PipeSize
  BY <1>1, <1>2, <1>3, ConcatProperties, OutputBounds
<1>5. WriteEvent(Drop(left, n), total) \in Event
  BY <1>1, DropType DEF WriteEvent, Event
<1>6. /\ events' = Append(queue, WriteEvent(Drop(left, n), total))
      /\ WriteEvent(Drop(left, n), total).total = total
      /\ Writes(WriteEvent(Drop(left, n), total))
  BY DEF Transfer, WriteEvent, Writes
<1>. QED
  BY <1>4, <1>5, <1>6

\* A write that is started is in flight, with all there are already.
LEMMA StartWriteStep ==
    ASSUME pipe \in Seq(Unit), Len(pipe) <= PipeSize,
           NEW left \in Seq(Unit), NEW total \in Nat,
           NEW others \in Seq(Event), NEW queue \in Seq(Event),
           \A i \in 1..Len(others) : Writes(others[i]),
           StartWrite(left, total, others, queue)
    PROVE  /\ pipe' \in Seq(Unit) /\ Len(pipe') <= PipeSize
           /\ waiting' \in Seq(Event)
           /\ \A i \in 1..Len(waiting') : Writes(waiting'[i])
           /\ events' \in Seq(Event)
           /\ \A i \in 1..Len(events') :
                 Writes(events'[i]) \/ (i \in 1..Len(queue) /\ events'[i] = queue[i])
           /\ \A n \in Nat : total >= n \/ Holds(others, n) \/ Holds(queue, n) =>
                 Holds(waiting', n) \/ Holds(events', n)
<1>1. CASE Transfer(left, total, queue) /\ waiting' = others
  <2>1. /\ pipe' \in Seq(Unit) /\ Len(pipe') <= PipeSize
        /\ \E e \in Event : /\ events' = Append(queue, e)
                           /\ Writes(e) /\ e.total = total
    BY <1>1, TransferStep
  <2>2. PICK e \in Event : events' = Append(queue, e) /\ Writes(e) /\ e.total = total
    BY <2>1
  <2>3. \A i \in 1..Len(events') :
           Writes(events'[i]) \/ (i \in 1..Len(queue) /\ events'[i] = queue[i])
    BY <2>2, AppendProperties
  <2>4. ASSUME NEW n \in Nat, total >= n \/ Holds(others, n) \/ Holds(queue, n)
        PROVE  Holds(waiting', n) \/ Holds(events', n)
    BY <1>1, <2>2, <2>4, AppendHolds
  <2>. QED
    BY <1>1, <2>1, <2>2, <2>3, <2>4, AppendProperties
<1>2. CASE /\ waiting' = Append(others, WriteEvent(left, total))
           /\ events' = queue
           /\ UNCHANGED pipe
  <2>1. /\ WriteEvent(left, total) \in Event
        /\ Writes(WriteEvent(left, total)) /\ WriteEvent(left, total).total = total
    BY DEF WriteEvent, Event, Writes
  <2>2. \A i \in 1..Len(waiting') : Writes(waiting'[i])
    BY <1>2, <2>1, AppendProperties
  <2>3. ASSUME NEW n \in Nat, total >= n \/ Holds(others, n) \/ Holds(queue, n)
        PROVE  Holds(waiting', n) \/ Holds(events', n)
    BY <1>2, <2>1, <2>3, AppendHolds
  <2>. QED
    BY <1>2, <2>1, <2>2, <2>3, AppendProperties
<1>. QED
  BY <1>1, <1>2 DEF StartWrite

-----------------------------------------------------------------------------
LEMMA RequestArrivesInv ==
    ASSUME OutInv, NEW size \in Sizes, RequestArrives(size)
    PROVE  OutInv'
<1> USE DEF OutInv, TypeOK, RequestArrives
<1>1. /\ ReadEvent(size) \in Event /\ ReadEvent(size).total = size
      /\ ~Writes(ReadEvent(size))
  BY OutputBounds, EmptySeq DEF ReadEvent, Event, Writes
<1>2. /\ events' \in Seq(Event) /\ Len(events') = Len(events) + 1
      /\ \A i \in 1..Len(events) : events'[i] = events[i]
      /\ events'[Len(events) + 1] = ReadEvent(size)
  BY <1>1, AppendProperties
<1>3. \A i \in 1..Len(events') : Writes(events'[i]) \/ events'[i].total \in Sizes
  <2> SUFFICES ASSUME NEW i \in 1..Len(events')
               PROVE  Writes(events'[i]) \/ events'[i].total \in Sizes
    OBVIOUS
  <2>1. CASE i \in 1..Len(events)
    BY <1>2, <2>1
  <2>2. CASE i = Len(events) + 1
    BY <1>1, <1>2, <2>2
  <2>. QED
    BY <1>2, <2>1, <2>2
<1>4. TypeOK'
  BY <1>2, <1>3
<1>5. Covered'
  <2>1. \A n \in Nat : Holds(events, n) => Holds(events', n)
    BY <1>1, AppendHolds
  <2>2. Len(buf) \in Nat /\ buf' = buf /\ waiting' = waiting
    OBVIOUS
  <2>. QED
    BY <2>1, <2>2 DEF Covered
<1>6. OneRequest'
  BY <1>1, <1>2 DEF OneRequest
<1>. QED
  BY <1>4, <1>5, <1>6

LEMMA HandleRequestInv == OutInv /\ HandleRequest => OutInv'
<1> SUFFICES ASSUME OutInv, HandleRequest PROVE OutInv'
  OBVIOUS
<1> USE DEF OutInv, TypeOK
<1> DEFINE request == Head(events)
           size == request.total
<1>1. /\ events # <<>> /\ ~Writes(request)
      /\ request \in Event /\ size \in Sizes
      /\ Len(sizes) < MaxMessages
      /\ Tail(events) \in Seq(Event)
      /\ \A i \in 1..Len(Tail(events)) : Writes(Tail(events)[i])
  <2>1. events # <<>> /\ ~Writes(request)
    BY DEF HandleRequest
  <2>2. 1 \in 1..Len(events) /\ events[1] = request
    BY <2>1, EmptySeq
  <2>3. Len(sizes) < MaxMessages /\ size \in Sizes
    BY <2>1, <2>2 DEF OneRequest
  <2>4. /\ request \in Event /\ Tail(events) \in Seq(Event)
        /\ Len(Tail(events)) = Len(events) - 1
        /\ \A i \in 1..Len(Tail(events)) : Tail(events)[i] = events[i + 1]
    BY <2>1, HeadTailProperties
  <2>5. ASSUME NEW i \in 1..Len(Tail(events)) PROVE Writes(Tail(events)[i])
    <3>1. i + 1 \in 1..Len(events) /\ i + 1 # 1
      BY <2>4
    <3>. QED
      BY <3>1, <2>1, <2>2, <2>4 DEF OneRequest
  <2>. QED
    BY <2>1, <2>3, <2>4, <2>5
<1>2. /\ sizes' = Append(sizes, size) /\ received' = received
      /\ buf' = buf \o Answer(Len(sizes'), size)
      /\ \E moves \in BOOLEAN :
            StartWrite(buf', Len(buf'), MovedUnder(waiting, moves),
                       MovedUnder(Tail(events), moves))
  BY DEF HandleRequest
<1>3. sizes' \in Seq(Sizes) /\ Len(sizes') = Len(sizes) + 1 /\ Len(sizes') \in 1..MaxMessages
  BY <1>1, <1>2, AppendProperties, OutputBounds
<1>4. buf' \in Seq(Unit) /\ Len(buf') \in Nat
  <2>1. size \in Nat
    BY <1>1, OutputBounds
  <2>2. Answer(Len(sizes'), size) \in [1..size -> Unit]
    BY <1>3, <2>1 DEF Answer, Unit
  <2>3. Answer(Len(sizes'), size) \in Seq(Unit)
    BY <2>1, <2>2, SeqDef
  <2>. QED
    BY <1>2, <2>3, ConcatProperties
<1>5. PICK moves \in BOOLEAN :
          StartWrite(buf', Len(buf'), MovedUnder(waiting, moves),
                     MovedUnder(Tail(events), moves))
  BY <1>2
<1>6. /\ MovedUnder(waiting, moves) \in Seq(Event)
      /\ \A i \in 1..Len(MovedUnder(waiting, moves)) : Writes(MovedUnder(waiting, moves)[i])
  BY MovedStayWrites
<1>7. /\ MovedUnder(Tail(events), moves) \in Seq(Event)
      /\ \A i \in 1..Len(MovedUnder(Tail(events), moves)) :
            Writes(MovedUnder(Tail(events), moves)[i])
  BY <1>1, MovedStayWrites
<1>8. /\ pipe' \in Seq(Unit) /\ Len(pipe') <= PipeSize
      /\ waiting' \in Seq(Event)
      /\ \A i \in 1..Len(waiting') : Writes(waiting'[i])
      /\ events' \in Seq(Event)
      /\ \A i \in 1..Len(events') : Writes(events'[i])
      /\ Holds(waiting', Len(buf')) \/ Holds(events', Len(buf'))
  BY <1>4, <1>5, <1>6, <1>7, StartWriteStep
<1>9. TypeOK'
  BY <1>2, <1>3, <1>4, <1>8
<1>10. Covered' /\ OneRequest'
  BY <1>8 DEF Covered, OneRequest
<1>. QED
  BY <1>9, <1>10

\* A write that has begun stays in flight until all its bytes are out.
LEMMA MovedOnInv ==
    ASSUME OutInv, NEW write \in Event, Writes(write),
           NEW others \in Seq(Event), NEW queue \in Seq(Event),
           \A i \in 1..Len(others) : Writes(others[i]),
           \A i \in 1..Len(queue) : ~Writes(queue[i]) =>
               /\ \E j \in 1..Len(events) : queue[i] = events[j]
               /\ \A j \in 1..Len(queue) : ~Writes(queue[j]) => i = j,
           \A n \in Nat : Holds(waiting, n) \/ Holds(events, n) =>
               write.total >= n \/ Holds(others, n) \/ Holds(queue, n),
           UNCHANGED <<sizes, buf, received>>,
           StartWrite(write.left, write.total, others, queue)
    PROVE  OutInv'
<1> USE DEF OutInv, TypeOK
<1>1. write.left \in Seq(Unit) /\ write.total \in Nat
  BY DEF Event
<1>2. /\ pipe' \in Seq(Unit) /\ Len(pipe') <= PipeSize
      /\ waiting' \in Seq(Event)
      /\ \A i \in 1..Len(waiting') : Writes(waiting'[i])
      /\ events' \in Seq(Event)
      /\ \A i \in 1..Len(events') :
            Writes(events'[i]) \/ (i \in 1..Len(queue) /\ events'[i] = queue[i])
      /\ \A n \in Nat : write.total >= n \/ Holds(others, n) \/ Holds(queue, n) =>
            Holds(waiting', n) \/ Holds(events', n)
  BY <1>1, StartWriteStep
<1>3. TypeOK'
  BY <1>2
<1>4. Covered'
  BY <1>2 DEF Covered
<1>5. OneRequest'
  BY <1>2 DEF OneRequest
<1>. QED
  BY <1>3, <1>4, <1>5

LEMMA PipeReadyInv == OutInv /\ PipeReady => OutInv'
<1> SUFFICES ASSUME OutInv, PipeReady PROVE OutInv'
  OBVIOUS
<1> USE DEF OutInv, TypeOK
<1> DEFINE write == Head(waiting)
<1>1. /\ waiting # <<>> /\ write = waiting[1] /\ write \in Event /\ Writes(write)
      /\ Tail(waiting) \in Seq(Event)
      /\ \A i \in 1..Len(Tail(waiting)) : Writes(Tail(waiting)[i])
  BY HeadTailProperties, EmptySeq DEF PipeReady
<1>2. write.left \in Seq(Unit) /\ write.total \in Nat
  BY <1>1 DEF Event
<1>3. /\ Transfer(write.left, write.total, events)
      /\ waiting' = Tail(waiting) /\ UNCHANGED <<sizes, buf, received>>
  BY DEF PipeReady
<1>4. /\ pipe' \in Seq(Unit) /\ Len(pipe') <= PipeSize
      /\ \E e \in Event : /\ events' = Append(events, e)
                         /\ Writes(e) /\ e.total = write.total
  BY <1>2, <1>3, TransferStep
<1>5. PICK e \in Event : events' = Append(events, e) /\ Writes(e) /\ e.total = write.total
  BY <1>4
<1>6. TypeOK'
  <2>1. /\ events' \in Seq(Event) /\ Len(events') = Len(events) + 1
        /\ \A i \in 1..Len(events) : events'[i] = events[i]
        /\ events'[Len(events) + 1] = e
    BY <1>5, AppendProperties
  <2>2. ASSUME NEW i \in 1..Len(events')
        PROVE  Writes(events'[i]) \/ events'[i].total \in Sizes
    <3>1. CASE i \in 1..Len(events)
      BY <2>1, <3>1
    <3>2. CASE i = Len(events) + 1
      BY <1>5, <2>1, <3>2
    <3>. QED
      BY <2>1, <3>1, <3>2
  <2>. QED
    BY <1>1, <1>3, <1>4, <2>1, <2>2
<1>7. Covered'
  <2>1. \A n \in Nat : Holds(waiting, n) => Holds(Tail(waiting), n) \/ write.total >= n
    BY <1>1, TailHolds
  <2>2. \A n \in Nat : write.total >= n \/ Holds(events, n) => Holds(events', n)
    BY <1>5, AppendHolds
  <2>. QED
    BY <1>3, <2>1, <2>2 DEF Covered
<1>8. OneRequest'
  BY <1>3, <1>5, AppendProperties DEF OneRequest
<1>. QED
  BY <1>6, <1>7, <1>8

LEMMA CompleteWriteInv == OutInv /\ CompleteWrite => OutInv'
<1> SUFFICES ASSUME OutInv, CompleteWrite PROVE OutInv'
  OBVIOUS
<1> USE DEF OutInv, TypeOK
<1> DEFINE write == Head(events)
<1>1. /\ events # <<>> /\ Writes(write) /\ write \in Event
      /\ Tail(events) \in Seq(Event)
      /\ Len(Tail(events)) = Len(events) - 1
      /\ \A i \in 1..Len(Tail(events)) : Tail(events)[i] = events[i + 1]
  BY HeadTailProperties DEF CompleteWrite
<1>2. \A n \in Nat : Holds(events, n) => Holds(Tail(events), n) \/ write.total >= n
  BY <1>1, TailHolds
<1>3. \A i \in 1..Len(Tail(events)) : i + 1 \in 1..Len(events)
  BY <1>1
<1>4. \A i \in 1..Len(Tail(events)) : ~Writes(Tail(events)[i]) =>
          /\ \E j \in 1..Len(events) : Tail(events)[i] = events[j]
          /\ \A j \in 1..Len(Tail(events)) : ~Writes(Tail(events)[j]) => i = j
  BY <1>1, <1>3 DEF OneRequest
<1>5. UNCHANGED <<sizes, received>>
  BY DEF CompleteWrite
<1>6. CASE write.left = <<>>
  <2>1. /\ buf' = Drop(buf, write.total) /\ events' = Tail(events)
        /\ UNCHANGED <<waiting, pipe>>
    BY <1>6 DEF CompleteWrite
  <2>2. write.total \in Nat
    BY <1>1 DEF Event
  <2>3. /\ buf' \in Seq(Unit)
        /\ buf' # <<>> => Len(buf) > write.total
        /\ Len(buf') <= Len(buf)
    BY <2>1, <2>2, DropType
  <2>4. TypeOK'
    BY <1>1, <1>3, <1>5, <2>1, <2>3
  <2>5. Covered'
    <3> SUFFICES ASSUME buf' # <<>>
                 PROVE  Holds(waiting', Len(buf')) \/ Holds(events', Len(buf'))
      BY DEF Covered
    <3>1. Len(buf) > write.total /\ buf # <<>>
      BY <2>2, <2>3, EmptySeq
    <3>2. Holds(waiting, Len(buf)) \/ Holds(Tail(events), Len(buf))
      BY <1>2, <2>2, <3>1 DEF Covered
    <3>3. Len(buf) \in Nat /\ Len(buf') \in Nat /\ Len(buf') <= Len(buf)
      BY <2>3
    <3>. QED
      BY <1>1, <2>1, <3>2, <3>3, HoldsFewer
  <2>6. OneRequest'
    BY <1>4, <1>5, <2>1 DEF OneRequest
  <2>. QED
    BY <2>4, <2>5, <2>6
<1>7. CASE write.left # <<>>
  <2>1. /\ StartWrite(write.left, write.total, waiting, Tail(events))
        /\ UNCHANGED buf
    BY <1>7 DEF CompleteWrite
  <2>2. \A n \in Nat : Holds(waiting, n) \/ Holds(events, n) =>
            write.total >= n \/ Holds(waiting, n) \/ Holds(Tail(events), n)
    BY <1>2
  <2>. QED
    BY <1>1, <1>4, <1>5, <2>1, <2>2, MovedOnInv
<1>. QED
  BY <1>6, <1>7

LEMMA ClientReadsInv == OutInv /\ ClientReads => OutInv'
<1> SUFFICES ASSUME OutInv, ClientReads PROVE OutInv'
  OBVIOUS
<1>1. TypeOK'
  BY HeadTailProperties, AppendProperties, OutputBounds DEF OutInv, TypeOK, ClientReads
<1>2. Covered' /\ OneRequest'
  BY DEF OutInv, Covered, OneRequest, ClientReads, Holds
<1>. QED
  BY <1>1, <1>2 DEF OutInv

LEMMA Invariance == Spec => []OutInv
<1>1. OutInv /\ [Next]_vars => OutInv'
  <2> SUFFICES ASSUME OutInv, [Next]_vars PROVE OutInv'
    OBVIOUS
  <2>1. CASE \E size \in Sizes : RequestArrives(size)
    BY <2>1, RequestArrivesInv
  <2>2. CASE EventLoop
    BY <2>2, HandleRequestInv, CompleteWriteInv, PipeReadyInv DEF EventLoop
  <2>3. CASE ClientReads
    BY <2>3, ClientReadsInv
  <2>4. CASE UNCHANGED vars
    BY <2>4 DEF vars, OutInv, TypeOK, Covered, OneRequest, Holds
  <2>. QED
    BY <2>1, <2>2, <2>3, <2>4 DEF Next, Idle
<1>. QED
  BY <1>1, InitInv, PTL DEF Spec

\* The streambuf, the queues of writes, the pipe and what the client has keep to
\* their types (comms.cpp:177-197).
THEOREM TypeCorrect == Spec => []TypeOK
<1>1. OutInv => TypeOK
  BY DEF OutInv
<1>. QED
  BY <1>1, Invariance, PTL

\* When no write is in flight the streambuf is empty, whatever the client, the
\* pipe and the moving of its contents did (comms.cpp:180).
THEOREM BufferDrains == Spec => []BufferDrained
<1>1. OutInv => BufferDrained
  <2> SUFFICES ASSUME OutInv, buf # <<>> PROVE InFlight # {}
    BY DEF BufferDrained
  <2>1. Holds(waiting, Len(buf)) \/ Holds(events, Len(buf))
    BY DEF OutInv, Covered
  <2>. QED
    BY <2>1 DEF Holds, InFlight
<1>. QED
  BY <1>1, Invariance, PTL

-----------------------------------------------------------------------------
(* The bytes of the answers.                                               *)

Positive == Nat \ {0}

LEMMA TotalSums ==
    ASSUME NEW s \in Seq(Positive)
    PROVE  /\ Total(s, 0) = 0
           /\ \A n \in 0..Len(s) : Total(s, n) \in Nat
           /\ \A n \in 1..Len(s) : Total(s, n) = Total(s, n - 1) + s[n]
<1> DEFINE N == Len(s)
           Loop(f) == f = [i \in 0..N |-> IF i = 0 THEN 0 ELSE f[i - 1] + s[i]]
           sum == CHOOSE f : Loop(f)
           step == [n \in 1..N |-> [d \in Nat |-> d + s[n]]]
<1>1. N \in Nat /\ \A n \in 1..N : s[n] \in Nat BY DEF Positive
<1>2. \A n \in 0..N : Total(s, n) = sum[n] BY DEF Total
<1> HIDE DEF N
<1>3. StaysIn(Nat, N, step)
  <2>1. \A n \in 1..N : \A d \in Nat : d + s[n] \in Nat BY <1>1
  <2> QED BY <2>1 DEF StaysIn
<1>4. PICK f : Loops(f, Nat, N, 0, step)
  <2> HIDE DEF step
  <2> QED BY <1>1, <1>3, LoopExists
<1>5. Loop(f)
  <2>1. f \in [0..N -> Nat] BY <1>4 DEF Loops
  <2>2. \A n \in 0..N : n # 0 => n \in 1..N /\ f[n - 1] \in Nat BY <1>1, <2>1
  <2>3. \A n \in 0..N : n # 0 => step[n][f[n - 1]] = f[n - 1] + s[n] BY <2>2
  <2>4. \A n \in 0..N : f[n] = IF n = 0 THEN 0 ELSE f[n - 1] + s[n]
    <3> HIDE DEF step
    <3> QED BY <1>4, <2>2, <2>3 DEF Loops
  <2> HIDE DEF step
  <2>5. f = [n \in 0..N |-> f[n]] BY <2>1
  <2> QED BY <2>4, <2>5
<1>6. Loop(sum)
  <2> HIDE DEF Loop
  <2> QED BY <1>5
<1> HIDE DEF sum
<1>7. \A n \in 0..N : sum[n] = IF n = 0 THEN 0 ELSE sum[n - 1] + s[n]
  <2> HIDE DEF step
  <2> QED BY <1>6
<1>8. sum[0] = 0 /\ \A n \in 1..N : sum[n] = sum[n - 1] + s[n] BY <1>1, <1>7
<1> DEFINE S == {n \in 0..N : sum[n] \in Nat}
<1>9. 0 \in S BY <1>1, <1>8
<1>10. ASSUME NEW n \in 1..N, n - 1 \in S PROVE n \in S
  <2>1. s[n] \in Nat /\ sum[n - 1] \in Nat /\ n \in 0..N BY <1>1, <1>10
  <2> QED BY <1>8, <2>1
<1> HIDE DEF S
<1>11. \A n \in 0..N : n \in S BY <1>1, <1>9, <1>10, Stepwise
<1>12. \A n \in 0..N : sum[n] \in Nat BY <1>11 DEF S
<1>13. 0 \in 0..N /\ \A n \in 1..N : n \in 0..N /\ n - 1 \in 0..N BY <1>1
<1> QED BY <1>2, <1>8, <1>12, <1>13 DEF N

LEMMA TotalGrows ==
    ASSUME NEW s \in Seq(Positive), NEW m \in 0..Len(s), NEW n \in 0..Len(s), m < n
    PROVE  Total(s, m) + s[n] <= Total(s, n)
<1> DEFINE N == Len(s)
           t == [k \in 0..N |-> Total(s, k)]
           S == {k \in 0..N : m < k => t[m] + s[k] <= t[k]}
<1>1. N \in Nat /\ m \in 0..N /\ n \in 0..N OBVIOUS
<1>2. \A k \in 1..N : s[k] \in Nat BY DEF Positive
<1>3. \A k \in 0..N : t[k] \in Nat BY TotalSums
<1>4. \A k \in 1..N : t[k] = t[k - 1] + s[k]
  <2>1. \A k \in 1..N : k \in 0..N /\ k - 1 \in 0..N BY <1>1
  <2> QED BY <2>1, TotalSums
<1> HIDE DEF N, t
<1>5. 0 \in S BY <1>1
<1>6. ASSUME NEW k \in 1..N, k - 1 \in S PROVE k \in S
  <2>1. k \in 0..N /\ k - 1 \in 0..N /\ (k - 1) + 1 = k BY <1>1
  <2>2. t[k] = t[k - 1] + s[k] /\ s[k] \in Nat /\ t[k - 1] \in Nat /\ t[m] \in Nat
    BY <1>1, <1>2, <1>3, <1>4, <2>1
  <2>3. CASE m < k - 1
    <3>1. s[k - 1] \in Nat /\ t[m] + s[k - 1] <= t[k - 1]
      <4>1. k - 1 \in 1..N BY <1>1, <2>3
      <4> QED BY <1>2, <1>6, <2>3, <4>1
    <3> QED BY <2>1, <2>2, <3>1
  <2>4. CASE m = k - 1 BY <2>1, <2>2, <2>4
  <2>5. CASE m > k - 1
    <3>1. ~(m < k) BY <1>1, <2>5
    <3> QED BY <2>1, <3>1
  <2> QED BY <1>1, <2>3, <2>4, <2>5
<1> HIDE DEF S
<1>7. \A k \in 0..N : k \in S BY <1>1, <1>5, <1>6, Stepwise
<1>8. t[m] + s[n] <= t[n] BY <1>1, <1>7 DEF S
<1> QED BY <1>1, <1>8 DEF N, t

LEMMA TotalExtended ==
    ASSUME NEW s \in Seq(Positive), NEW x \in Positive
    PROVE  /\ \A n \in 0..Len(s) : Total(Append(s, x), n) = Total(s, n)
           /\ Total(Append(s, x), Len(s) + 1) = Total(s, Len(s)) + x
<1> DEFINE N == Len(s)
           u == Append(s, x)
           S == {n \in 0..N : Total(u, n) = Total(s, n)}
<1>1. /\ N \in Nat /\ u \in Seq(Positive) /\ Len(u) = N + 1 /\ u[N + 1] = x
      /\ \A n \in 1..N : u[n] = s[n]
  OBVIOUS
<1> HIDE DEF u
<1>2. 0 \in S BY <1>1, TotalSums
<1>3. ASSUME NEW n \in 1..N, n - 1 \in S PROVE n \in S
  <2>1. n \in 1..Len(u) /\ n \in 0..N BY <1>1
  <2>2. Total(u, n) = Total(u, n - 1) + u[n] BY <1>1, <2>1, TotalSums
  <2>3. Total(s, n) = Total(s, n - 1) + s[n] BY TotalSums
  <2>4. Total(u, n - 1) = Total(s, n - 1) BY <1>3
  <2> QED BY <1>1, <2>1, <2>2, <2>3, <2>4
<1>4. \A n \in 0..N : n \in S
  <2> HIDE DEF S
  <2> QED BY <1>1, <1>2, <1>3, Stepwise
<1>5. N \in 0..N /\ N + 1 \in 1..Len(u) /\ (N + 1) - 1 = N BY <1>1
<1>6. Total(u, N + 1) = Total(u, N) + x BY <1>1, <1>5, TotalSums
<1> QED BY <1>4, <1>5, <1>6 DEF u

\* Of r bytes of answers of these sizes, so many answers are complete.
Complete(s, r) == Cardinality({i \in 1..Len(s) : Total(s, i) <= r})

LEMMA CompleteIs ==
    ASSUME NEW s \in Seq(Positive), NEW r \in Nat
    PROVE  /\ Complete(s, r) \in 0..Len(s)
           /\ \A n \in 0..Len(s) : Total(s, n) <= r <=> n <= Complete(s, r)
<1> DEFINE N == Len(s)
           S == {n \in 0..N : Total(s, n) <= r}
<1>1. N \in Nat /\ 0 \in 0..N OBVIOUS
<1>2. /\ Total(s, 0) = 0 /\ \A n \in 0..N : Total(s, n) \in Nat
      /\ \A n \in 1..N : s[n] \in Nat /\ s[n] > 0
  BY TotalSums DEF Positive
<1>3. PICK k \in S : \A n \in S : n <= k
  <2>1. 0 \in S BY <1>1, <1>2
  <2>2. S \in SUBSET (0..N) OBVIOUS
  <2> HIDE DEF S, N
  <2> QED BY <1>1, <2>1, <2>2, GreatestMember
<1>4. k \in 0..N /\ Total(s, k) <= r BY <1>3
<1>5. ASSUME NEW n \in 0..N, n <= k PROVE Total(s, n) <= r
  <2>1. CASE n = k BY <1>4, <2>1
  <2>2. CASE n < k
    <3>1. Total(s, n) + s[k] <= Total(s, k) BY <1>4, <2>2, TotalGrows
    <3>2. k \in 1..N BY <1>1, <1>4, <2>2
    <3> QED BY <1>2, <1>4, <3>1, <3>2
  <2> QED BY <1>4, <1>5, <2>1, <2>2
<1>6. ASSUME NEW n \in 0..N, Total(s, n) <= r PROVE n <= k BY <1>3, <1>6
<1> HIDE DEF N, S
<1>7. {i \in 1..N : Total(s, i) <= r} = 1..k
  <2>1. \A i \in 1..N : i \in 0..N BY <1>1
  <2>2. \A i \in 1..k : i \in 1..N /\ i \in 0..N /\ i <= k BY <1>1, <1>4
  <2>3. \A i \in 1..N : i <= k => i \in 1..k BY <1>1, <1>4
  <2> QED BY <1>5, <1>6, <2>1, <2>2, <2>3
<1>8. Cardinality(1..k) = k BY <1>1, <1>4, FS_Interval
<1>9. Complete(s, r) = k BY <1>7, <1>8 DEF Complete, N
<1> QED BY <1>4, <1>5, <1>6, <1>9 DEF N

\* One byte more completes at most one answer.
LEMMA CompleteNext ==
    ASSUME NEW s \in Seq(Positive), NEW r \in Nat
    PROVE  Complete(s, r + 1) \in {Complete(s, r), Complete(s, r) + 1}
<1> DEFINE k == Complete(s, r)
           j == Complete(s, r + 1)
<1>1. /\ k \in 0..Len(s) /\ j \in 0..Len(s) /\ r + 1 \in Nat
      /\ \A n \in 0..Len(s) : Total(s, n) <= r <=> n <= k
      /\ \A n \in 0..Len(s) : Total(s, n) <= r + 1 <=> n <= j
  <2>1. r + 1 \in Nat OBVIOUS
  <2>2. k \in 0..Len(s) /\ \A n \in 0..Len(s) : Total(s, n) <= r <=> n <= k
    BY CompleteIs
  <2> DEFINE q == r + 1
  <2> HIDE DEF q
  <2>3. q \in Nat BY <2>1 DEF q
  <2>4. /\ Complete(s, q) \in 0..Len(s)
        /\ \A n \in 0..Len(s) : Total(s, n) <= q <=> n <= Complete(s, q)
    BY <2>3, CompleteIs
  <2> QED BY <2>1, <2>2, <2>4 DEF q
<1> HIDE DEF k, j
<1>2. /\ \A n \in 0..Len(s) : Total(s, n) \in Nat
      /\ \A n \in 1..Len(s) : s[n] \in Nat /\ s[n] > 0
  BY TotalSums DEF Positive
<1>3. k <= j
  <2>1. Total(s, k) \in Nat /\ Total(s, k) <= r BY <1>1, <1>2
  <2> QED BY <1>1, <2>1
<1>4. ASSUME j > k + 1 PROVE FALSE
  <2>1. k + 1 \in 0..Len(s) /\ j \in 1..Len(s) /\ k + 1 < j BY <1>1, <1>4
  <2>2. Total(s, k + 1) + s[j] <= Total(s, j) BY <1>1, <2>1, TotalGrows
  <2>3. Total(s, j) <= r + 1 BY <1>1
  <2>4. ~(Total(s, k + 1) <= r) BY <1>1, <2>1
  <2> QED BY <1>1, <1>2, <2>1, <2>2, <2>3, <2>4
<1>5. j = k \/ j = k + 1 BY <1>1, <1>3, <1>4
<1> QED BY <1>5 DEF k, j

\* Nor does an answer that is begun, while not all bytes before it are there.
LEMMA CompleteExtended ==
    ASSUME NEW s \in Seq(Positive), NEW x \in Positive, NEW r \in Nat,
           r <= Total(s, Len(s))
    PROVE  Complete(Append(s, x), r) = Complete(s, r)
<1> DEFINE u == Append(s, x)
           N == Len(s)
<1>1. N \in Nat /\ u \in Seq(Positive) /\ Len(u) = N + 1 OBVIOUS
<1>2. /\ \A n \in 0..N : Total(u, n) = Total(s, n)
      /\ Total(u, N + 1) = Total(s, N) + x
  BY TotalExtended
<1>3. Total(s, N) \in Nat /\ x \in Nat /\ x > 0 BY <1>1, TotalSums DEF Positive
<1> HIDE DEF u, N
<1>4. ~(Total(u, N + 1) <= r) BY <1>2, <1>3 DEF N
<1>5. {i \in 1..(N + 1) : Total(u, i) <= r} = {i \in 1..N : Total(s, i) <= r}
  <2>1. \A i \in 1..(N + 1) : i \in 1..N \/ i = N + 1 BY <1>1
  <2>2. \A i \in 1..N : i \in 1..(N + 1) /\ i \in 0..N BY <1>1
  <2> QED BY <1>2, <1>4, <2>1, <2>2
<1> QED BY <1>1, <1>5 DEF Complete, u, N

-----------------------------------------------------------------------------
(* What flows from the answers to the client.                              *)

\* What the write in flight has left to write, if there is one.
Left == IF waiting # <<>> THEN waiting[1].left
        ELSE IF events # <<>> /\ Writes(events[1]) THEN events[1].left
        ELSE <<>>

\* All that a client which waits for its answers has got or will get.
Flow == received \o (pipe \o Left)

\* The bytes of answers of these sizes, one behind the other.
Placed(s, flow) ==
    /\ Len(flow) = Total(s, Len(s))
    /\ \A i \in 1..Len(s) : \A p \in 1..s[i] :
          flow[Total(s, i - 1) + p] = [id |-> i, part |-> p]

\* There is one write in flight at most, and it waits only with something left.
Single ==
    /\ waiting # <<>> => Len(waiting) = 1 /\ events = <<>> /\ Left # <<>>
    /\ \A i \in 1..Len(events) : i > 1 => ~Writes(events[i])

\* Only an answer that is longer than the pipe is written in parts, and while it
\* is the client does not ask; what it asks for has room.
Fitting ==
    /\ Left # <<>> => /\ \A i \in 1..Len(events) : Writes(events[i])
                      /\ Len(sizes) > 0 /\ sizes[Len(sizes)] > PipeSize
    /\ \A i \in 1..Len(events) : ~Writes(events[i]) =>
          pipe = <<>> \/ Len(pipe) + events[i].total <= PipeSize

FlowInv == OutInv /\ Single /\ Fitting /\ Placed(sizes, Flow)

LEMMA SizesPositive == OutInv => sizes \in Seq(Positive) /\ PipeSize \in Positive
<1>1. Sizes \subseteq Positive BY OutputBounds DEF Positive
<1>2. OutInv => sizes \in Seq(Sizes) BY DEF OutInv, TypeOK
<1>3. Seq(Sizes) \subseteq Seq(Positive) BY <1>1, SeqMonotonic
<1>4. PipeSize \in Positive BY OutputBounds DEF Positive
<1> QED BY <1>2, <1>3, <1>4

LEMMA AnswerUnits ==
    ASSUME NEW id \in 1..MaxMessages, NEW size \in Nat
    PROVE  /\ Answer(id, size) \in Seq(Unit) /\ Len(Answer(id, size)) = size
           /\ \A p \in 1..size : Answer(id, size)[p] = [id |-> id, part |-> p]
<1>1. Answer(id, size) \in [1..size -> Unit] BY OutputBounds DEF Answer, Unit
<1>2. Answer(id, size) \in Seq(Unit) BY <1>1, SeqDef
<1>3. Len(Answer(id, size)) = size BY <1>1, <1>2, LenProperties
<1> QED BY <1>2, <1>3 DEF Answer

LEMMA LeftUnits ==
    ASSUME OutInv
    PROVE  Left \in Seq(Unit) /\ Flow \in Seq(Unit)
           /\ Len(Flow) = Len(received) + (Len(pipe) + Len(Left))
<1>1. waiting \in Seq(Event) /\ events \in Seq(Event)
      /\ received \in Seq(Unit) /\ pipe \in Seq(Unit)
  BY DEF OutInv, TypeOK
<1>2. Left \in Seq(Unit)
  <2>1. waiting # <<>> => waiting[1] \in Event BY <1>1, EmptySeq
  <2>2. events # <<>> => events[1] \in Event BY <1>1, EmptySeq
  <2>3. \A e \in Event : e.left \in Seq(Unit) BY DEF Event
  <2> QED BY <2>1, <2>2, <2>3, EmptySeq DEF Left
<1>3. pipe \o Left \in Seq(Unit) /\ Len(pipe \o Left) = Len(pipe) + Len(Left)
  BY <1>1, <1>2, ConcatProperties
<1>4. Flow \in Seq(Unit) /\ Len(Flow) = Len(received) + Len(pipe \o Left)
  <2> DEFINE rest == pipe \o Left
  <2> HIDE DEF rest
  <2>1. received \o rest \in Seq(Unit) /\ Len(received \o rest) = Len(received) + Len(rest)
    BY <1>1, <1>3, ConcatProperties DEF rest
  <2> QED BY <2>1 DEF Flow, rest
<1> QED BY <1>2, <1>3, <1>4

LEMMA JoinedUnits ==
    ASSUME NEW r \in Seq(Unit), NEW p \in Seq(Unit), NEW l \in Seq(Unit)
    PROVE  (r \o p) \o l = r \o (p \o l)
BY ConcatAssociative

\* What a write puts into the pipe goes on in front of what it has left.
LEMMA FlowsOn ==
    ASSUME NEW r \in Seq(Unit), NEW p \in Seq(Unit), NEW l \in Seq(Unit),
           NEW n \in 0..Len(l)
    PROVE  r \o ((p \o SubSeq(l, 1, n)) \o Drop(l, n)) = r \o (p \o l)
<1> DEFINE a == SubSeq(l, 1, n)
           b == Drop(l, n)
<1>1. a \in Seq(Unit) /\ b \in Seq(Unit) BY PartType, DropType
<1>2. a \o b = l
  <2>1. 1 \in 1..(Len(l) + 1) /\ n \in (1 - 1)..Len(l) /\ Len(l) \in n..Len(l)
    OBVIOUS
  <2>2. SubSeq(l, 1, n) \o SubSeq(l, n + 1, Len(l)) = SubSeq(l, 1, Len(l))
    BY <2>1, ConcatAdjacentSubSeq
  <2> QED BY <2>2, SubSeqFull DEF Drop
<1> HIDE DEF a, b
<1>3. (p \o a) \o b = p \o (a \o b) BY <1>1, JoinedUnits
<1> QED BY <1>2, <1>3 DEF a, b

\* What the client reads it takes from the front of the pipe.
LEMMA FlowsOut ==
    ASSUME NEW r \in Seq(Unit), NEW p \in Seq(Unit), NEW l \in Seq(Unit), p # <<>>
    PROVE  Append(r, Head(p)) \o (Tail(p) \o l) = r \o (p \o l)
<1> DEFINE h == Head(p)
           t == Tail(p)
<1>1. h \in Unit /\ t \in Seq(Unit) /\ <<h>> \in Seq(Unit) BY HeadTailProperties
<1>2. <<h>> \o t = p
  <2>1. Len(p) \in Nat /\ Len(p) # 0 BY EmptySeq
  <2>2. 1 \in 1..Len(p) /\ Len(p) \in 1..Len(p) BY <2>1
  <2>3. SubSeq(p, 1, Len(p)) = <<p[1]>> \o SubSeq(p, 1 + 1, Len(p))
    BY <2>2, SubSeqRecursiveFirst
  <2>4. t = SubSeq(p, 2, Len(p)) BY TailIsSubSeq
  <2>5. SubSeq(p, 1, Len(p)) = p BY SubSeqFull
  <2> QED BY <2>3, <2>4, <2>5
<1> HIDE DEF h, t
<1>3. Append(r, h) = r \o <<h>> BY <1>1, AppendIsConcat
<1>4. t \o l \in Seq(Unit) BY <1>1, ConcatProperties
<1>5. (r \o <<h>>) \o (t \o l) = r \o (<<h>> \o (t \o l))
  BY <1>1, <1>4, JoinedUnits
<1>6. (<<h>> \o t) \o l = <<h>> \o (t \o l) BY <1>1, JoinedUnits
<1> QED BY <1>2, <1>3, <1>5, <1>6 DEF h, t

LEMMA PlacedExtended ==
    ASSUME NEW s \in Seq(Positive), NEW x \in Positive, NEW flow \in Seq(Unit),
           Len(s) + 1 \in 1..MaxMessages, Placed(s, flow)
    PROVE  Placed(Append(s, x), flow \o Answer(Len(s) + 1, x))
<1> DEFINE N == Len(s)
           u == Append(s, x)
           a == Answer(N + 1, x)
           g == flow \o a
<1>1. /\ N \in Nat /\ u \in Seq(Positive) /\ Len(u) = N + 1 /\ u[N + 1] = x
      /\ \A n \in 1..N : u[n] = s[n]
      /\ x \in Nat
  BY DEF Positive
<1>2. /\ a \in Seq(Unit) /\ Len(a) = x
      /\ \A p \in 1..x : a[p] = [id |-> N + 1, part |-> p]
  BY <1>1, AnswerUnits
<1>3. /\ Len(flow) = Total(s, N)
      /\ \A i \in 1..N : \A p \in 1..s[i] :
            flow[Total(s, i - 1) + p] = [id |-> i, part |-> p]
  BY DEF Placed
<1>4. /\ \A n \in 0..N : Total(u, n) = Total(s, n)
      /\ Total(u, N + 1) = Total(s, N) + x
  BY TotalExtended
<1>5. \A n \in 0..N : Total(s, n) \in Nat BY TotalSums
<1> HIDE DEF u, a
<1>6. /\ Len(g) = Len(flow) + x
      /\ \A k \in 1..(Len(flow) + x) : g[k] = IF k <= Len(flow) THEN flow[k]
                                              ELSE a[k - Len(flow)]
  BY <1>2, ConcatProperties
<1> HIDE DEF g, N
<1>7. Len(g) = Total(u, Len(u)) BY <1>1, <1>3, <1>4, <1>6
<1>8. ASSUME NEW i \in 1..Len(u), NEW p \in 1..u[i]
      PROVE  g[Total(u, i - 1) + p] = [id |-> i, part |-> p]
  <2>1. CASE i \in 1..N
    <3>1. i \in 0..N /\ i - 1 \in 0..N BY <1>1, <2>1
    <3>2. Total(s, i) = Total(s, i - 1) + s[i] BY <2>1, TotalSums DEF N
    <3>3. p \in 1..s[i] /\ s[i] \in Nat BY <1>1, <2>1, <1>8 DEF Positive, N
    <3>4. Total(s, i) <= Total(s, N)
      <4>1. CASE i = N BY <1>5, <3>1, <4>1
      <4>2. CASE i < N
        <5>1. N \in 1..N /\ s[N] \in Nat BY <1>1, <2>1, <4>2 DEF Positive, N
        <5>2. N \in 0..N BY <1>1
        <5>3. Total(s, i) + s[N] <= Total(s, N) BY <3>1, <4>2, <5>2, TotalGrows DEF N
        <5> QED BY <1>5, <3>1, <5>1, <5>2, <5>3
      <4> QED BY <1>1, <2>1, <4>1, <4>2
    <3> DEFINE k == Total(s, i - 1) + p
    <3>5. k \in 1..Len(flow) /\ k \in 1..(Len(flow) + x) /\ k <= Len(flow)
      <4>1. N \in 0..N BY <1>1
      <4>2. /\ Total(s, i - 1) \in Nat /\ Total(s, i) \in Nat /\ Total(s, N) \in Nat
            /\ Len(flow) = Total(s, N)
        BY <1>3, <1>5, <3>1, <4>1
      <4> DEFINE t == Total(s, i - 1)
                 e == Total(s, i)
                 l == Len(flow)
      <4>3. t \in Nat /\ e \in Nat /\ l \in Nat /\ e = t + s[i] /\ e <= l
            /\ p \in Nat /\ 1 <= p /\ p <= s[i] /\ s[i] \in Nat /\ x \in Nat
        BY <1>1, <3>2, <3>3, <3>4, <4>2
      <4> HIDE DEF t, e, l
      <4>4. t + p \in 1..l /\ t + p \in 1..(l + x) /\ t + p <= l BY <4>3
      <4> QED BY <4>4 DEF t, l
    <3>6. g[k] = flow[k] BY <1>6, <3>5
    <3>7. Total(u, i - 1) = Total(s, i - 1) BY <1>4, <3>1
    <3> QED BY <1>3, <2>1, <3>3, <3>6, <3>7
  <2>2. CASE i = N + 1
    <3>1. i - 1 = N /\ N \in 0..N /\ p \in 1..x BY <1>1, <1>8, <2>2
    <3>2. Total(u, i - 1) = Len(flow) /\ Len(flow) \in Nat
      BY <1>3, <1>4, <1>5, <3>1
    <3> DEFINE k == Len(flow) + p
    <3>3. k \in 1..(Len(flow) + x) /\ ~(k <= Len(flow)) /\ k - Len(flow) = p
      BY <1>1, <3>1, <3>2
    <3>4. g[k] = a[k - Len(flow)] BY <1>6, <3>3
    <3>5. g[k] = a[p] BY <3>3, <3>4
    <3> HIDE DEF k
    <3> QED BY <1>2, <2>2, <3>1, <3>2, <3>5 DEF k
  <2> QED BY <1>1, <2>1, <2>2
<1> QED BY <1>7, <1>8 DEF Placed, u, a, g, N

\* A write that goes on alone keeps what flows, and has nothing left if it fits.
LEMMA TransferFlows ==
    ASSUME pipe \in Seq(Unit), Len(pipe) <= PipeSize, received \in Seq(Unit),
           NEW left \in Seq(Unit), NEW total \in Nat,
           Transfer(left, total, <<>>), waiting' = <<>>, received' = received
    PROVE  /\ Single' /\ Flow' = received \o (pipe \o left)
           /\ Left' # <<>> => Len(pipe) + Len(left) > PipeSize
           /\ \A i \in 1..Len(events') : Writes(events'[i])
<1> DEFINE n == Least(Len(left), PipeSize - Len(pipe))
           write == WriteEvent(Drop(left, n), total)
<1>1. n > 0 /\ pipe' = pipe \o SubSeq(left, 1, n) /\ events' = Append(<<>>, write)
  BY DEF Transfer
<1>2. /\ Len(left) \in Nat /\ Len(pipe) \in Nat /\ PipeSize \in Nat
      /\ n \in 0..Len(left)
      /\ n < Len(left) => n = PipeSize - Len(pipe)
  BY OutputBounds DEF Least
<1> HIDE DEF n
<1>3. write.left = Drop(left, n) /\ Writes(write) BY DEF WriteEvent, Writes
<1> HIDE DEF write
<1>4. /\ Len(events') = 1 /\ events'[1] = write /\ events' # <<>>
      /\ \A i \in 1..Len(events') : i = 1
  <2>1. events' = <<write>> BY <1>1
  <2> QED BY <2>1
<1>5. Left' = Drop(left, n) BY <1>3, <1>4 DEF Left
<1>6. Flow' = received \o (pipe \o left)
  <2>1. Flow' = received \o ((pipe \o SubSeq(left, 1, n)) \o Drop(left, n))
    BY <1>1, <1>5 DEF Flow
  <2> QED BY <1>2, <2>1, FlowsOn
<1>7. Drop(left, n) # <<>> => Len(left) > n BY <1>2, DropType
<1>8. Left' # <<>> => Len(pipe) + Len(left) > PipeSize BY <1>2, <1>5, <1>7
<1>9. Single' BY <1>4 DEF Single
<1> QED BY <1>3, <1>4, <1>6, <1>8, <1>9

LEMMA StartFlows ==
    ASSUME pipe \in Seq(Unit), Len(pipe) <= PipeSize, received \in Seq(Unit),
           NEW left \in Seq(Unit), left # <<>>, NEW total \in Nat,
           StartWrite(left, total, <<>>, <<>>), received' = received
    PROVE  /\ Single' /\ Flow' = received \o (pipe \o left)
           /\ Left' # <<>> => Len(pipe) + Len(left) > PipeSize
           /\ \A i \in 1..Len(events') : Writes(events'[i])
<1>1. CASE Transfer(left, total, <<>>) /\ waiting' = <<>> BY <1>1, TransferFlows
<1>2. CASE /\ Len(pipe) + Len(left) > PipeSize
           /\ waiting' = Append(<<>>, WriteEvent(left, total))
           /\ events' = <<>> /\ pipe' = pipe
  <2>1. waiting' = <<WriteEvent(left, total)>> BY <1>2
  <2>2. /\ Len(waiting') = 1 /\ waiting' # <<>> /\ waiting'[1].left = left
        /\ 1..Len(events') = {}
    BY <1>2, <2>1 DEF WriteEvent
  <2>3. Left' = left BY <2>2 DEF Left
  <2>4. Flow' = received \o (pipe \o left) BY <1>2, <2>3 DEF Flow
  <2>5. Single' BY <1>2, <2>2, <2>3 DEF Single
  <2> QED BY <1>2, <2>2, <2>4, <2>5
<1> QED BY <1>1, <1>2 DEF StartWrite

\* Steps that go on with a write begun before.
LEMMA WriteFlows ==
    ASSUME FlowInv, sizes' = sizes, OutInv', Single', Flow' = Flow, Left # <<>>,
           \A i \in 1..Len(events') : Writes(events'[i])
    PROVE  FlowInv'
<1>1. Len(sizes) > 0 /\ sizes[Len(sizes)] > PipeSize BY DEF FlowInv, Fitting
<1>2. Fitting' BY <1>1 DEF Fitting
<1>3. Placed(sizes, Flow)' BY DEF FlowInv, Placed
<1> QED BY <1>2, <1>3 DEF FlowInv

LEMMA InitFlows == Init => FlowInv
<1> SUFFICES ASSUME Init PROVE FlowInv
  OBVIOUS
<1>1. OutInv BY InitInv
<1>2. /\ sizes = <<>> /\ waiting = <<>> /\ events = <<>> /\ pipe = <<>>
      /\ received = <<>>
  BY DEF Init
<1>3. Left = <<>> BY <1>2 DEF Left
<1>4. Flow = <<>> BY <1>2, <1>3 DEF Flow
<1>5. Single /\ Fitting BY <1>2, <1>3 DEF Single, Fitting
<1>6. Placed(sizes, Flow)
  <2>1. Len(sizes) = 0 /\ Len(Flow) = 0 /\ sizes \in Seq(Positive)
    BY <1>2, <1>4, EmptySeq
  <2>2. Total(sizes, 0) = 0 BY <2>1, TotalSums
  <2> QED BY <2>1, <2>2 DEF Placed
<1> QED BY <1>1, <1>5, <1>6 DEF FlowInv

\* A patient client asks only when nothing is left to write, and the pipe is
\* empty or has room for the answer.
LEMMA PatientAsks ==
    ASSUME FlowInv, Patient, NEW size \in Sizes, RequestArrives(size)
    PROVE  Left = <<>> /\ (pipe = <<>> \/ Len(pipe) + size <= PipeSize)
<1> DEFINE N == Len(sizes)
           r == Len(received)
           k == Complete(sizes, r)
<1>1. /\ sizes \in Seq(Positive) /\ PipeSize \in Nat /\ PipeSize > 0 /\ size \in Nat
      /\ size > 0
  BY SizesPositive, OutputBounds DEF FlowInv, Positive
<1>2. N \in Nat /\ N \in 0..N /\ r \in Nat /\ Len(pipe) \in Nat /\ Len(Left) \in Nat
  BY <1>1, LeftUnits DEF FlowInv, OutInv, TypeOK
<1>3. Total(sizes, N) = r + (Len(pipe) + Len(Left))
  BY LeftUnits DEF FlowInv, Placed
<1>4. k \in 0..N /\ \A n \in 0..N : Total(sizes, n) <= r <=> n <= k
  BY <1>1, <1>2, CompleteIs
<1>5. Due = 0 \/ Due + size <= PipeSize BY DEF RequestArrives
<1>6. Due = Total(sizes, N) - Total(sizes, k)
  BY DEF Due, Bytes, Whole, Complete
<1> HIDE DEF N, r, k
<1>7. Total(sizes, k) \in Nat /\ Total(sizes, k) <= r
  BY <1>1, <1>4, TotalSums DEF N
<1>8. Left = <<>>
  <2> SUFFICES ASSUME Left # <<>> PROVE FALSE
    OBVIOUS
  <2>1. Len(Left) > 0 BY <1>2, LeftUnits, EmptySeq DEF FlowInv
  <2>2. N > 0 /\ sizes[N] > PipeSize BY DEF FlowInv, Fitting, N
  <2>3. k < N
    <3>1. ~(Total(sizes, N) <= r) BY <1>2, <1>3, <2>1
    <3> QED BY <1>2, <1>4, <3>1
  <2>4. Total(sizes, k) + sizes[N] <= Total(sizes, N)
    BY <1>1, <1>2, <1>4, <2>3, TotalGrows DEF N
  <2>5. sizes[N] \in Nat
    <3>1. N \in 1..Len(sizes) BY <1>2, <2>2 DEF N
    <3> QED BY <1>1, <3>1 DEF Positive
  <2> QED BY <1>1, <1>2, <1>3, <1>5, <1>6, <1>7, <2>2, <2>4, <2>5
<1>9. Len(Left) = 0 BY <1>8
<1>10. Len(pipe) <= Due BY <1>2, <1>3, <1>6, <1>7, <1>9
<1>11. CASE Due = 0
  <2>1. Len(pipe) = 0 BY <1>2, <1>10, <1>11
  <2>2. pipe = <<>> BY <2>1, EmptySeq DEF FlowInv, OutInv, TypeOK
  <2> QED BY <1>8, <2>2
<1>12. CASE Due + size <= PipeSize
  <2>1. Len(pipe) + size <= PipeSize BY <1>1, <1>2, <1>3, <1>6, <1>7, <1>9, <1>12
  <2> QED BY <1>8, <2>1
<1> QED BY <1>5, <1>11, <1>12

LEMMA RequestFlows ==
    ASSUME FlowInv, Patient, NEW size \in Sizes, RequestArrives(size)
    PROVE  FlowInv'
<1>1. OutInv' BY RequestArrivesInv DEF FlowInv
<1>2. Left = <<>> /\ (pipe = <<>> \/ Len(pipe) + size <= PipeSize) BY PatientAsks
<1>3. /\ events' = Append(events, ReadEvent(size)) /\ waiting' = waiting
      /\ sizes' = sizes /\ pipe' = pipe /\ received' = received
      /\ \A i \in 1..Len(events) : Writes(events[i])
  BY DEF RequestArrives
<1>4. waiting = <<>> BY <1>2 DEF FlowInv, Single
<1>5. events \in Seq(Event) /\ Len(events) \in Nat BY DEF FlowInv, OutInv, TypeOK
<1>6. ReadEvent(size).total = size /\ ~Writes(ReadEvent(size))
  BY DEF ReadEvent, Writes
<1>7. /\ Len(events') = Len(events) + 1
      /\ \A i \in 1..Len(events) : events'[i] = events[i]
      /\ events'[Len(events) + 1] = ReadEvent(size) /\ events' # <<>>
  BY <1>3, <1>5
<1>8. \A i \in 1..Len(events') : i \in 1..Len(events) \/ i = Len(events) + 1
  BY <1>5, <1>7
<1>9. Left' = <<>>
  <2>1. CASE events = <<>>
    <3>1. Len(events) + 1 = 1 BY <2>1
    <3> QED BY <1>3, <1>4, <1>6, <1>7, <3>1 DEF Left
  <2>2. CASE events # <<>>
    <3>1. 1 \in 1..Len(events) BY <1>5, <2>2, EmptySeq
    <3>2. events'[1] = events[1] BY <1>7, <3>1
    <3> QED BY <1>2, <1>3, <1>4, <1>7, <2>2, <3>2 DEF Left
  <2> QED BY <2>1, <2>2
<1>10. Flow' = Flow BY <1>2, <1>3, <1>9 DEF Flow
<1>11. Single' BY <1>3, <1>4, <1>6, <1>7, <1>8 DEF FlowInv, Single
<1>12. Fitting'
  <2>1. ASSUME NEW i \in 1..Len(events'), ~Writes(events'[i])
        PROVE  pipe' = <<>> \/ Len(pipe') + events'[i].total <= PipeSize
    <3>1. i = Len(events) + 1 BY <1>3, <1>7, <1>8, <2>1
    <3> QED BY <1>2, <1>3, <1>6, <1>7, <3>1
  <2> QED BY <1>9, <2>1 DEF Fitting
<1>13. Placed(sizes, Flow)' BY <1>3, <1>10 DEF FlowInv, Placed
<1> QED BY <1>1, <1>11, <1>12, <1>13 DEF FlowInv

LEMMA MovedNone == ASSUME NEW moves PROVE MovedUnder(<<>>, moves) = <<>>
BY DEF MovedUnder

LEMMA HandleFlows == FlowInv /\ HandleRequest => FlowInv'
<1> SUFFICES ASSUME FlowInv, HandleRequest PROVE FlowInv'
  OBVIOUS
<1> DEFINE size == Head(events).total
           N == Len(sizes)
<1>1. OutInv' BY HandleRequestInv DEF FlowInv
<1>2. /\ events \in Seq(Event) /\ events # <<>> /\ ~Writes(Head(events))
      /\ pipe \in Seq(Unit) /\ Len(pipe) <= PipeSize /\ received \in Seq(Unit)
      /\ N \in Nat
  BY DEF FlowInv, OutInv, TypeOK, HandleRequest
<1>3. /\ Len(events) \in Nat /\ 1 \in 1..Len(events) /\ Head(events) = events[1]
  BY <1>2, EmptySeq
<1>4. Len(events) = 1
  <2>1. ASSUME Len(events) > 1 PROVE FALSE
    <3>1. 2 \in 1..Len(events) BY <1>3, <2>1
    <3>2. ~Writes(events[2]) BY <3>1 DEF FlowInv, Single
    <3> QED BY <1>2, <1>3, <3>1, <3>2 DEF FlowInv, OutInv, OneRequest
  <2> QED BY <1>3, <2>1
<1>5. Tail(events) = <<>>
  <2>1. Tail(events) \in Seq(Event) /\ Len(Tail(events)) = 0
    BY <1>2, <1>4, HeadTailProperties
  <2> QED BY <2>1, EmptySeq
<1>6. waiting = <<>> BY <1>2 DEF FlowInv, Single
<1>7. Left = <<>> BY <1>2, <1>3, <1>6 DEF Left
<1>8. buf = <<>>
  <2> SUFFICES ASSUME buf # <<>> PROVE FALSE
    OBVIOUS
  <2>1. Holds(waiting, Len(buf)) \/ Holds(events, Len(buf))
    BY DEF FlowInv, OutInv, Covered
  <2>2. ~Holds(waiting, Len(buf)) BY <1>6 DEF Holds
  <2>3. \A i \in 1..Len(events) : ~Writes(events[i]) BY <1>2, <1>3, <1>4
  <2> QED BY <2>1, <2>2, <2>3 DEF Holds
<1>9. /\ size \in Positive /\ size \in Sizes /\ N + 1 \in 1..MaxMessages
  <2>1. size \in Sizes BY <1>2, <1>3 DEF FlowInv, OutInv, TypeOK
  <2>2. N < MaxMessages BY <1>2, <1>3 DEF FlowInv, OutInv, OneRequest
  <2> HIDE DEF size, N
  <2>3. size \in Positive BY <2>1, OutputBounds DEF Positive
  <2>4. N + 1 \in 1..MaxMessages BY <1>2, <2>2, OutputBounds
  <2> QED BY <2>1, <2>3, <2>4
<1>10. pipe = <<>> \/ Len(pipe) + size <= PipeSize
  BY <1>2, <1>3 DEF FlowInv, Fitting
<1>11. sizes \in Seq(Positive) /\ PipeSize \in Nat
  BY SizesPositive DEF FlowInv, Positive
<1> DEFINE answer == Answer(N + 1, size)
<1>12. /\ sizes' = Append(sizes, size) /\ received' = received
       /\ buf' = buf \o Answer(Len(sizes'), size)
  BY DEF HandleRequest
<1>13. Len(sizes') = N + 1 /\ sizes'[N + 1] = size BY <1>2, <1>9, <1>11, <1>12
<1> HIDE DEF size, N
<1>14. answer \in Seq(Unit) /\ Len(answer) = size /\ answer # <<>>
  <2>1. size \in Nat /\ size > 0 BY <1>9 DEF Positive
  <2>2. answer \in Seq(Unit) /\ Len(answer) = size BY <1>9, <2>1, AnswerUnits
  <2> HIDE DEF answer
  <2> QED BY <2>1, <2>2, EmptySeq
<1> HIDE DEF answer
<1>15. buf' = answer
  <2>1. buf' = <<>> \o answer BY <1>8, <1>12, <1>13 DEF answer
  <2> QED BY <1>14, <2>1, ConcatEmptySeq
<1>16. StartWrite(answer, size, <<>>, <<>>)
  <2>1. PICK moves \in BOOLEAN :
           StartWrite(buf', Len(buf'), MovedUnder(waiting, moves),
                      MovedUnder(Tail(events), moves))
    BY DEF HandleRequest
  <2>2. MovedUnder(waiting, moves) = <<>> /\ MovedUnder(Tail(events), moves) = <<>>
    BY <1>5, <1>6, MovedNone
  <2> QED BY <1>14, <1>15, <2>1, <2>2
<1>17. size \in Nat BY <1>9 DEF Positive
<1>18. /\ Single' /\ Flow' = received \o (pipe \o answer)
       /\ Left' # <<>> => Len(pipe) + size > PipeSize
       /\ \A i \in 1..Len(events') : Writes(events'[i])
  BY <1>2, <1>12, <1>14, <1>16, <1>17, StartFlows
<1>19. Fitting'
  <2>1. ASSUME Left' # <<>> PROVE size > PipeSize
    <3>1. Len(pipe) + size > PipeSize BY <1>18, <2>1
    <3>2. pipe = <<>> BY <1>2, <1>10, <1>11, <1>17, <3>1
    <3>3. Len(pipe) = 0 BY <3>2
    <3> QED BY <1>17, <3>1, <3>3
  <2>2. Len(sizes') > 0 /\ sizes'[Len(sizes')] = size BY <1>2, <1>13
  <2> QED BY <1>18, <2>1, <2>2 DEF Fitting
<1>20. Flow' = Flow \o answer
  <2>1. Flow = received \o pipe
    <3>1. pipe \o <<>> = pipe BY <1>2, ConcatEmptySeq
    <3> QED BY <1>7, <3>1 DEF Flow
  <2>2. (received \o pipe) \o answer = received \o (pipe \o answer)
    BY <1>2, <1>14, JoinedUnits
  <2> QED BY <1>18, <2>1, <2>2
<1>21. Placed(sizes, Flow)'
  <2>1. Flow \in Seq(Unit) BY LeftUnits DEF FlowInv
  <2>2. Placed(Append(sizes, size), Flow \o answer)
    BY <1>9, <1>11, <2>1, PlacedExtended DEF FlowInv, N, answer
  <2> QED BY <1>12, <1>20, <2>2
<1> QED BY <1>1, <1>18, <1>19, <1>21 DEF FlowInv

LEMMA CompleteFlows == FlowInv /\ CompleteWrite => FlowInv'
<1> SUFFICES ASSUME FlowInv, CompleteWrite PROVE FlowInv'
  OBVIOUS
<1> DEFINE write == Head(events)
           rest == Tail(events)
<1>1. OutInv' BY CompleteWriteInv DEF FlowInv
<1>2. /\ events \in Seq(Event) /\ events # <<>> /\ Writes(write)
      /\ pipe \in Seq(Unit) /\ Len(pipe) <= PipeSize /\ received \in Seq(Unit)
      /\ sizes' = sizes /\ received' = received
  BY DEF FlowInv, OutInv, TypeOK, CompleteWrite
<1>3. /\ rest \in Seq(Event) /\ Len(rest) \in Nat /\ Len(rest) = Len(events) - 1
      /\ \A i \in 1..Len(rest) : rest[i] = events[i + 1]
      /\ write = events[1] /\ write \in Event /\ Len(events) \in Nat
  BY <1>2, HeadTailProperties
<1>4. \A i \in 1..Len(rest) : i + 1 \in 1..Len(events) /\ i + 1 > 1 BY <1>3
<1>5. \A i \in 1..Len(rest) : ~Writes(rest[i]) BY <1>3, <1>4 DEF FlowInv, Single
<1>6. waiting = <<>> BY <1>2 DEF FlowInv, Single
<1>7. Left = write.left BY <1>2, <1>3, <1>6 DEF Left
<1>8. write.left \in Seq(Unit) /\ write.total \in Nat BY <1>3 DEF Event
<1>9. CASE write.left = <<>>
  <2>1. events' = rest /\ waiting' = waiting /\ pipe' = pipe
    BY <1>9 DEF CompleteWrite
  <2>2. Left' = <<>>
    <3> HIDE DEF rest
    <3>1. ASSUME rest # <<>> PROVE 1 \in 1..Len(rest) BY <1>3, <3>1, EmptySeq
    <3>2. rest # <<>> => ~Writes(rest[1]) BY <1>5, <3>1
    <3> QED BY <1>6, <2>1, <3>2 DEF Left
  <2>3. Flow' = Flow BY <1>2, <1>7, <1>9, <2>1, <2>2 DEF Flow
  <2>4. Single' BY <1>5, <1>6, <2>1 DEF Single
  <2>5. Fitting'
    <3>1. ASSUME NEW i \in 1..Len(events')
          PROVE  pipe' = <<>> \/ Len(pipe') + events'[i].total <= PipeSize
      BY <1>3, <1>4, <1>5, <2>1 DEF FlowInv, Fitting
    <3> QED BY <2>2, <3>1 DEF Fitting
  <2>6. Placed(sizes, Flow)' BY <1>2, <2>3 DEF FlowInv, Placed
  <2> QED BY <1>1, <2>4, <2>5, <2>6 DEF FlowInv
<1>10. CASE write.left # <<>>
  <2>1. StartWrite(write.left, write.total, waiting, rest)
    BY <1>10 DEF CompleteWrite
  <2>2. rest = <<>>
    <3>1. ASSUME Len(rest) # 0 PROVE FALSE
      <4>1. 1 \in 1..Len(rest) /\ 1 + 1 \in 1..Len(events) BY <1>3, <3>1
      <4>2. ~Writes(events[1 + 1]) BY <1>3, <1>5, <4>1
      <4> QED BY <1>7, <1>10, <4>1, <4>2 DEF FlowInv, Fitting
    <3> QED BY <1>3, <3>1, EmptySeq
  <2>3. StartWrite(write.left, write.total, <<>>, <<>>) BY <1>6, <2>1, <2>2
  <2> HIDE DEF write
  <2>4. /\ Single' /\ Flow' = received \o (pipe \o write.left)
        /\ \A i \in 1..Len(events') : Writes(events'[i])
    BY <1>2, <1>8, <1>10, <2>3, StartFlows
  <2>5. Flow' = Flow BY <1>7, <2>4 DEF Flow
  <2> QED BY <1>1, <1>2, <1>7, <1>10, <2>4, <2>5, WriteFlows
<1> QED BY <1>9, <1>10

LEMMA ReadyFlows == FlowInv /\ PipeReady => FlowInv'
<1> SUFFICES ASSUME FlowInv, PipeReady PROVE FlowInv'
  OBVIOUS
<1> DEFINE write == Head(waiting)
<1>1. OutInv' BY PipeReadyInv DEF FlowInv
<1>2. /\ waiting \in Seq(Event) /\ waiting # <<>>
      /\ pipe \in Seq(Unit) /\ Len(pipe) <= PipeSize /\ received \in Seq(Unit)
      /\ sizes' = sizes /\ received' = received
      /\ Transfer(write.left, write.total, events) /\ waiting' = Tail(waiting)
  BY DEF FlowInv, OutInv, TypeOK, PipeReady
<1>3. Len(waiting) = 1 /\ events = <<>> /\ Left # <<>> BY <1>2 DEF FlowInv, Single
<1>4. write = waiting[1] /\ write \in Event BY <1>2, HeadTailProperties
<1>5. waiting' = <<>>
  <2>1. Tail(waiting) \in Seq(Event) /\ Len(Tail(waiting)) = 0
    BY <1>2, <1>3, HeadTailProperties
  <2> QED BY <1>2, <2>1, EmptySeq
<1>6. Left = write.left BY <1>2, <1>4 DEF Left
<1>7. write.left \in Seq(Unit) /\ write.total \in Nat BY <1>4 DEF Event
<1> HIDE DEF write
<1>8. Transfer(write.left, write.total, <<>>) BY <1>2, <1>3
<1>9. /\ Single' /\ Flow' = received \o (pipe \o write.left)
      /\ \A i \in 1..Len(events') : Writes(events'[i])
  BY <1>2, <1>5, <1>7, <1>8, TransferFlows
<1>10. Flow' = Flow BY <1>6, <1>9 DEF Flow
<1> QED BY <1>1, <1>2, <1>3, <1>9, <1>10, WriteFlows

LEMMA ReadsFlow == FlowInv /\ ClientReads => FlowInv'
<1> SUFFICES ASSUME FlowInv, ClientReads PROVE FlowInv'
  OBVIOUS
<1>1. OutInv' BY ClientReadsInv DEF FlowInv
<1>2. /\ pipe # <<>> /\ received' = Append(received, Head(pipe)) /\ pipe' = Tail(pipe)
      /\ sizes' = sizes /\ waiting' = waiting /\ events' = events
  BY DEF ClientReads
<1>3. pipe \in Seq(Unit) /\ received \in Seq(Unit) BY DEF FlowInv, OutInv, TypeOK
<1>4. Left' = Left BY <1>2 DEF Left
<1>5. Left \in Seq(Unit) BY LeftUnits DEF FlowInv
<1>6. Flow' = Flow
  <2>1. Flow' = Append(received, Head(pipe)) \o (Tail(pipe) \o Left)
    BY <1>2, <1>4 DEF Flow
  <2> QED BY <1>2, <1>3, <1>5, <2>1, FlowsOut DEF Flow
<1>7. Single' BY <1>2, <1>4 DEF FlowInv, Single
<1>8. Fitting'
  <2>1. Len(pipe') = Len(pipe) - 1 /\ Len(pipe) \in Nat
    BY <1>2, <1>3, HeadTailProperties
  <2>2. ASSUME NEW i \in 1..Len(events), ~Writes(events[i])
        PROVE  pipe' = <<>> \/ Len(pipe') + events[i].total <= PipeSize
    <3>1. Len(pipe) + events[i].total <= PipeSize BY <1>2, <2>2 DEF FlowInv, Fitting
    <3>2. events[i].total \in Nat /\ PipeSize \in Nat
      BY <2>2, OutputBounds DEF FlowInv, OutInv, TypeOK
    <3> QED BY <2>1, <3>1, <3>2
  <2> QED BY <1>2, <1>4, <2>2 DEF FlowInv, Fitting
<1>9. Placed(sizes, Flow)' BY <1>2, <1>6 DEF FlowInv, Placed
<1> QED BY <1>1, <1>7, <1>8, <1>9 DEF FlowInv

LEMMA NextFlows ==
    ASSUME Patient, FlowInv, [Next]_vars PROVE FlowInv'
<1>1. CASE UNCHANGED vars
  <2>1. OutInv'
    BY <1>1 DEF vars, FlowInv, OutInv, TypeOK, Covered, OneRequest, Holds
  <2>2. Left' = Left BY <1>1 DEF vars, Left
  <2>3. Flow' = Flow BY <1>1, <2>2 DEF vars, Flow
  <2> QED BY <1>1, <2>1, <2>2, <2>3 DEF vars, FlowInv, Single, Fitting, Placed
<1>2. CASE \E size \in Sizes : RequestArrives(size) BY <1>2, RequestFlows
<1>3. CASE EventLoop BY <1>3, HandleFlows, CompleteFlows, ReadyFlows DEF EventLoop
<1>4. CASE ClientReads BY <1>4, ReadsFlow
<1> QED BY <1>1, <1>2, <1>3, <1>4 DEF Next, Idle

-----------------------------------------------------------------------------
(* What the client makes of the bytes it has.                              *)

\* Where the bytes are those of the answers, a complete answer is read whole.
LEMMA WholeAnswer ==
    ASSUME NEW s \in Seq(Positive), Len(s) <= MaxMessages,
           NEW r \in Seq(Unit), NEW rest \in Seq(Unit), Placed(s, r \o rest),
           NEW i \in 1..Len(s), Total(s, i) <= Len(r)
    PROVE  SubSeq(r, Total(s, i - 1) + 1, Total(s, i)) = Answer(i, s[i])
<1> DEFINE a == Total(s, i - 1)
           z == s[i]
           b == Total(s, i)
           bytes == SubSeq(r, a + 1, b)
<1>1. /\ a \in Nat /\ b \in Nat /\ z \in Nat /\ b = a + z
      /\ i \in 1..MaxMessages /\ Len(r) \in Nat
  <2>1. i - 1 \in 0..Len(s) /\ i \in 0..Len(s) OBVIOUS
  <2>2. i \in 1..MaxMessages BY OutputBounds
  <2> QED BY <2>1, <2>2, TotalSums DEF Positive
<1>2. \A p \in 1..z : (r \o rest)[a + p] = [id |-> i, part |-> p] BY DEF Placed
<1>3. b <= Len(r) OBVIOUS
<1> HIDE DEF a, b, z
<1>4. \A p \in 1..z : a + p \in 1..Len(r) /\ a + p \in 1..(Len(r) + Len(rest))
      /\ a + p <= Len(r)
  <2>1. Len(rest) \in Nat OBVIOUS
  <2> QED BY <1>1, <1>3, <2>1
<1>5. \A p \in 1..z : r[a + p] = [id |-> i, part |-> p]
  <2>1. \A k \in 1..(Len(r) + Len(rest)) : k <= Len(r) => (r \o rest)[k] = r[k]
    BY ConcatProperties
  <2> QED BY <1>2, <1>4, <2>1
<1>6. /\ bytes \in Seq(Unit) /\ Len(bytes) = z
      /\ \A p \in 1..z : bytes[p] = r[a + p]
  <2>1. a + 1 \in Int /\ b \in Int /\ b - (a + 1) + 1 = z
        /\ (IF a + 1 <= b THEN b - (a + 1) + 1 ELSE 0) = z
        /\ \A p \in 1..z : (a + 1) + p - 1 = a + p
    BY <1>1
  <2>2. \A k \in (a + 1)..b : r[k] \in Unit
    <3>1. \A k \in (a + 1)..b : k \in 1..Len(r) BY <1>1, <1>3
    <3> QED BY <3>1
  <2>3. /\ bytes \in Seq(Unit)
        /\ Len(bytes) = IF a + 1 <= b THEN b - (a + 1) + 1 ELSE 0
        /\ \A p \in 1..(b - (a + 1) + 1) : bytes[p] = r[(a + 1) + p - 1]
    <3>1. a + 1 \in Int /\ b \in Int BY <2>1
    <3> DEFINE c == a + 1
    <3> HIDE DEF c
    <3>2. c \in Int /\ \A k \in c..b : r[k] \in Unit BY <2>2, <3>1 DEF c
    <3>3. /\ SubSeq(r, c, b) \in Seq(Unit)
          /\ Len(SubSeq(r, c, b)) = IF c <= b THEN b - c + 1 ELSE 0
          /\ \A p \in 1..(b - c + 1) : SubSeq(r, c, b)[p] = r[c + p - 1]
      BY <3>1, <3>2, SubSeqProperties
    <3> QED BY <3>3 DEF c
  <2> HIDE DEF bytes
  <2> QED BY <2>1, <2>3
<1>7. /\ Answer(i, z) \in Seq(Unit) /\ Len(Answer(i, z)) = z
      /\ \A p \in 1..z : Answer(i, z)[p] = [id |-> i, part |-> p]
  BY <1>1, AnswerUnits
<1> DEFINE answer == Answer(i, z)
<1> HIDE DEF bytes, answer
<1>8. bytes = answer
  <2>1. /\ bytes \in Seq(Unit) /\ answer \in Seq(Unit) /\ Len(bytes) = Len(answer)
        /\ \A p \in 1..Len(bytes) : bytes[p] = answer[p]
    BY <1>5, <1>6, <1>7 DEF answer
  <2> QED BY <2>1, SeqEqual
<1> QED BY <1>8 DEF a, b, z, bytes, answer

\* The client has the first answers, each as it was sent.
DeliveredInv ==
    /\ Whole = Complete(sizes, Len(received))
    /\ Delivered = [i \in 1..Whole |-> i]

LEMMA FlowDelivers == FlowInv => DeliveredInv
<1> SUFFICES ASSUME FlowInv PROVE DeliveredInv
  OBVIOUS
<1> DEFINE rest == pipe \o Left
           r == Len(received)
<1>1. /\ sizes \in Seq(Positive) /\ Len(sizes) <= MaxMessages
      /\ received \in Seq(Unit) /\ r \in Nat
  BY SizesPositive DEF FlowInv, OutInv, TypeOK
<1>2. rest \in Seq(Unit)
  <2>1. pipe \in Seq(Unit) /\ Left \in Seq(Unit)
    BY LeftUnits DEF FlowInv, OutInv, TypeOK
  <2> QED BY <2>1, ConcatProperties
<1>3. Placed(sizes, received \o rest) BY DEF FlowInv, Flow
<1> HIDE DEF rest
<1>4. Whole = Complete(sizes, r) BY DEF Whole, Bytes, Complete
<1> DEFINE k == Whole
<1>5. k \in 0..Len(sizes) /\ \A n \in 0..Len(sizes) : Total(sizes, n) <= r <=> n <= k
  <2> HIDE DEF r, k
  <2>1. k = Complete(sizes, r) BY <1>4 DEF k
  <2> QED BY <1>1, <2>1, CompleteIs
<1> HIDE DEF k
<1>6. ASSUME NEW i \in 1..k
      PROVE  /\ SubSeq(received, Bytes(i - 1) + 1, Bytes(i)) = Answer(i, sizes[i])
             /\ Answer(i, sizes[i])[1].id = i
  <2>1. i \in 1..Len(sizes) /\ i \in 0..Len(sizes) /\ i <= k BY <1>1, <1>5
  <2>2. Total(sizes, i) <= r BY <1>5, <2>1
  <2>3. SubSeq(received, Total(sizes, i - 1) + 1, Total(sizes, i)) = Answer(i, sizes[i])
    BY <1>1, <1>2, <1>3, <2>1, <2>2, WholeAnswer
  <2>4. 1 \in 1..sizes[i] BY <1>1, <2>1 DEF Positive
  <2>5. Answer(i, sizes[i])[1].id = i BY <2>4 DEF Answer
  <2> QED BY <2>3, <2>5 DEF Bytes
<1>7. Delivered = [i \in 1..k |-> i]
  <2> DEFINE bytes(i) == SubSeq(received, Bytes(i - 1) + 1, Bytes(i))
             read(i) == IF bytes(i) = Answer(bytes(i)[1].id, sizes[i])
                        THEN bytes(i)[1].id ELSE 0
  <2>1. \A i \in 1..k : bytes(i) = Answer(i, sizes[i]) /\ bytes(i)[1].id = i BY <1>6
  <2>2. Delivered = [i \in 1..k |-> read(i)] BY DEF Delivered, k
  <2>3. \A i \in 1..k : read(i) = i
    <3> HIDE DEF bytes
    <3> QED BY <2>1
  <2> HIDE DEF read
  <2> QED BY <2>2, <2>3
<1> QED BY <1>4, <1>7 DEF DeliveredInv, k

\* A step of the program or of the client is one of the channel, or none.
LEMMA StepDelivers ==
    ASSUME FlowInv, DeliveredInv, FlowInv', DeliveredInv', [Next]_vars
    PROVE  [Channel!Next]_(Channel!vars)
<1> DEFINE sent == [i \in 1..Len(sizes) |-> i]
           r == Len(received)
<1>1. /\ sizes \in Seq(Positive) /\ received \in Seq(Unit)
      /\ Len(sizes) \in Nat /\ r \in Nat
      /\ Whole \in 0..Len(sizes)
  <2>1. sizes \in Seq(Positive) /\ received \in Seq(Unit)
    BY SizesPositive DEF FlowInv, OutInv, TypeOK
  <2>2. Whole \in 0..Len(sizes) BY <2>1, CompleteIs DEF DeliveredInv
  <2> QED BY <2>1, <2>2
<1>2. CASE sizes' = sizes /\ received' = received
  <2>1. Delivered' = Delivered BY <1>2 DEF DeliveredInv
  <2> QED BY <1>2, <2>1 DEF Channel!vars
<1>3. CASE HandleRequest
  <2>1. received' = received /\ sizes' = Append(sizes, Head(events).total)
    BY <1>3 DEF HandleRequest
  <2> DEFINE size == Head(events).total
             N == Len(sizes)
  <2>2. size \in Positive
    <3>1. 1 \in 1..Len(events) /\ Head(events) = events[1] /\ ~Writes(events[1])
      <4>1. events \in Seq(Event) /\ events # <<>> /\ ~Writes(Head(events))
        BY <1>3 DEF HandleRequest, FlowInv, OutInv, TypeOK
      <4> QED BY <4>1, EmptySeq
    <3>2. size \in Sizes BY <3>1 DEF FlowInv, OutInv, TypeOK
    <3> HIDE DEF size
    <3> QED BY <3>2, OutputBounds DEF Positive
  <2> HIDE DEF size
  <2>3. sizes' = Append(sizes, size) BY <2>1 DEF size
  <2>4. N + 1 \in 1..MaxMessages /\ Len(sizes') = N + 1
    <3>1. Len(sizes') = N + 1 BY <1>1, <2>2, <2>3
    <3>2. Len(sizes') <= MaxMessages BY DEF FlowInv, OutInv, TypeOK
    <3> QED BY <1>1, <3>1, <3>2, OutputBounds
  <2>5. r <= Total(sizes, N)
    <3>1. Len(Flow) = r + (Len(pipe) + Len(Left)) /\ Len(Flow) = Total(sizes, N)
      BY LeftUnits DEF FlowInv, Placed
    <3>2. Len(pipe) \in Nat /\ Len(Left) \in Nat
      <4>1. pipe \in Seq(Unit) /\ Left \in Seq(Unit)
        BY LeftUnits DEF FlowInv, OutInv, TypeOK
      <4> QED BY <4>1
    <3> QED BY <1>1, <3>1, <3>2
  <2>6. Whole' = Whole
    <3>1. Complete(Append(sizes, size), r) = Complete(sizes, r)
      BY <1>1, <2>2, <2>5, CompleteExtended
    <3> QED BY <2>1, <2>3, <3>1 DEF DeliveredInv
  <2>7. Delivered' = Delivered BY <2>6 DEF DeliveredInv
  <2>8. sent' = Append(sent, N + 1)
    <3>1. sent' = [i \in 1..(N + 1) |-> i] BY <2>4
    <3>2. [i \in 1..(N + 1) |-> i] = Append([i \in 1..N |-> i], N + 1) BY <1>1
    <3> QED BY <3>1, <3>2
  <2> QED BY <2>4, <2>7, <2>8 DEF Channel!Next, Channel!Send
<1>4. CASE ClientReads
  <2>1. sizes' = sizes /\ received' \in Seq(Unit) /\ Len(received') = r + 1
    <3>1. pipe \in Seq(Unit) /\ pipe # <<>> /\ received' = Append(received, Head(pipe))
          /\ sizes' = sizes
      BY <1>4 DEF ClientReads, FlowInv, OutInv, TypeOK
    <3>2. Head(pipe) \in Unit BY <3>1, HeadTailProperties
    <3> QED BY <1>1, <3>1, <3>2, AppendProperties
  <2>2. Whole' \in {Whole, Whole + 1} /\ Whole' <= Len(sizes)
    <3>1. Complete(sizes, r + 1) \in {Complete(sizes, r), Complete(sizes, r) + 1}
      BY <1>1, CompleteNext
    <3>2. Whole' = Complete(sizes, r + 1) BY <2>1 DEF DeliveredInv
    <3>3. r + 1 \in Nat BY <1>1
    <3>4. Complete(sizes, r + 1) \in 0..Len(sizes) BY <1>1, <3>3, CompleteIs
    <3> QED BY <1>1, <3>1, <3>2, <3>4 DEF DeliveredInv
  <2>3. CASE Whole' = Whole
    <3>1. Delivered' = Delivered BY <2>3 DEF DeliveredInv
    <3> QED BY <2>1, <3>1 DEF Channel!vars
  <2>4. CASE Whole' = Whole + 1
    <3> DEFINE k == Whole
    <3>1. Delivered = [i \in 1..k |-> i] /\ Delivered' = [i \in 1..(k + 1) |-> i]
      BY <2>4 DEF DeliveredInv
    <3>2. k \in Nat /\ k + 1 \in 1..Len(sizes) BY <1>1, <2>2, <2>4
    <3> HIDE DEF k
    <3>3. [i \in 1..(k + 1) |-> i] = Append([i \in 1..k |-> i], k + 1)
          /\ Len([i \in 1..k |-> i]) = k
      BY <3>2
    <3>4. Len(Delivered) = k /\ Delivered' = Append(Delivered, k + 1)
      BY <3>1, <3>3
    <3>5. Len(sent) = Len(sizes) /\ sent[k + 1] = k + 1 /\ sent' = sent
      BY <1>1, <2>1, <3>2
    <3>6. Len(Delivered) < Len(sent) BY <1>1, <3>2, <3>4, <3>5
    <3>7. Delivered' = Append(Delivered, sent[Len(Delivered) + 1]) BY <3>4, <3>5
    <3> QED BY <3>5, <3>6, <3>7 DEF Channel!Next, Channel!Deliver
  <2> QED BY <2>2, <2>3, <2>4
<1>5. CASE UNCHANGED vars BY <1>2, <1>5 DEF vars
<1>6. CASE \E size \in Sizes : RequestArrives(size)
  BY <1>2, <1>6 DEF RequestArrives
<1>7. CASE CompleteWrite \/ PipeReady BY <1>2, <1>7 DEF CompleteWrite, PipeReady
<1>8. CASE Idle BY <1>5, <1>8 DEF Idle
<1> QED BY <1>3, <1>4, <1>5, <1>6, <1>7, <1>8 DEF Next, EventLoop

\* A client that asks only while the pipe has room for the answer receives the
\* answers whole, each once and in order, whatever their sizes: what the one
\* streambuf holds is the answer that is being written (comms.cpp:177-197).
THEOREM ImplementsChannel == Patient => (Spec => Channel!SafeSpec)
<1> SUFFICES ASSUME Patient PROVE Spec => Channel!SafeSpec
  OBVIOUS
<1>1. Init => Channel!Init
  <2> SUFFICES ASSUME Init PROVE Channel!Init
    OBVIOUS
  <2>1. DeliveredInv BY InitFlows, FlowDelivers
  <2>2. Len(sizes) = 0 /\ sizes \in Seq(Positive) /\ Len(received) \in Nat
    BY DEF Init
  <2>3. Whole = 0
    <3>1. Complete(sizes, Len(received)) \in 0..Len(sizes) BY <2>2, CompleteIs
    <3> QED BY <2>1, <2>2, <3>1 DEF DeliveredInv
  <2> QED BY <2>1, <2>2, <2>3 DEF Channel!Init, DeliveredInv
<1>2. FlowInv /\ [Next]_vars => FlowInv' BY NextFlows
<1>3. FlowInv => DeliveredInv BY FlowDelivers
<1>4. FlowInv /\ DeliveredInv /\ FlowInv' /\ DeliveredInv' /\ [Next]_vars
      => [Channel!Next]_(Channel!vars)
  BY StepDelivers
<1> QED BY <1>1, <1>2, <1>3, <1>4, InitFlows, PTL DEF Spec, Channel!SafeSpec

=============================================================================
