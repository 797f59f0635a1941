------------------------ MODULE LanguageServerProofs ------------------------
(***************************************************************************)
(* Proofs about LanguageServer, for any documents, contents and bounds.    *)
(***************************************************************************)
EXTENDS LanguageServer, Integers, TLAPS

USE ContentsAssumption, BoundsAssumption, MethodsAssumption, PolicyAssumption,
    UriAssumption

-----------------------------------------------------------------------------
(* Which steps touch what.                                                 *)

lock == <<writer, strandVars>>

\* The strand, its queue and the lock are changed by the handlers that queue a
\* Reparse, by its completion and by the steps of the job.
LEMMA StrandFrame ==
    ASSUME TypeOK, [Next]_vars
    PROVE  \/ UNCHANGED lock
           \/ \E u \in Uris : QueueReparse(u) /\ UNCHANGED writer
           \/ ResumeHandler
           \/ StartReparse \/ Parse \/ LockIndex
           \/ MoveContext \/ MoveScript \/ MoveIndex \/ FinishReparse
<1>1. CASE UNCHANGED vars BY <1>1 DEF vars, lock
<1>2. CASE Dispatch
  <2>1. CASE Initialize \/ Other \/ Shutdown \/ Exit
    BY <2>1 DEF Initialize, Other, Shutdown, Exit, lock
  <2>2. ASSUME NEW u \in Uris, NEW v \in Versions, NEW t \in Texts, DidOpen(u, v, t)
        PROVE  QueueReparse(u) /\ UNCHANGED writer
    BY <2>2 DEF DidOpen
  <2>3. ASSUME NEW u \in Uris, NEW v \in Versions, NEW t \in Texts,
               NEW changes \in 1..MaxChanges,
               DidChange(u, v, t, changes) \/ IgnoreChange(u, v, changes)
        PROVE  UNCHANGED lock
    BY <2>3 DEF DidChange, IgnoreChange, lock
  <2>4. ASSUME NEW u \in Uris,
               DidClose(u) \/ Request("references", u) \/ Request("definition", u)
        PROVE  UNCHANGED lock
    BY <2>4 DEF DidClose, Request, lock
  <2> QED BY <1>2, <2>1, <2>2, <2>3, <2>4 DEF Dispatch
<1>3. CASE MainStep
  <2>1. CASE FinishChange
    BY <2>1 DEF FinishChange, TypeOK, MainTypeOK
  <2>2. CASE FinishClose \/ CursorUnknown \/ CursorMiss \/ CursorHit
    BY <2>2 DEF FinishClose, CursorUnknown, CursorMiss, CursorHit, lock
  <2>3. CASE Lookup \/ LookupCrash \/ AbortWrite \/ Destroy
    BY <2>3 DEF Lookup, LookupCrash, Crash, AbortWrite, Destroy, lock
  <2> QED BY <1>3, <2>1, <2>2, <2>3 DEF MainStep
<1>4. CASE CompleteWrite BY <1>4 DEF CompleteWrite, lock
<1>5. CASE StrandStep BY <1>5 DEF StrandStep, StartCrash, Crash, lock
<1>6. CASE Finished BY <1>6 DEF Finished, vars, lock
<1> QED BY <1>1, <1>2, <1>3, <1>4, <1>5, <1>6 DEF Next, Internal

\* The documents and the index.
LEMMA DataFrame ==
    ASSUME [Next]_vars
    PROVE  \/ UNCHANGED <<documents, index>>
           \/ \E u \in Uris, v \in Versions, t \in Texts : DidOpen(u, v, t)
           \/ FinishChange \/ FinishClose
           \/ MoveContext \/ MoveScript \/ MoveIndex \/ FinishReparse
<1>1. CASE UNCHANGED vars BY <1>1 DEF vars
<1>2. CASE Dispatch
  <2>1. CASE Initialize \/ Other \/ Shutdown \/ Exit
    BY <2>1 DEF Initialize, Other, Shutdown, Exit
  <2>2. ASSUME NEW u \in Uris, NEW v \in Versions, NEW t \in Texts,
               NEW changes \in 1..MaxChanges,
               DidChange(u, v, t, changes) \/ IgnoreChange(u, v, changes)
        PROVE  UNCHANGED <<documents, index>>
    BY <2>2 DEF DidChange, IgnoreChange
  <2>3. ASSUME NEW u \in Uris,
               DidClose(u) \/ Request("references", u) \/ Request("definition", u)
        PROVE  UNCHANGED <<documents, index>>
    BY <2>3 DEF DidClose, Request
  <2> QED BY <1>2, <2>1, <2>2, <2>3 DEF Dispatch
<1>3. CASE MainStep
  <2>1. CASE CursorUnknown \/ CursorMiss \/ CursorHit \/ Lookup
    BY <2>1 DEF CursorUnknown, CursorMiss, CursorHit, Lookup
  <2>2. CASE LookupCrash \/ AbortWrite \/ ResumeHandler \/ Destroy
    BY <2>2 DEF LookupCrash, Crash, AbortWrite, ResumeHandler, Destroy
  <2> QED BY <1>3, <2>1, <2>2 DEF MainStep
<1>4. CASE CompleteWrite BY <1>4 DEF CompleteWrite
<1>5. CASE StrandStep
  BY <1>5 DEF StrandStep, StartCrash, Crash, StartReparse, Parse, LockIndex
<1>6. CASE Finished BY <1>6 DEF Finished, vars
<1> QED BY <1>1, <1>2, <1>3, <1>4, <1>5, <1>6 DEF Next, Internal

\* The writes: a reply is sent by a handler, with or without its lock, or by the
\* dispatch loop; a write completes, or is aborted.
LEMMA OutFrame ==
    ASSUME TypeOK, [Next]_vars
    PROVE  \/ UNCHANGED outVars
           \/ \E id \in 1..MaxMessages : Send(id, "handler")
           \/ nread \in 1..MaxMessages /\ Lookup
           \/ Shutdown
           \/ CompleteWrite
           \/ AbortWrite
<1>1. CASE UNCHANGED vars BY <1>1 DEF vars
<1>2. CASE Dispatch
  <2>1. CASE Initialize
    <3>1. nread' \in 1..MaxMessages
      BY <2>1 DEF Initialize, Read, TypeOK, MainTypeOK
    <3> QED BY <2>1, <3>1 DEF Initialize
  <2>2. CASE Other \/ Exit BY <2>2 DEF Other, Exit
  <2>3. ASSUME NEW u \in Uris, NEW v \in Versions, NEW t \in Texts, DidOpen(u, v, t)
        PROVE  UNCHANGED outVars
    BY <2>3 DEF DidOpen
  <2>4. ASSUME NEW u \in Uris, NEW v \in Versions, NEW t \in Texts,
               NEW changes \in 1..MaxChanges,
               DidChange(u, v, t, changes) \/ IgnoreChange(u, v, changes)
        PROVE  UNCHANGED outVars
    BY <2>4 DEF DidChange, IgnoreChange
  <2>5. ASSUME NEW u \in Uris,
               DidClose(u) \/ Request("references", u) \/ Request("definition", u)
        PROVE  UNCHANGED outVars
    BY <2>5 DEF DidClose, Request
  <2> QED BY <1>2, <2>1, <2>2, <2>3, <2>4, <2>5 DEF Dispatch
<1>3. CASE MainStep
  <2>1. CASE CursorMiss \/ Lookup
    <3>1. nread \in 1..MaxMessages
      BY <2>1 DEF CursorMiss, Lookup, TypeOK, MainTypeOK
    <3> QED BY <2>1, <3>1 DEF CursorMiss, Lookup
  <2>2. CASE FinishChange \/ FinishClose \/ CursorUnknown \/ CursorHit
    BY <2>2 DEF FinishChange, FinishClose, CursorUnknown, CursorHit
  <2>3. CASE LookupCrash \/ ResumeHandler \/ Destroy
    BY <2>3 DEF LookupCrash, Crash, ResumeHandler, Destroy
  <2> QED BY <1>3, <2>1, <2>2, <2>3 DEF MainStep
<1>4. CASE StrandStep
  BY <1>4 DEF StrandStep, StartReparse, StartCrash, Crash, Parse, LockIndex,
              MoveContext, MoveScript, MoveIndex, FinishReparse
<1>5. CASE Finished BY <1>5 DEF Finished, vars
<1> QED BY <1>1, <1>2, <1>3, <1>4, <1>5 DEF Next, Internal
-----------------------------------------------------------------------------
(* Types.                                                                  *)

Running == IF job.pc = "idle" THEN 0 ELSE 1

\* Every suspended didOpen or didChange handler has its Reparse queued, running
\* or completed: ctx.run() cannot return before the last of them is over.
AwaitingCounts == awaiting = Len(queue) + Running + done

TypeInv == TypeOK /\ AwaitingCounts

LEMMA InitTypeInv == Init => TypeInv
<1> SUFFICES ASSUME Init PROVE TypeInv OBVIOUS
<1>1. MainTypeOK BY DEF Init, MainTypeOK, NoRequest, Message
<1>2. StrandTypeOK BY DEF Init, StrandTypeOK, NoJob, Contents
<1>3. DataTypeOK BY DEF Init, DataTypeOK, Document, Absent, Contents
<1>4. OutTypeOK BY DEF Init, OutTypeOK
<1>5. AwaitingCounts BY DEF Init, AwaitingCounts, Running, NoJob
<1> QED BY <1>1, <1>2, <1>3, <1>4, <1>5 DEF TypeInv, TypeOK

LEMMA StrandTypes ==
    ASSUME TypeInv, [Next]_vars
    PROVE  StrandTypeOK' /\ AwaitingCounts'
<1> USE DEF Running
<1>1. StrandTypeOK /\ AwaitingCounts BY DEF TypeInv, TypeOK
<1>2. CASE UNCHANGED lock
  BY <1>1, <1>2 DEF lock, strandVars, StrandTypeOK, AwaitingCounts
<1>3. ASSUME NEW u \in Uris, QueueReparse(u), UNCHANGED writer
      PROVE  StrandTypeOK' /\ AwaitingCounts'
  <2>1. StrandTypeOK' BY <1>1, <1>3 DEF QueueReparse, StrandTypeOK
  <2>2. Len(queue') = Len(queue) + 1 /\ Len(queue) \in Nat
    BY <1>1, <1>3 DEF QueueReparse, StrandTypeOK
  <2>3. awaiting' = awaiting + 1 /\ done' = done /\ job' = job
    BY <1>3 DEF QueueReparse
  <2>4. AwaitingCounts' BY <1>1, <2>2, <2>3 DEF AwaitingCounts, StrandTypeOK
  <2> QED BY <2>1, <2>4
<1>4. CASE ResumeHandler
  <2>1. awaiting' = awaiting - 1 /\ done' = done - 1 /\ done > 0
        /\ UNCHANGED <<writer, queue, job>>
    BY <1>4 DEF ResumeHandler
  <2>2. Len(queue) \in Nat BY <1>1 DEF StrandTypeOK
  <2> QED BY <1>1, <2>1, <2>2 DEF StrandTypeOK, AwaitingCounts
<1>5. CASE StartReparse
  <2>1. PICK t \in CopiedTexts(Head(queue)) :
           job' = [pc |-> "parsing", uri |-> Head(queue), text |-> t]
    BY <1>5 DEF StartReparse
  <2>2. /\ queue # <<>> /\ queue' = Tail(queue) /\ job.pc = "idle"
        /\ UNCHANGED <<writer, awaiting, done>>
    BY <1>5 DEF StartReparse, JobAt
  <2>3. Head(queue) \in Uris /\ queue' \in Seq(Uris) /\ Len(queue) = Len(queue') + 1
        /\ Len(queue') \in Nat
    BY <1>1, <2>2 DEF StrandTypeOK
  <2>4. t \in Contents
    BY <2>1, <2>3 DEF CopiedTexts, TypeInv, TypeOK, DataTypeOK, MainTypeOK,
                      Document, Message, Contents
  <2> QED BY <1>1, <2>1, <2>2, <2>3, <2>4 DEF StrandTypeOK, AwaitingCounts
<1>6. CASE Parse \/ LockIndex \/ MoveContext \/ MoveScript \/ MoveIndex
  <2>1. /\ job' \in {[job EXCEPT !.pc = to] :
                     to \in {"locking", "context", "script", "index", "returning"}}
        /\ job.pc # "idle"
        /\ writer' \in {writer, "strand", "none"}
        /\ UNCHANGED <<queue, awaiting, done>>
    BY <1>6 DEF Parse, LockIndex, MoveContext, MoveScript, MoveIndex, JobAt
  <2> QED BY <1>1, <2>1 DEF StrandTypeOK, AwaitingCounts
<1>7. CASE FinishReparse
  <2>1. job' = NoJob /\ job.pc = "returning" /\ done' = done + 1
        /\ UNCHANGED <<writer, queue, awaiting>>
    BY <1>7 DEF FinishReparse, JobAt
  <2>2. Len(queue) \in Nat BY <1>1 DEF StrandTypeOK
  <2> QED BY <1>1, <2>1, <2>2 DEF StrandTypeOK, AwaitingCounts, NoJob, Contents
<1> QED
  BY StrandFrame, <1>2, <1>3, <1>4, <1>5, <1>6, <1>7 DEF TypeInv

LEMMA DataTypes ==
    ASSUME TypeInv, [Next]_vars
    PROVE  DataTypeOK'
<1>1. DataTypeOK BY DEF TypeInv, TypeOK
<1>2. CASE UNCHANGED <<documents, index>> BY <1>1, <1>2 DEF DataTypeOK
<1>3. ASSUME NEW u \in Uris, NEW v \in Versions, NEW t \in Texts, DidOpen(u, v, t)
      PROVE  DataTypeOK'
  BY <1>1, <1>3 DEF DidOpen, DataTypeOK, Absent, Document, Contents
<1>4. CASE FinishChange
  BY <1>1, <1>4 DEF FinishChange, DataTypeOK, TypeInv, TypeOK, MainTypeOK,
                    Message, Document, Contents
<1>5. CASE FinishClose
  BY <1>1, <1>5 DEF FinishClose, DataTypeOK, TypeInv, TypeOK, MainTypeOK, Document
<1>6. CASE MoveContext \/ MoveScript \/ MoveIndex \/ FinishReparse
  <2>1. job.uri \in Uris /\ job.text \in Contents
    BY <1>6 DEF TypeInv, TypeOK, StrandTypeOK, JobAt, MoveContext, MoveScript,
                MoveIndex, FinishReparse
  <2>2. CASE MoveContext BY <1>1, <2>1, <2>2 DEF MoveContext, DataTypeOK, Document
  <2>3. CASE MoveScript BY <1>1, <2>1, <2>3 DEF MoveScript, DataTypeOK, Document
  <2>4. CASE MoveIndex BY <1>1, <2>1, <2>4 DEF MoveIndex, DataTypeOK
  <2>5. CASE FinishReparse BY <1>1, <2>5 DEF FinishReparse, DataTypeOK
  <2> QED BY <1>6, <2>2, <2>3, <2>4, <2>5
<1> QED BY DataFrame, <1>2, <1>3, <1>4, <1>5, <1>6

LEMMA OutTypes ==
    ASSUME TypeInv, [Next]_vars
    PROVE  OutTypeOK'
<1>1. OutTypeOK BY DEF TypeInv, TypeOK
<1>2. CASE UNCHANGED outVars BY <1>1, <1>2 DEF outVars, OutTypeOK
<1>3. ASSUME NEW id \in 1..MaxMessages, NEW by \in {"loop", "handler", "reader"},
             SendNow(id) \/ SendLater(id, by)
      PROVE  OutTypeOK'
  <2>1. [id |-> id, by |-> by] \in Write BY DEF Write
  <2>2. CASE SendNow(id) BY <1>1, <2>2 DEF SendNow, OutTypeOK
  <2>3. CASE SendLater(id, by) BY <1>1, <2>1, <2>3 DEF SendLater, OutTypeOK
  <2> QED BY <1>3, <2>2, <2>3
<1>4. CASE Shutdown
  <2>1. nread' \in 1..MaxMessages
    BY <1>4 DEF Shutdown, Read, TypeInv, TypeOK, MainTypeOK
  <2>2. SendNow(nread') \/ SendLater(nread', "loop") BY <1>4 DEF Shutdown
  <2> QED BY <1>3, <2>1, <2>2
<1>5. CASE CompleteWrite
  <2>1. PICK write \in sending : /\ replied' = replied \cup {write.id}
                                 /\ sending' = sending \ {write}
    BY <1>5 DEF CompleteWrite
  <2>2. write.id \in 1..MaxMessages BY <1>1 DEF OutTypeOK, Write
  <2> QED BY <1>1, <2>1, <2>2 DEF OutTypeOK
<1>6. CASE AbortWrite BY <1>1, <1>6 DEF AbortWrite, OutTypeOK
<1>7. CASE nread \in 1..MaxMessages /\ Lookup BY <1>3, <1>7 DEF Lookup, Send
<1> QED BY OutFrame, <1>2, <1>3, <1>4, <1>5, <1>6, <1>7 DEF Send, TypeInv

LEMMA MainTypes ==
    ASSUME TypeInv, [Next]_vars
    PROVE  MainTypeOK'
<1> USE DEF NoRequest, Message
<1>1. MainTypeOK BY DEF TypeInv, TypeOK
<1>2. CASE UNCHANGED vars BY <1>1, <1>2 DEF vars, mainVars, MainTypeOK
<1>3. CASE Dispatch
  <2>1. CASE Initialize \/ Other \/ Shutdown \/ Exit
    BY <1>1, <2>1 DEF Initialize, Other, Shutdown, Exit, Read, MainTypeOK
  <2>2. ASSUME NEW u \in Uris, NEW v \in Versions, NEW t \in Texts, DidOpen(u, v, t)
        PROVE  MainTypeOK'
    BY <1>1, <2>2 DEF DidOpen, Read, MainTypeOK
  <2>3. ASSUME NEW u \in Uris, NEW v \in Versions, NEW t \in Texts,
               NEW changes \in 1..MaxChanges, DidChange(u, v, t, changes)
        PROVE  MainTypeOK'
    BY <1>1, <2>3 DEF DidChange, Read, MainTypeOK, AllMethods
  <2>4. ASSUME NEW u \in Uris, NEW v \in Versions,
               NEW changes \in 1..MaxChanges, IgnoreChange(u, v, changes)
        PROVE  MainTypeOK'
    BY <1>1, <2>4 DEF IgnoreChange, Read, MainTypeOK
  <2>5. ASSUME NEW u \in Uris, DidClose(u) PROVE MainTypeOK'
    <3>1. req' = [method |-> "didClose", uri |-> u, version |-> 0, text |-> NoText]
      BY <2>5 DEF DidClose
    <3>2. req' \in Message BY <3>1 DEF AllMethods
    <3> QED BY <1>1, <2>5, <3>1, <3>2 DEF DidClose, Read, MainTypeOK
  <2>6. ASSUME NEW u \in Uris, NEW m \in {"references", "definition"}, Request(m, u)
        PROVE  MainTypeOK'
    <3>1. req' = [method |-> m, uri |-> u, version |-> 0, text |-> NoText]
      BY <2>6 DEF Request
    <3>2. req' \in Message BY <3>1 DEF AllMethods
    <3> QED BY <1>1, <2>6, <3>1, <3>2 DEF Request, Read, MainTypeOK
  <2> QED BY <1>3, <2>1, <2>2, <2>3, <2>4, <2>5, <2>6 DEF Dispatch
<1>4. CASE MainStep
  <2>1. CASE FinishChange BY <1>1, <2>1 DEF FinishChange, MainTypeOK
  <2>2. CASE FinishClose BY <1>1, <2>2 DEF FinishClose, MainTypeOK
  <2>3. CASE CursorUnknown \/ CursorMiss
    BY <1>1, <2>3 DEF CursorUnknown, CursorMiss, MainTypeOK
  <2>4. CASE CursorHit BY <1>1, <2>4 DEF CursorHit, MainTypeOK
  <2>5. CASE Lookup BY <1>1, <2>5 DEF Lookup, MainTypeOK
  <2>6. CASE LookupCrash BY <1>1, <2>6 DEF LookupCrash, Crash, mainVars, MainTypeOK
  <2>7. CASE AbortWrite \/ ResumeHandler \/ Destroy
    BY <1>1, <2>7 DEF AbortWrite, ResumeHandler, Destroy, mainVars, MainTypeOK
  <2> QED BY <1>4, <2>1, <2>2, <2>3, <2>4, <2>5, <2>6, <2>7 DEF MainStep
<1>5. CASE CompleteWrite BY <1>1, <1>5 DEF CompleteWrite, InEventLoop, MainTypeOK
<1>6. CASE StrandStep
  <2>1. CASE MoveScript BY <1>1, <2>1 DEF MoveScript, MainTypeOK
  <2>2. CASE StartCrash BY <1>1, <2>2 DEF StartCrash, Crash, mainVars, MainTypeOK
  <2>3. CASE \/ StartReparse \/ Parse \/ LockIndex \/ MoveContext \/ MoveIndex
             \/ FinishReparse
    BY <1>1, <2>3 DEF StartReparse, Parse, LockIndex, MoveContext, MoveIndex,
                      FinishReparse, mainVars, MainTypeOK
  <2> QED BY <1>6, <2>1, <2>2, <2>3 DEF StrandStep
<1>7. CASE Finished BY <1>1, <1>7 DEF Finished, vars, mainVars, MainTypeOK
<1> QED BY <1>2, <1>3, <1>4, <1>5, <1>6, <1>7 DEF Next, Internal

LEMMA NextTypeInv == TypeInv /\ [Next]_vars => TypeInv'
  BY StrandTypes, DataTypes, OutTypes, MainTypes DEF TypeInv, TypeOK

\* Every state of the server is within its types, and handlers and Reparse jobs
\* balance (server.hpp:35-61, handlers.cpp:81-83).
THEOREM TypeCorrect == Spec => []TypeOK
<1>1. Spec => []TypeInv BY InitTypeInv, NextTypeInv, PTL DEF Spec
<1> QED BY <1>1, PTL DEF TypeInv

-----------------------------------------------------------------------------
(* The inductive invariant.                                                *)

\* Jobs, changes and the index are about documents that exist.
Known ==
    /\ \A u \in Uris : Queued(u) \/ Writing(u) => documents[u].present
    /\ job.pc # "idle" => documents[job.uri].present
    /\ index.uri \in Uris => documents[index.uri].present

\* With no change under way and no further job queued, the job that is about to
\* replace a parse has the current text, and a parse not about to be replaced is
\* that of the current text.
Fresh(u) ==
    ~Writing(u) /\ ~Queued(u) =>
        documents[u].text = IF Parsing(u) THEN job.text ELSE documents[u].script

\* Context and script differ only between the two moves of the job.
Coherent(u) ==
    documents[u].context = IF job.pc = "script" /\ job.uri = u THEN job.text
                           ELSE documents[u].script

Moved == job.pc = "index" => documents[job.uri].script = job.text

SyncInv ==
    /\ Known
    /\ \A u \in Uris : Fresh(u)
    /\ \A u \in Uris : Coherent(u)
    /\ Moved
    /\ IndexMatchesDocument

\* What the steps that matter to SyncInv are.
LEMMA SyncFrame ==
    ASSUME [Next]_vars
    PROVE  \/ /\ UNCHANGED <<documents, index, writer, queue, job>>
              /\ \A u \in Uris : Writing(u)' => Writing(u)
              /\ \A u \in Uris : Writing(u) => Writing(u)'
           \/ \E u \in Uris, v \in Versions, t \in Texts :
                 \/ DidOpen(u, v, t)
                 \/ \E changes \in 1..MaxChanges : DidChange(u, v, t, changes)
           \/ FinishChange \/ FinishClose
           \/ StartReparse \/ Parse \/ LockIndex
           \/ MoveContext \/ MoveScript \/ MoveIndex \/ FinishReparse
<1> USE DEF Writing
<1>1. CASE UNCHANGED vars BY <1>1 DEF vars, mainVars, strandVars
<1>2. CASE Dispatch
  <2>1. CASE Initialize \/ Other \/ Shutdown \/ Exit
    BY <2>1 DEF Initialize, Other, Shutdown, Exit, Read, strandVars
  <2>2. ASSUME NEW u \in Uris, NEW v \in Versions, NEW changes \in 1..MaxChanges,
               IgnoreChange(u, v, changes)
        PROVE  UNCHANGED <<documents, index, writer, queue, job, pc, req>>
    BY <2>2 DEF IgnoreChange, strandVars
  <2>3. ASSUME NEW u \in Uris,
               DidClose(u) \/ Request("references", u) \/ Request("definition", u)
        PROVE  /\ UNCHANGED <<documents, index, writer, queue, job>>
               /\ pc # "writing" /\ pc' # "writing"
    BY <2>3 DEF DidClose, Request, Read, strandVars
  <2> QED BY <1>2, <2>1, <2>2, <2>3 DEF Dispatch
<1>3. CASE MainStep
  <2>1. CASE CursorUnknown \/ CursorMiss \/ CursorHit \/ Lookup
    BY <2>1 DEF CursorUnknown, CursorMiss, CursorHit, Lookup, strandVars
  <2>2. CASE LookupCrash \/ AbortWrite \/ ResumeHandler \/ Destroy
    BY <2>2 DEF LookupCrash, Crash, AbortWrite, ResumeHandler, Destroy, mainVars,
                strandVars
  <2> QED BY <1>3, <2>1, <2>2 DEF MainStep
<1>4. CASE CompleteWrite BY <1>4 DEF CompleteWrite, InEventLoop, strandVars
<1>5. CASE StrandStep
  BY <1>5 DEF StrandStep, StartCrash, Crash, mainVars, strandVars
<1>6. CASE Finished BY <1>6 DEF Finished, vars, mainVars, strandVars
<1> QED BY <1>1, <1>2, <1>3, <1>4, <1>5, <1>6 DEF Next, Internal

LEMMA InAppend ==
    ASSUME NEW S, NEW q \in Seq(S), NEW u \in S
    PROVE  \A w : InQueue(Append(q, u), w) <=> InQueue(q, w) \/ w = u
<1> DEFINE a == Append(q, u)
<1>1. a[Len(a)] = u /\ Len(a) \in 1..Len(a) OBVIOUS
<1>2. InQueue(a, u) BY <1>1 DEF InQueue
<1>3. \A w : InQueue(q, w) => InQueue(a, w) BY DEF InQueue
<1>4. ASSUME NEW w, InQueue(a, w), w # u PROVE InQueue(q, w) BY <1>4 DEF InQueue
<1> QED BY <1>2, <1>3, <1>4

LEMMA InTail ==
    ASSUME NEW S, NEW q \in Seq(S), q # <<>>
    PROVE  \A w : InQueue(q, w) <=> InQueue(Tail(q), w) \/ w = Head(q)
<1>1. ASSUME NEW w, InQueue(Tail(q), w) PROVE InQueue(q, w)
  <2>1. PICK i \in 1..Len(Tail(q)) : Tail(q)[i] = w BY <1>1 DEF InQueue
  <2>2. i + 1 \in 1..Len(q) /\ q[i + 1] = w BY <2>1
  <2> QED BY <2>2 DEF InQueue
<1>2. InQueue(q, Head(q)) BY DEF InQueue
<1>3. ASSUME NEW w, InQueue(q, w), w # Head(q) PROVE InQueue(Tail(q), w)
  <2>1. PICK i \in 1..Len(q) : q[i] = w BY <1>3 DEF InQueue
  <2>2. i # 1 BY <1>3, <2>1
  <2>3. i - 1 \in 1..Len(Tail(q)) /\ Tail(q)[i - 1] = w BY <2>1, <2>2
  <2> QED BY <2>3 DEF InQueue
<1> QED BY <1>1, <1>2, <1>3

LEMMA QueueAppend ==
    ASSUME TypeInv, NEW u \in Uris, QueueReparse(u)
    PROVE  \A w \in Uris : InQueue(queue', w) <=> InQueue(queue, w) \/ w = u
  BY InAppend DEF TypeInv, TypeOK, StrandTypeOK, QueueReparse

LEMMA QueueTail ==
    ASSUME TypeInv, StartReparse
    PROVE  \A w \in Uris : InQueue(queue, w) <=> InQueue(queue', w) \/ w = Head(queue)
  BY InTail DEF TypeInv, TypeOK, StrandTypeOK, StartReparse

-----------------------------------------------------------------------------
(* index_lock.                                                             *)

LEMMA NextLockExclusion ==
    ASSUME TypeInv, LockExclusion, [Next]_vars
    PROVE  LockExclusion'
<1>1. writer = "strand" <=> job.pc \in Swapping BY DEF LockExclusion
<1>2. \/ UNCHANGED <<writer, job>>
      \/ StartReparse \/ Parse \/ LockIndex
      \/ MoveContext \/ MoveScript \/ MoveIndex \/ FinishReparse
  BY StrandFrame DEF TypeInv, lock, strandVars, QueueReparse, ResumeHandler
<1>3. writer' = "strand" <=> job'.pc \in Swapping
  <2> USE DEF Swapping, JobAt
  <2>1. CASE UNCHANGED <<writer, job>> BY <1>1, <2>1
  <2>2. CASE StartReparse BY <1>1, <2>2 DEF StartReparse
  <2>3. job \in [pc : {"idle", "parsing", "locking", "context", "script", "index",
                      "returning"}, uri : Uris \cup {NoUri}, text : Contents]
    BY DEF TypeInv, TypeOK, StrandTypeOK
  <2>4. CASE Parse \/ LockIndex \/ MoveContext \/ MoveScript \/ MoveIndex
    BY <1>1, <2>3, <2>4 DEF Parse, LockIndex, MoveContext, MoveScript, MoveIndex
  <2>5. CASE FinishReparse BY <1>1, <2>5 DEF FinishReparse, NoJob
  <2> QED BY <1>2, <2>1, <2>2, <2>4, <2>5
<1>4. ASSUME writer' = "strand" PROVE Readers' = {}
  <2>1. Readers = {} /\ (writer = "strand" \/ LockIndex)
    <3>1. writer = "strand" \/ LockIndex
      BY <1>2, <1>4 DEF StartReparse, Parse, MoveContext, MoveScript, MoveIndex,
                        FinishReparse
    <3> QED BY <3>1 DEF LockExclusion, LockIndex, CanLockExclusive
  <2>2. CASE UNCHANGED outVars BY <2>1, <2>2 DEF outVars, Readers
  <2>3. ASSUME NEW id \in 1..MaxMessages, NEW by \in {"loop", "handler"},
               SendNow(id) \/ SendLater(id, by)
        PROVE  Readers' = {}
    BY <2>1, <2>3 DEF SendNow, SendLater, Readers
  <2>4. CASE Shutdown
    <3>1. nread' \in 1..MaxMessages
      BY <2>4 DEF Shutdown, Read, TypeInv, TypeOK, MainTypeOK
    <3> QED BY <2>3, <2>4, <3>1 DEF Shutdown
  <2>5. CASE Lookup BY <2>1, <2>5 DEF Lookup, CanLockShared, LockIndex
  <2>6. CASE CompleteWrite \/ AbortWrite
    BY <2>1, <2>6 DEF CompleteWrite, AbortWrite, Readers
  <2> QED BY OutFrame, <2>2, <2>3, <2>4, <2>5, <2>6 DEF Send, TypeInv
<1> QED BY <1>3, <1>4 DEF LockExclusion

\* The exclusive lock of Reparse excludes every reader of the index, handlers
\* that wait for the pipe included (parse_manager.cpp:33, handlers.cpp:191-245).
THEOREM LockExcludes == Spec => []LockExclusion
<1>1. Init => LockExclusion
  BY DEF Init, LockExclusion, Readers, Swapping, NoJob
<1>2. Spec => [](TypeInv /\ LockExclusion)
  BY <1>1, InitTypeInv, NextTypeInv, NextLockExclusion, PTL DEF Spec
<1> QED BY <1>2, PTL

-----------------------------------------------------------------------------
(* No update is lost, and the index matches its document.                  *)

LEMMA InitSyncInv == Init => SyncInv
<1> SUFFICES ASSUME Init PROVE SyncInv OBVIOUS
<1>1. \A u \in Uris : ~Queued(u) /\ ~Writing(u)
  BY DEF Init, Queued, InQueue, Writing
<1>2. Known BY <1>1 DEF Init, Known, NoJob
<1>3. \A u \in Uris : Fresh(u)
  BY DEF Init, Fresh, Parsing, BeforeSwap, NoJob, Absent
<1>4. \A u \in Uris : Coherent(u) BY DEF Init, Coherent, NoJob, Absent
<1>5. Moved BY DEF Init, Moved, NoJob
<1>6. IndexMatchesDocument BY DEF Init, IndexMatchesDocument
<1> QED BY <1>2, <1>3, <1>4, <1>5, <1>6 DEF SyncInv

LEMMA OpenSyncInv ==
    ASSUME TypeInv, SyncInv,
           NEW u \in Uris, NEW v \in Versions, NEW t \in Texts, DidOpen(u, v, t)
    PROVE  SyncInv'
<1> USE DEF Queued, Writing, Parsing
<1>0. Known /\ Moved /\ IndexMatchesDocument /\ \A w \in Uris : Fresh(w) /\ Coherent(w)
  BY DEF SyncInv
<1>1. QueueReparse(u) /\ UNCHANGED <<pc, req, index, writer, job>>
  BY DEF DidOpen, QueueReparse
<1>2. documents \in [Uris -> Document] BY DEF TypeInv, TypeOK, DataTypeOK
<1>3. \A w \in Uris : documents[w].present => documents'[w] = documents[w]
  BY <1>2 DEF DidOpen
<1>4. documents'[u].present BY <1>2 DEF DidOpen, Absent
<1>5. \A w \in Uris : w # u => documents'[w] = documents[w]
  BY <1>2 DEF DidOpen
<1>6. ~documents[u].present =>
         documents'[u].context = NoText /\ documents'[u].script = NoText
  BY <1>2 DEF DidOpen, Absent
<1>7. \A w \in Uris : InQueue(queue', w) <=> InQueue(queue, w) \/ w = u
  BY <1>1, QueueAppend
<1>8. Known'
  BY <1>0, <1>1, <1>3, <1>4, <1>7 DEF Known, TypeInv, TypeOK, StrandTypeOK
<1>9. ASSUME NEW w \in Uris PROVE Fresh(w)'
  BY <1>0, <1>1, <1>5, <1>7 DEF Fresh
<1>10. ASSUME NEW w \in Uris PROVE Coherent(w)'
  <2>1. CASE documents[w].present BY <1>0, <1>1, <1>3, <2>1 DEF Coherent
  <2>2. CASE ~documents[w].present
    <3>1. ~(job.pc = "script" /\ job.uri = w) BY <1>0, <2>2 DEF Known
    <3> QED BY <1>0, <1>1, <1>5, <1>6, <2>2, <3>1 DEF Coherent
  <2> QED BY <2>1, <2>2
<1>11. Moved' BY <1>0, <1>1, <1>3 DEF Moved, Known, TypeInv, TypeOK, StrandTypeOK
<1>12. IndexMatchesDocument' BY <1>0, <1>1, <1>3 DEF IndexMatchesDocument, Known
<1> QED BY <1>8, <1>9, <1>10, <1>11, <1>12 DEF SyncInv

LEMMA ChangeSyncInv ==
    ASSUME TypeInv, SyncInv, FinishChange
    PROVE  SyncInv'
<1> DEFINE u == req.uri
<1> USE DEF Queued, Writing, Parsing
<1>0. Known /\ Moved /\ IndexMatchesDocument /\ \A w \in Uris : Fresh(w) /\ Coherent(w)
  BY DEF SyncInv
<1>1. /\ u \in Uris /\ pc = "writing" /\ pc' = "reading"
      /\ QueueReparse(u) /\ UNCHANGED <<index, writer, job>>
  BY DEF FinishChange, TypeInv, TypeOK, MainTypeOK, QueueReparse
<1>2. documents \in [Uris -> Document] BY DEF TypeInv, TypeOK, DataTypeOK
<1>3. \A w \in Uris : /\ documents'[w].present = documents[w].present
                     /\ documents'[w].context = documents[w].context
                     /\ documents'[w].script = documents[w].script
  BY <1>1, <1>2 DEF FinishChange, Document
<1>4. \A w \in Uris : w # u => documents'[w] = documents[w]
  BY <1>1, <1>2 DEF FinishChange
<1>5. \A w \in Uris : InQueue(queue', w) <=> InQueue(queue, w) \/ w = u
  BY <1>1, QueueAppend
<1>6. Known' BY <1>0, <1>1, <1>3, <1>5 DEF Known, TypeInv, TypeOK, StrandTypeOK
<1>7. ASSUME NEW w \in Uris PROVE Fresh(w)' BY <1>0, <1>1, <1>4, <1>5 DEF Fresh
<1>8. ASSUME NEW w \in Uris PROVE Coherent(w)' BY <1>0, <1>1, <1>3 DEF Coherent
<1>9. Moved' BY <1>0, <1>1, <1>3 DEF Moved, TypeInv, TypeOK, StrandTypeOK
<1>10. IndexMatchesDocument' BY <1>0, <1>1, <1>3 DEF IndexMatchesDocument
<1> QED BY <1>6, <1>7, <1>8, <1>9, <1>10 DEF SyncInv

LEMMA StartSyncInv ==
    ASSUME TypeInv, SyncInv, StartReparse
    PROVE  SyncInv'
<1> DEFINE u == Head(queue)
<1> USE DEF Queued, Writing, Parsing, BeforeSwap
<1>0. Known /\ Moved /\ IndexMatchesDocument /\ \A w \in Uris : Fresh(w) /\ Coherent(w)
  BY DEF SyncInv
<1>1. UNCHANGED <<pc, req, documents, index, writer>> BY DEF StartReparse, mainVars
<1>2. u \in Uris BY DEF TypeInv, TypeOK, StrandTypeOK, StartReparse
<1>3. PICK t \in CopiedTexts(u) : job' = [pc |-> "parsing", uri |-> u, text |-> t]
  BY DEF StartReparse
<1>4. job.pc = "idle" /\ job'.pc = "parsing" /\ job'.uri = u /\ job'.text = t
  BY <1>3 DEF StartReparse, JobAt
<1>5. ~Writing(u) => t = documents[u].text BY DEF CopiedTexts
<1>6. \A w \in Uris : InQueue(queue, w) <=> InQueue(queue', w) \/ w = u
  BY QueueTail
<1> HIDE DEF u
<1>7. Known' BY <1>0, <1>1, <1>2, <1>4, <1>6 DEF Known
<1>8. ASSUME NEW w \in Uris PROVE Fresh(w)'
  BY <1>0, <1>1, <1>4, <1>5, <1>6 DEF Fresh
<1>9. ASSUME NEW w \in Uris PROVE Coherent(w)' BY <1>0, <1>1, <1>4 DEF Coherent
<1>10. Moved' BY <1>4 DEF Moved
<1>11. IndexMatchesDocument' BY <1>0, <1>1 DEF IndexMatchesDocument
<1> QED BY <1>7, <1>8, <1>9, <1>10, <1>11 DEF SyncInv

\* The job alone: what holds of the documents and the queue is as it was.
LEMMA JobSyncInv ==
    ASSUME TypeInv, LockExclusion, SyncInv,
           \/ Parse \/ LockIndex \/ MoveContext \/ MoveScript \/ MoveIndex
           \/ FinishReparse
    PROVE  SyncInv'
<1> DEFINE u == job.uri
<1> USE DEF Queued, Writing, Parsing, BeforeSwap, JobAt
<1>0. Known /\ Moved /\ IndexMatchesDocument /\ \A w \in Uris : Fresh(w) /\ Coherent(w)
  BY DEF SyncInv
<1>1. /\ job \in [pc : {"idle", "parsing", "locking", "context", "script", "index",
                       "returning"}, uri : Uris \cup {NoUri}, text : Contents]
      /\ job.pc # "idle" => u \in Uris
      /\ documents \in [Uris -> Document]
  BY DEF TypeInv, TypeOK, StrandTypeOK, DataTypeOK
<1>2. UNCHANGED <<pc, req, queue>>
  BY DEF Parse, LockIndex, MoveContext, MoveScript, MoveIndex, FinishReparse, mainVars
<1>3. writer = "strand" <=> job.pc \in Swapping BY DEF LockExclusion
<1>4. CASE Parse \/ LockIndex
  <2>1. /\ UNCHANGED <<documents, index>>
        /\ job'.uri = u /\ job'.text = job.text
        /\ \/ job.pc = "parsing" /\ job'.pc = "locking" /\ writer' = writer
           \/ job.pc = "locking" /\ job'.pc = "context" /\ writer' = "strand"
    BY <1>1, <1>4 DEF Parse, LockIndex
  <2>2. Known' BY <1>0, <1>2, <2>1 DEF Known
  <2>3. ASSUME NEW w \in Uris PROVE Fresh(w)' BY <1>0, <1>2, <2>1 DEF Fresh
  <2>4. ASSUME NEW w \in Uris PROVE Coherent(w)' BY <1>0, <2>1 DEF Coherent
  <2>5. Moved' /\ IndexMatchesDocument'
    BY <1>0, <2>1 DEF Moved, IndexMatchesDocument
  <2> QED BY <2>2, <2>3, <2>4, <2>5 DEF SyncInv
<1>5. CASE MoveContext
  <2>1. /\ job.pc = "context" /\ job'.pc = "script" /\ u \in Uris
        /\ job'.uri = u /\ job'.text = job.text
        /\ UNCHANGED <<index, writer>>
    BY <1>1, <1>5 DEF MoveContext
  <2>2. \A w \in Uris : /\ documents'[w].present = documents[w].present
                       /\ documents'[w].text = documents[w].text
                       /\ documents'[w].script = documents[w].script
    BY <1>1, <1>5 DEF MoveContext, Document
  <2>3. \A w \in Uris : documents'[w].context =
                          IF w = u THEN job.text ELSE documents[w].context
    BY <1>1, <1>5, <2>1 DEF MoveContext, Document
  <2>4. Known' BY <1>0, <1>2, <2>1, <2>2 DEF Known
  <2>5. ASSUME NEW w \in Uris PROVE Fresh(w)' BY <1>0, <1>2, <2>1, <2>2 DEF Fresh
  <2>6. ASSUME NEW w \in Uris PROVE Coherent(w)'
    BY <1>0, <2>1, <2>2, <2>3 DEF Coherent
  <2>7. Moved' BY <2>1 DEF Moved
  <2>8. IndexMatchesDocument' BY <1>3, <2>1 DEF IndexMatchesDocument, Swapping
  <2> QED BY <2>4, <2>5, <2>6, <2>7, <2>8 DEF SyncInv
<1>6. CASE MoveScript
  <2>1. /\ job.pc = "script" /\ job'.pc = "index" /\ u \in Uris
        /\ job'.uri = u /\ job'.text = job.text
        /\ UNCHANGED <<index, writer>>
    BY <1>1, <1>6 DEF MoveScript
  <2>2. \A w \in Uris : /\ documents'[w].present = documents[w].present
                       /\ documents'[w].text = documents[w].text
                       /\ documents'[w].context = documents[w].context
    BY <1>1, <1>6 DEF MoveScript, Document
  <2>3. \A w \in Uris : documents'[w].script =
                          IF w = u THEN job.text ELSE documents[w].script
    BY <1>1, <1>6, <2>1 DEF MoveScript, Document
  <2>4. Known' BY <1>0, <1>2, <2>1, <2>2 DEF Known
  <2>5. ASSUME NEW w \in Uris PROVE Fresh(w)'
    BY <1>0, <1>2, <2>1, <2>2, <2>3 DEF Fresh
  <2>6. ASSUME NEW w \in Uris PROVE Coherent(w)'
    BY <1>0, <2>1, <2>2, <2>3 DEF Coherent
  <2>7. Moved' BY <2>1, <2>3 DEF Moved
  <2>8. IndexMatchesDocument' BY <1>3, <2>1 DEF IndexMatchesDocument, Swapping
  <2> QED BY <2>4, <2>5, <2>6, <2>7, <2>8 DEF SyncInv
<1>7. CASE MoveIndex
  <2>1. /\ job.pc = "index" /\ job'.pc = "returning" /\ u \in Uris
        /\ job'.uri = u /\ UNCHANGED documents
        /\ index'.uri = u /\ index'.text = job.text
    BY <1>1, <1>7 DEF MoveIndex
  <2>2. Known' BY <1>0, <1>2, <2>1 DEF Known
  <2>3. ASSUME NEW w \in Uris PROVE Fresh(w)' BY <1>0, <1>2, <2>1 DEF Fresh
  <2>4. ASSUME NEW w \in Uris PROVE Coherent(w)' BY <1>0, <2>1 DEF Coherent
  <2>5. Moved' BY <2>1 DEF Moved
  <2>6. IndexMatchesDocument'
    BY <1>0, <2>1 DEF IndexMatchesDocument, Coherent, Moved
  <2> QED BY <2>2, <2>3, <2>4, <2>5, <2>6 DEF SyncInv
<1>8. CASE FinishReparse
  <2>1. /\ job.pc = "returning" /\ job'.pc = "idle"
        /\ UNCHANGED <<documents, writer>>
        /\ index'.uri = index.uri /\ index'.text = index.text
    BY <1>8 DEF FinishReparse, NoJob, TypeInv, TypeOK, DataTypeOK
  <2>2. Known' BY <1>0, <1>2, <2>1 DEF Known
  <2>3. ASSUME NEW w \in Uris PROVE Fresh(w)' BY <1>0, <1>2, <2>1 DEF Fresh
  <2>4. ASSUME NEW w \in Uris PROVE Coherent(w)' BY <1>0, <2>1 DEF Coherent
  <2>5. Moved' BY <2>1 DEF Moved
  <2>6. IndexMatchesDocument' BY <1>0, <2>1 DEF IndexMatchesDocument
  <2> QED BY <2>2, <2>3, <2>4, <2>5, <2>6 DEF SyncInv
<1> QED BY <1>4, <1>5, <1>6, <1>7, <1>8

LEMMA NextSyncInv ==
    ASSUME TypeInv, LockExclusion, SyncInv, [Next]_vars
    PROVE  SyncInv'
<1> USE DEF Queued, Parsing
<1>0. Known /\ Moved /\ IndexMatchesDocument /\ \A w \in Uris : Fresh(w) /\ Coherent(w)
  BY DEF SyncInv
<1>1. CASE /\ UNCHANGED <<documents, index, writer, queue, job>>
           /\ \A u \in Uris : Writing(u)' => Writing(u)
           /\ \A u \in Uris : Writing(u) => Writing(u)'
  <2> USE DEF Writing
  <2>1. Known' BY <1>0, <1>1 DEF Known
  <2>2. ASSUME NEW w \in Uris PROVE Fresh(w)' BY <1>0, <1>1 DEF Fresh
  <2>3. ASSUME NEW w \in Uris PROVE Coherent(w)' BY <1>0, <1>1 DEF Coherent
  <2>4. Moved' /\ IndexMatchesDocument' BY <1>0, <1>1 DEF Moved, IndexMatchesDocument
  <2> QED BY <2>1, <2>2, <2>3, <2>4 DEF SyncInv
<1>2. ASSUME NEW u \in Uris, NEW v \in Versions, NEW t \in Texts,
             NEW changes \in 1..MaxChanges, DidChange(u, v, t, changes)
      PROVE  SyncInv'
  <2> USE DEF Writing
  <2>1. /\ UNCHANGED <<documents, index, writer, queue, job>>
        /\ documents[u].present /\ pc = "reading" /\ pc' = "writing" /\ req'.uri = u
    BY <1>2 DEF DidChange, Accepts, Read, strandVars
  <2>2. Known' BY <1>0, <2>1 DEF Known
  <2>3. ASSUME NEW w \in Uris PROVE Fresh(w)' BY <1>0, <2>1 DEF Fresh
  <2>4. ASSUME NEW w \in Uris PROVE Coherent(w)' BY <1>0, <2>1 DEF Coherent
  <2>5. Moved' /\ IndexMatchesDocument' BY <1>0, <2>1 DEF Moved, IndexMatchesDocument
  <2> QED BY <2>2, <2>3, <2>4, <2>5 DEF SyncInv
<1>3. CASE FinishClose
  <2> USE DEF Writing
  <2>1. /\ UNCHANGED <<index, writer, queue, job>> /\ pc # "writing" /\ pc' # "writing"
    BY <1>3 DEF FinishClose, strandVars
  <2>2. \A w \in Uris : /\ documents'[w].present = documents[w].present
                       /\ documents'[w].text = documents[w].text
                       /\ documents'[w].context = documents[w].context
                       /\ documents'[w].script = documents[w].script
    BY <1>3 DEF FinishClose, TypeInv, TypeOK, DataTypeOK, Document
  <2>3. job.pc # "idle" => job.uri \in Uris BY DEF TypeInv, TypeOK, StrandTypeOK
  <2>4. Known' BY <1>0, <2>1, <2>2, <2>3 DEF Known
  <2>5. ASSUME NEW w \in Uris PROVE Fresh(w)' BY <1>0, <2>1, <2>2 DEF Fresh
  <2>6. ASSUME NEW w \in Uris PROVE Coherent(w)' BY <1>0, <2>1, <2>2 DEF Coherent
  <2>7. Moved' /\ IndexMatchesDocument'
    BY <1>0, <2>1, <2>2, <2>3 DEF Moved, IndexMatchesDocument
  <2> QED BY <2>4, <2>5, <2>6, <2>7 DEF SyncInv
<1> QED
  BY SyncFrame, OpenSyncInv, ChangeSyncInv, StartSyncInv, JobSyncInv, <1>1, <1>2, <1>3

SafeInv == TypeInv /\ LockExclusion /\ SyncInv

LEMMA SafeInvariant == Spec => []SafeInv
<1>1. Init => LockExclusion
  BY DEF Init, LockExclusion, Readers, Swapping, NoJob
<1>2. Init => SafeInv BY <1>1, InitTypeInv, InitSyncInv DEF SafeInv
<1>3. SafeInv /\ [Next]_vars => SafeInv'
  BY NextTypeInv, NextLockExclusion, NextSyncInv DEF SafeInv
<1> QED BY <1>2, <1>3, PTL DEF Spec

\* No update is lost (handlers.cpp:117-126, parse_manager.cpp:10-40), however the
\* main thread and the strand interleave and whatever their race on item.text
\* makes the strand read.
THEOREM UpdatesArrive == Spec => []NoLostUpdate
<1>1. SafeInv => NoLostUpdate
  BY DEF SafeInv, SyncInv, Fresh, NoLostUpdate, Parsing, BeforeSwap
<1> QED BY <1>1, SafeInvariant, PTL

\* A published index is of the parse its document holds (parse_manager.cpp:33-37).
THEOREM IndexMatches == Spec => []IndexMatchesDocument
<1>1. SafeInv => IndexMatchesDocument BY DEF SafeInv, SyncInv
<1> QED BY <1>1, SafeInvariant, PTL

-----------------------------------------------------------------------------
(* Lookups, shutdown and the end of the process.                           *)

\* The process ends by Destroy or by a crash; a process that ended stays so.
LEMMA LifeFrame ==
    ASSUME [Next]_vars
    PROVE  \/ UNCHANGED vars
           \/ life = "running" /\ life' = "running"
           \/ Destroy
           \/ life = "running" /\ Crash
<1>1. CASE Dispatch
  <2>1. CASE Initialize \/ Other \/ Shutdown \/ Exit
    BY <2>1 DEF Initialize, Other, Shutdown, Exit, Read
  <2>2. ASSUME NEW u \in Uris, NEW v \in Versions, NEW t \in Texts,
               \/ DidOpen(u, v, t)
               \/ \E changes \in 1..MaxChanges :
                     DidChange(u, v, t, changes) \/ IgnoreChange(u, v, changes)
        PROVE  life = "running" /\ life' = "running"
    BY <2>2 DEF DidOpen, DidChange, IgnoreChange, Read
  <2>3. ASSUME NEW u \in Uris,
               DidClose(u) \/ Request("references", u) \/ Request("definition", u)
        PROVE  life = "running" /\ life' = "running"
    BY <2>3 DEF DidClose, Request, Read
  <2> QED BY <1>1, <2>1, <2>2, <2>3 DEF Dispatch
<1>2. CASE MainStep
  BY <1>2 DEF MainStep, FinishChange, FinishClose, CursorUnknown, CursorMiss,
              CursorHit, Lookup, LookupCrash, AbortWrite, ResumeHandler, InEventLoop
<1>3. CASE CompleteWrite BY <1>3 DEF CompleteWrite, InEventLoop
<1>4. CASE StrandStep
  BY <1>4 DEF StrandStep, StartReparse, StartCrash, Parse, LockIndex, MoveContext,
              MoveScript, MoveIndex, FinishReparse, JobAt
<1>5. CASE Finished BY <1>5 DEF Finished
<1> QED BY <1>1, <1>2, <1>3, <1>4, <1>5 DEF Next, Internal

NoneAwaits == life = "stopped" => awaiting = 0

\* The interpreter outlives the parses that use it (server.hpp:78-91): ctx.run()
\* does not return while a handler awaits a Reparse.
THEOREM InterpreterOutlives == Spec => []InterpreterOutlivesParses
<1>1. Init => NoneAwaits BY DEF Init, NoneAwaits
<1>2. NoneAwaits /\ [Next]_vars => NoneAwaits'
  BY LifeFrame DEF NoneAwaits, Destroy, Crash, vars, strandVars
<1>3. SafeInv /\ NoneAwaits => InterpreterOutlivesParses
  <2> SUFFICES ASSUME SafeInv, NoneAwaits, life = "stopped"
               PROVE  job.pc = "idle" /\ queue = <<>>
    BY DEF InterpreterOutlivesParses
  <2>1. Len(queue) + Running + done = 0 /\ queue \in Seq(Uris) /\ done \in Nat
    BY DEF SafeInv, TypeInv, AwaitingCounts, NoneAwaits, TypeOK, StrandTypeOK
  <2>2. Len(queue) = 0 /\ Running = 0 BY <2>1 DEF Running
  <2> QED BY <2>1, <2>2 DEF Running
<1> QED BY <1>1, <1>2, <1>3, SafeInvariant, PTL DEF Spec

\* A cursor is never taken from a half replaced document (parse_manager.cpp:34-35,
\* 46-50): GetCursor holds the lock shared, and the two moves are under it.
THEOREM CursorsAreWhole == Spec => []NoTornCursor
<1>1. Init => NoTornCursor BY DEF Init, NoTornCursor
<1>2. ASSUME SafeInv, NoTornCursor, [Next]_vars PROVE NoTornCursor'
  <2>1. CASE CursorHit
    <3>1. job.pc # "script"
      BY <1>2, <2>1 DEF SafeInv, LockExclusion, CursorHit, CanLockShared, Swapping
    <3>2. req.uri \in Uris BY <1>2, <2>1 DEF CursorHit, SafeInv, TypeInv, TypeOK, MainTypeOK
    <3> QED BY <1>2, <2>1, <3>1, <3>2 DEF SafeInv, SyncInv, Coherent, CursorHit, NoTornCursor
  <2>2. CASE MoveScript \/ Lookup
    BY <1>2, <2>2 DEF MoveScript, Lookup, NoTornCursor
  <2>3. CASE UNCHANGED cursor BY <1>2, <2>3 DEF NoTornCursor
  <2>4. UNCHANGED cursor \/ CursorHit \/ MoveScript \/ Lookup
    <3> USE DEF mainVars
    <3>1. CASE UNCHANGED vars BY <3>1 DEF vars
    <3>2. CASE Dispatch
      BY <3>2 DEF Dispatch, Initialize, Other, Shutdown, Exit, DidOpen, DidChange,
                  IgnoreChange, DidClose, Request
    <3>3. CASE MainStep
      BY <3>3 DEF MainStep, FinishChange, FinishClose, CursorUnknown, CursorMiss,
                  LookupCrash, Crash, AbortWrite, ResumeHandler, Destroy
    <3>4. CASE CompleteWrite BY <3>4 DEF CompleteWrite
    <3>5. CASE StrandStep
      BY <3>5 DEF StrandStep, StartReparse, StartCrash, Crash, Parse, LockIndex,
                  MoveContext, MoveIndex, FinishReparse
    <3>6. CASE Finished BY <3>6 DEF Finished, vars
    <3> QED BY <1>2, <3>1, <3>2, <3>3, <3>4, <3>5, <3>6 DEF Next, Internal
  <2> QED BY <2>1, <2>2, <2>3, <2>4
<1> QED BY <1>1, <1>2, SafeInvariant, PTL DEF Spec

\* A document that was never opened has an empty script.
Unparsed == \A u \in Uris : ~documents[u].present => documents[u].script = NoText

LEMMA NextUnparsed ==
    ASSUME SafeInv, Unparsed, [Next]_vars
    PROVE  Unparsed'
<1>1. documents \in [Uris -> Document] /\ (job.pc # "idle" => job.uri \in Uris)
  BY DEF SafeInv, TypeInv, TypeOK, DataTypeOK, StrandTypeOK
<1>2. CASE UNCHANGED <<documents, index>> BY <1>2 DEF Unparsed
<1>3. ASSUME NEW u \in Uris, NEW v \in Versions, NEW t \in Texts, DidOpen(u, v, t)
      PROVE  Unparsed'
  BY <1>1, <1>3 DEF DidOpen, Absent, Unparsed
<1>4. CASE FinishChange BY <1>1, <1>4 DEF FinishChange, Unparsed, Document
<1>5. CASE FinishClose BY <1>1, <1>5 DEF FinishClose, Unparsed, Document
<1>6. CASE MoveContext BY <1>1, <1>6 DEF MoveContext, Unparsed, Document
<1>7. CASE MoveScript
  <2>1. documents[job.uri].present
    BY <1>7 DEF MoveScript, JobAt, SafeInv, SyncInv, Known
  <2> QED BY <1>1, <1>7, <2>1 DEF MoveScript, Unparsed, Document
<1>8. CASE MoveIndex \/ FinishReparse BY <1>8 DEF MoveIndex, FinishReparse, Unparsed
<1> QED BY DataFrame, <1>2, <1>3, <1>4, <1>5, <1>6, <1>7, <1>8

LEMMA UnparsedInvariant == Spec => []Unparsed
<1>1. Init => Unparsed BY DEF Init, Unparsed, Absent
<1> QED BY <1>1, NextUnparsed, SafeInvariant, PTL DEF Spec

\* The parse of a document is replaced only by the holder of the exclusive lock,
\* with no reader left (parse_manager.cpp:33-35).
THEOREM ParsesReplacedUnderLock == Spec => ParseReplacedUnderLock
<1>1. ASSUME SafeInv, Unparsed, [Next]_vars, NEW u \in Uris,
             documents'[u].script # documents[u].script
      PROVE  writer = "strand" /\ Readers = {}
  <2>1. documents \in [Uris -> Document]
    BY <1>1 DEF SafeInv, TypeInv, TypeOK, DataTypeOK
  <2>2. CASE UNCHANGED <<documents, index>> BY <1>1, <2>2
  <2>3. ASSUME NEW w \in Uris, NEW v \in Versions, NEW t \in Texts, DidOpen(w, v, t)
        PROVE  FALSE
    <3>1. u = w /\ ~documents[w].present /\ documents'[w].script = NoText
      BY <1>1, <2>1, <2>3 DEF DidOpen, Absent
    <3> QED BY <1>1, <3>1 DEF Unparsed
  <2>4. CASE FinishChange \/ FinishClose
    BY <1>1, <2>1, <2>4 DEF FinishChange, FinishClose, Document
  <2>5. CASE MoveContext BY <1>1, <2>1, <2>5 DEF MoveContext, Document
  <2>6. CASE MoveScript
    BY <1>1, <2>6 DEF MoveScript, JobAt, SafeInv, LockExclusion, Swapping
  <2>7. CASE MoveIndex \/ FinishReparse
    BY <1>1, <2>7 DEF MoveIndex, FinishReparse
  <2> QED BY <1>1, DataFrame, <2>2, <2>3, <2>4, <2>5, <2>6, <2>7
<1>2. SafeInv /\ Unparsed /\ [Next]_vars =>
         \A u \in Uris : documents'[u].script # documents[u].script =>
             writer = "strand" /\ Readers = {}
  BY <1>1
<1> QED BY <1>2, SafeInvariant, UnparsedInvariant, PTL DEF Spec, ParseReplacedUnderLock

-----------------------------------------------------------------------------
(* LanguageServer implements DocumentSync.                                 *)

LEMMA InitSync == Init => Sync!Init
<1> SUFFICES ASSUME Init PROVE Sync!Init OBVIOUS
<1>1. Stale = {}
  BY DEF Init, Stale, Writing, Queued, InQueue, Parsing, BeforeSwap, NoJob
<1>2. \A u \in Uris : documents[u].text = NoText /\ documents[u].script = NoText
  BY DEF Init, Absent
<1> QED BY <1>1, <1>2 DEF Sync!Init, Init

\* What a step changes in DocumentSync's view of it.
SameTexts == \A u \in Uris : documents'[u].text = documents[u].text
SameScripts == \A u \in Uris : documents'[u].script = documents[u].script

LEMMA SyncStutter ==
    ASSUME SameTexts, SameScripts, Stale' = Stale,
           (life' # "crashed") = (life # "crashed")
    PROVE  UNCHANGED Sync!vars
  BY DEF Sync!vars, SameTexts, SameScripts

LEMMA SyncEdit ==
    ASSUME NEW u \in Uris, NEW t \in Contents,
           \A w \in Uris : documents'[w].text = IF w = u THEN t ELSE documents[w].text,
           SameScripts, Stale' = Stale \cup {u},
           life # "crashed", life' # "crashed"
    PROVE  Sync!Next
<1>1. Sync!Edit(u, t) BY DEF Sync!Edit, SameScripts
<1> QED BY <1>1 DEF Sync!Next

LEMMA SyncPublish ==
    ASSUME NEW u \in Stale, NEW t \in Contents, SameTexts,
           \A w \in Uris : documents'[w].script = IF w = u THEN t ELSE documents[w].script,
           \/ Stale' = Stale
           \/ Stale' = Stale \ {u} /\ t = documents[u].text,
           life # "crashed", life' # "crashed"
    PROVE  Sync!Next
<1>1. u \in Uris BY DEF Stale
<1>2. CASE Stale' = Stale
  <2>1. Sync!PublishOutdated(u, t) BY <1>1, <1>2 DEF Sync!PublishOutdated, SameTexts
  <2> QED BY <1>1, <2>1 DEF Sync!Next
<1>3. CASE Stale' = Stale \ {u} /\ t = documents[u].text
  <2>1. Sync!Publish(u) BY <1>1, <1>3 DEF Sync!Publish, SameTexts
  <2> QED BY <1>1, <2>1 DEF Sync!Next
<1> QED BY <1>2, <1>3

LEMMA SyncFail ==
    ASSUME SameTexts, SameScripts, Stale' = Stale, life' = "crashed"
    PROVE  Sync!Next
<1>1. Sync!Fail BY DEF Sync!Fail, SameTexts, SameScripts
<1> QED BY <1>1 DEF Sync!Next

\* Every step of the server is a step of DocumentSync, or none.
LEMMA NextSync ==
    ASSUME SafeInv, Unparsed, [Next]_vars
    PROVE  [Sync!Next]_(Sync!vars)
<1> USE DEF Queued, Writing, Parsing, BeforeSwap, SameTexts, SameScripts
<1>0. /\ documents \in [Uris -> Document]
      /\ job \in [pc : {"idle", "parsing", "locking", "context", "script", "index",
                       "returning"}, uri : Uris \cup {NoUri}, text : Contents]
      /\ job.pc # "idle" => job.uri \in Uris
      /\ TypeInv
  BY DEF SafeInv, TypeInv, TypeOK, StrandTypeOK, DataTypeOK
<1>1. CASE UNCHANGED vars
  BY <1>1, SyncStutter DEF vars, mainVars, strandVars, Stale
<1>2. CASE Destroy
  BY <1>2, SyncStutter DEF Destroy, mainVars, strandVars, Stale
<1>3. CASE life = "running" /\ Crash
  BY <1>3, SyncFail DEF Crash, mainVars, strandVars, Stale
<1>4. CASE life = "running" /\ life' = "running"
  <2>1. CASE /\ UNCHANGED <<documents, index, writer, queue, job>>
             /\ \A u \in Uris : Writing(u)' => Writing(u)
             /\ \A u \in Uris : Writing(u) => Writing(u)'
    <3>1. Stale' = Stale BY <2>1 DEF Stale
    <3> QED BY <1>4, <2>1, <3>1, SyncStutter
  <2>2. ASSUME NEW u \in Uris, NEW v \in Versions, NEW t \in Texts, DidOpen(u, v, t)
        PROVE  Sync!Next
    <3>1. QueueReparse(u) /\ UNCHANGED <<pc, req, job>> BY <2>2 DEF DidOpen, QueueReparse
    <3>2. \A w \in Uris : InQueue(queue', w) <=> InQueue(queue, w) \/ w = u
      BY <1>0, <3>1, QueueAppend
    <3>3. Stale' = Stale \cup {u} BY <3>1, <3>2 DEF Stale
    <3>4. ~documents[u].present => documents[u].script = NoText
      BY DEF Unparsed
    <3> DEFINE x == documents'[u].text
    <3>5. x \in Contents BY <1>0, <2>2 DEF DidOpen, Absent, Document, Contents
    <3>6. \A w \in Uris : documents'[w].text = IF w = u THEN x ELSE documents[w].text
      BY <1>0, <2>2 DEF DidOpen
    <3>7. SameScripts BY <1>0, <2>2, <3>4 DEF DidOpen, Absent
    <3> HIDE DEF x
    <3> QED BY <1>4, <3>3, <3>5, <3>6, <3>7, SyncEdit
  <2>3. ASSUME NEW u \in Uris, NEW v \in Versions, NEW t \in Texts,
               NEW changes \in 1..MaxChanges, DidChange(u, v, t, changes)
        PROVE  Sync!Next
    <3>1. /\ UNCHANGED <<documents, queue, job>>
          /\ pc = "reading" /\ pc' = "writing" /\ req'.uri = u
      BY <2>3 DEF DidChange, Read, strandVars
    <3>2. Stale' = Stale \cup {u} BY <3>1 DEF Stale
    <3>3. documents[u].text \in Contents BY <1>0 DEF Document
    <3> QED BY <1>4, <3>1, <3>2, <3>3, SyncEdit
  <2>4. CASE FinishChange
    <3> DEFINE u == req.uri
    <3>1. /\ u \in Uris /\ req.text \in Contents
          /\ pc = "writing" /\ pc' = "reading" /\ QueueReparse(u) /\ UNCHANGED job
      BY <1>0, <2>4 DEF FinishChange, QueueReparse, TypeInv, TypeOK, MainTypeOK,
                        Message, Contents
    <3>2. \A w \in Uris : InQueue(queue', w) <=> InQueue(queue, w) \/ w = u
      BY <1>0, <3>1, QueueAppend
    <3>3. Stale' = Stale \cup {u} BY <3>1, <3>2 DEF Stale
    <3>4. \A w \in Uris :
             /\ documents'[w].text = IF w = u THEN req.text ELSE documents[w].text
             /\ documents'[w].script = documents[w].script
      BY <1>0, <2>4, <3>1 DEF FinishChange, Document
    <3> HIDE DEF u
    <3> QED BY <1>4, <3>1, <3>3, <3>4, SyncEdit
  <2>5. CASE FinishClose
    <3>1. UNCHANGED <<queue, job>> /\ pc # "writing" /\ pc' # "writing"
      BY <2>5 DEF FinishClose, strandVars
    <3>2. SameTexts /\ SameScripts BY <1>0, <2>5 DEF FinishClose, Document
    <3>3. Stale' = Stale BY <3>1 DEF Stale
    <3> QED BY <1>4, <3>2, <3>3, SyncStutter
  <2>6. CASE StartReparse
    <3>1. /\ UNCHANGED <<pc, req, documents>> /\ job.pc = "idle"
          /\ job'.pc = "parsing" /\ job'.uri = Head(queue)
      BY <2>6 DEF StartReparse, JobAt, mainVars
    <3>2. \A w \in Uris : InQueue(queue, w) <=> InQueue(queue', w) \/ w = Head(queue)
      BY <1>0, <2>6, QueueTail
    <3>3. Stale' = Stale BY <3>1, <3>2 DEF Stale
    <3> QED BY <1>4, <3>1, <3>3, SyncStutter
  <2>7. CASE Parse \/ LockIndex
    <3>1. /\ UNCHANGED <<pc, req, documents, queue>> /\ job'.uri = job.uri
          /\ job.pc \in BeforeSwap /\ job'.pc \in BeforeSwap
      BY <1>0, <2>7 DEF Parse, LockIndex, JobAt, mainVars
    <3>2. Stale' = Stale BY <3>1 DEF Stale
    <3> QED BY <1>4, <3>1, <3>2, SyncStutter
  <2>8. CASE MoveContext
    <3>1. /\ UNCHANGED <<pc, req, queue>> /\ job'.uri = job.uri
          /\ job.pc \in BeforeSwap /\ job'.pc \in BeforeSwap
      BY <1>0, <2>8 DEF MoveContext, JobAt, mainVars
    <3>2. Stale' = Stale BY <3>1 DEF Stale
    <3>3. SameTexts /\ SameScripts BY <1>0, <2>8 DEF MoveContext, Document
    <3> QED BY <1>4, <3>2, <3>3, SyncStutter
  <2>9. CASE MoveScript
    <3> DEFINE u == job.uri
    <3>1. /\ UNCHANGED <<pc, req, queue>> /\ u \in Uris /\ job.text \in Contents
          /\ job.pc = "script" /\ job'.pc = "index" /\ job'.uri = u
      BY <1>0, <2>9 DEF MoveScript, JobAt
    <3>2. \A w \in Uris :
             /\ documents'[w].script = IF w = u THEN job.text ELSE documents[w].script
             /\ documents'[w].text = documents[w].text
      BY <1>0, <2>9, <3>1 DEF MoveScript, Document
    <3>3. u \in Stale BY <3>1 DEF Stale
    <3>4. CASE Writing(u) \/ Queued(u)
      <4>1. Stale' = Stale BY <3>1, <3>4 DEF Stale
      <4> QED BY <1>4, <3>1, <3>2, <3>3, <4>1, SyncPublish
    <3>5. CASE ~Writing(u) /\ ~Queued(u)
      <4>1. Stale' = Stale \ {u} BY <3>1, <3>5 DEF Stale
      <4>2. job.text = documents[u].text
        BY <3>1, <3>5 DEF SafeInv, SyncInv, Fresh
      <4> QED BY <1>4, <3>1, <3>2, <3>3, <4>1, <4>2, SyncPublish
    <3> QED BY <3>4, <3>5
  <2>10. CASE MoveIndex \/ FinishReparse
    <3>1. /\ UNCHANGED <<pc, req, documents, queue>>
          /\ job.pc \notin BeforeSwap /\ job'.pc \notin BeforeSwap
      BY <1>0, <2>10 DEF MoveIndex, FinishReparse, JobAt, mainVars, NoJob
    <3>2. Stale' = Stale BY <3>1 DEF Stale
    <3> QED BY <1>4, <3>1, <3>2, SyncStutter
  <2> QED
    BY SyncFrame, <2>1, <2>2, <2>3, <2>4, <2>5, <2>6, <2>7, <2>8, <2>9, <2>10
<1> QED BY LifeFrame, <1>1, <1>2, <1>3, <1>4

\* The server implements DocumentSync but for its fairness (handlers.cpp:71-128,
\* parse_manager.cpp:10-40): each publication is of the current text or is
\* followed by another.
THEOREM ImplementsDocumentSync == Spec => Sync!SafeSpec
<1>1. SafeInv /\ Unparsed /\ [Next]_vars => [Sync!Next]_(Sync!vars) BY NextSync
<1> QED BY <1>1, InitSync, SafeInvariant, UnparsedInvariant, PTL DEF Spec, Sync!SafeSpec

-----------------------------------------------------------------------------
(* The reply to shutdown.                                                  *)

\* The dispatch loop waits for one write at most.
OneLoopWrite ==
    \A one, other \in sending : one.by = "loop" /\ other.by = "loop" => one = other

LEMMA NextLoopWrite ==
    ASSUME TypeInv, ShutdownAnswered, OneLoopWrite, [Next]_vars
    PROVE  ShutdownAnswered' /\ OneLoopWrite'
<1> USE DEF ShutdownAnswered, OneLoopWrite
<1>1. \/ pc = "shutdown" => pc' = "shutdown"
      \/ CompleteWrite
  <2>1. CASE UNCHANGED vars BY <2>1 DEF vars, mainVars
  <2>2. CASE Dispatch
    BY <2>2 DEF Dispatch, Initialize, Other, Shutdown, Exit, DidOpen, DidChange,
                IgnoreChange, DidClose, Request, Read
  <2>3. CASE MainStep
    BY <2>3 DEF MainStep, FinishChange, FinishClose, CursorUnknown, CursorMiss,
                CursorHit, Lookup, LookupCrash, Crash, AbortWrite, ResumeHandler,
                Destroy, mainVars
  <2>4. CASE StrandStep
    BY <2>4 DEF StrandStep, StartReparse, StartCrash, Crash, Parse, LockIndex,
                MoveContext, MoveScript, MoveIndex, FinishReparse, mainVars
  <2>5. CASE Finished BY <2>5 DEF Finished, vars, mainVars
  <2> QED BY <2>1, <2>2, <2>3, <2>4, <2>5 DEF Next, Internal
<1>2. CASE UNCHANGED outVars /\ (pc = "shutdown" => pc' = "shutdown")
  BY <1>2 DEF outVars
<1>3. ASSUME NEW id \in 1..MaxMessages, NEW by \in {"handler", "reader"}, Send(id, by),
             pc = "shutdown" => pc' = "shutdown"
      PROVE  ShutdownAnswered' /\ OneLoopWrite'
  <2>1. CASE SendNow(id) BY <1>3, <2>1 DEF SendNow
  <2>2. CASE SendLater(id, by) BY <1>3, <2>2 DEF SendLater
  <2> QED BY <1>3, <2>1, <2>2 DEF Send
<1>4. CASE Shutdown
  <2>1. pc = "reading" BY <1>4 DEF Shutdown, Read
  <2>2. \A write \in sending : write.by # "loop" BY <2>1
  <2>3. CASE SendNow(nread') BY <1>4, <2>2, <2>3 DEF SendNow
  <2>4. CASE SendLater(nread', "loop") /\ pc' = "shutdown"
    BY <2>2, <2>4 DEF SendLater
  <2> QED BY <1>4, <2>3, <2>4 DEF Shutdown
<1>5. CASE CompleteWrite \/ AbortWrite
  <2>1. PICK write \in sending : /\ sending' = sending \ {write}
                                 /\ write.by # "loop" => pc' = pc
    BY <1>5 DEF CompleteWrite, AbortWrite, mainVars
  <2> QED BY <2>1
<1> QED BY <1>1, OutFrame, <1>2, <1>3, <1>4, <1>5 DEF TypeInv, Lookup

\* "We do wait for the reply to be sent sync here" (server.cpp:108).
THEOREM ShutdownIsAnswered == Spec => []ShutdownAnswered
<1>1. Init => ShutdownAnswered /\ OneLoopWrite
  BY DEF Init, ShutdownAnswered, OneLoopWrite
<1> QED BY <1>1, NextLoopWrite, InitTypeInv, NextTypeInv, PTL DEF Spec
=============================================================================
