--------------------------- MODULE LanguageServer ---------------------------
(***************************************************************************)
(* The language server process: the dispatch loop and the message handlers *)
(* on the main thread, the Reparse jobs on the background strand, and what *)
(* they share, which is the documents, the index, its shared_mutex and the *)
(* output descriptor.                                                      *)
(*                                                                         *)
(* The main thread runs one coroutine segment at a time.  A segment is cut *)
(* into several actions only where it can block on index_lock or where the *)
(* strand can observe it half done.  `pc' says where the main thread is:   *)
(*    "reading"   the dispatch loop awaits the next message                *)
(*    "writing"   didChange is assigning document.item.text                *)
(*    "closing"   didClose is about to lock index_lock                     *)
(*    "cursor"    a request is about to lock index_lock for GetCursor      *)
(*    "lookup"    it has its cursor and is about to lock index_lock again  *)
(*    "shutdown"  the dispatch loop awaits the reply to shutdown           *)
(*    "ended"     the dispatch loop has returned                           *)
(*                                                                         *)
(* Undefined behaviour of the code is a choice over its outcomes: an       *)
(* arbitrary value (Torn), or the end of the process (life = "crashed").   *)
(***************************************************************************)
EXTENDS Naturals, Sequences, FiniteSets

CONSTANTS
    Uris,           \* document names the client uses
    Texts,          \* document contents the client sends
    NoText,         \* the contents a default-constructed script was parsed from
    Torn,           \* what a racing read of a string can return
    MaxVersion,     \* bound: versions are 1..MaxVersion
    MaxMessages,    \* bound: messages the server reads
    MaxChanges,     \* bound: content changes in one didChange
    Methods,        \* the methods the client uses
    PipeStalls,     \* the client may stop draining our stdout for a while
    WriterPriority  \* a waiting writer of index_lock keeps new readers out

AllMethods == {"initialize", "other", "shutdown", "exit", "didOpen",
               "didChange", "didClose", "references", "definition"}

ASSUME ContentsAssumption == /\ NoText \notin Texts
                             /\ Torn \notin Texts
                             /\ Torn # NoText
ASSUME BoundsAssumption == /\ MaxVersion \in Nat
                           /\ MaxMessages \in Nat
                           /\ MaxChanges \in Nat
ASSUME MethodsAssumption == Methods \subseteq AllMethods
ASSUME PolicyAssumption == PipeStalls \in BOOLEAN /\ WriterPriority \in BOOLEAN

VARIABLES
    life,       \* "running", "stopped" (destroyed) or "crashed"
    pc,         \* what the main thread is doing
    req,        \* the message being handled by the main thread
    nread,      \* messages read so far; the id of a request is its number
    cursor,     \* where the pointers GetCursor returned point to
    documents,  \* server.documents
    index,      \* server.index: what it was built from, and whose file names
    writer,     \* who holds index_lock exclusively
    queue,      \* Reparse jobs waiting in the index_queue strand
    job,        \* the Reparse job the strand is running
    awaiting,   \* handlers suspended in co_await co_spawn(index_queue, ...)
    done,       \* Reparse completions posted to the main thread
    sending,    \* the writes that wait for the pipe, each with who awaits it
    replied     \* the ids of the answered requests

mainVars == <<pc, req, nread, cursor>>
strandVars == <<queue, job, awaiting, done>>
outVars == <<sending, replied>>
vars == <<life, mainVars, documents, index, writer, strandVars, outVars>>

Versions == 1..MaxVersion
Contents == Texts \cup {NoText, Torn}
NoUri == "none"
ASSUME UriAssumption == NoUri \notin Uris

NoRequest == [method |-> "none", uri |-> NoUri, version |-> 0, text |-> NoText]
NoJob == [pc |-> "idle", uri |-> NoUri, text |-> NoText]
Absent == [present |-> FALSE, state |-> "OPEN", version |-> 0,
           text |-> NoText, context |-> NoText, script |-> NoText]

Init ==
    /\ life = "running"
    /\ pc = "reading"
    /\ req = NoRequest
    /\ nread = 0
    /\ cursor = "none"
    /\ documents = [u \in Uris |-> Absent]
    /\ index = [uri |-> NoUri, text |-> NoText, file |-> "none"]
    /\ writer = "none"
    /\ queue = <<>>
    /\ job = NoJob
    /\ awaiting = 0
    /\ done = 0
    /\ sending = {}
    /\ replied = {}

-----------------------------------------------------------------------------
(* index_lock, a std::shared_mutex.  A handler suspended in the write of    *)
(* an answer (a "reader") owns its shared lock until the write completes.   *)

Readers == {write \in sending : write.by = "reader"}

WriterWaiting == job.pc = "locking"

\* Mutant: GetCursor and the handlers read without the lock.
CanLockShared_Unlocked == TRUE

CanLockShared == /\ writer = "none"
                 /\ WriterPriority => ~WriterWaiting

\* Mutant: the shared locks of suspended handlers are not respected.
CanLockExclusive_IgnoresReaders == writer = "none"

CanLockExclusive == writer = "none" /\ Readers = {}

Crash == /\ life' = "crashed"
         /\ UNCHANGED <<mainVars, documents, index, writer, strandVars, outVars>>

-----------------------------------------------------------------------------
(* The dispatch loop.                                                      *)

\* The event loop of the main thread is free to run completions.
InEventLoop == life = "running" /\ pc \in {"reading", "shutdown", "ended"}

Read(method) ==
    /\ life = "running"
    /\ pc = "reading"
    /\ method \in Methods
    /\ nread < MaxMessages
    /\ nread' = nread + 1

\* async_write tries the write at once: the reply is out, or, when the pipe is
\* full or an earlier write is waiting, its sender is suspended.  The sender is
\* the "loop" itself, a "handler", or a handler that is a "reader" of the index.
\* What matters here is who is suspended with which locks.  The bytes, which all
\* writes take from one buffer (comms.cpp:180), are those of the module Output.
SendNow(id) ==
    /\ sending = {}
    /\ replied' = replied \cup {id}
    /\ UNCHANGED sending

\* Mutant: the completion of a waiting write is taken over by the next one.
SendLater_Replaces(id, by) ==
    /\ sending # {} \/ PipeStalls
    /\ sending' = {[id |-> id, by |-> by]}
    /\ UNCHANGED replied

SendLater(id, by) ==
    /\ sending # {} \/ PipeStalls
    /\ sending' = sending \cup {[id |-> id, by |-> by]}
    /\ UNCHANGED replied

Send(id, by) == SendNow(id) \/ SendLater(id, by)

\* initialize: stores the options, replies.
Initialize ==
    /\ Read("initialize")
    /\ Send(nread', "handler")
    /\ UNCHANGED <<life, pc, req, cursor, documents, index, writer, strandVars>>

\* initialized, workspace/didChangeConfiguration, an unknown method or a
\* message without a method: nothing but reading the next message.
Other ==
    /\ Read("other")
    /\ UNCHANGED <<life, pc, req, cursor, documents, index, writer, strandVars,
                   outVars>>

\* Mutant: the reply is sent from a coroutine of its own.
Shutdown_Spawned ==
    /\ Read("shutdown")
    /\ Send(nread', "loop")
    /\ UNCHANGED <<life, pc, req, cursor, documents, index, writer, strandVars>>

\* shutdown: the loop itself awaits the write of the reply.
Shutdown ==
    /\ Read("shutdown")
    /\ \/ SendNow(nread') /\ UNCHANGED pc
       \/ SendLater(nread', "loop") /\ pc' = "shutdown"
    /\ UNCHANGED <<life, req, cursor, documents, index, writer, strandVars>>

\* exit, the end of the input or a message that is not JSON: the loop returns.
Exit ==
    /\ Read("exit")
    /\ pc' = "ended"
    /\ UNCHANGED <<life, req, cursor, documents, index, writer, strandVars,
                   outVars>>

-----------------------------------------------------------------------------
(* Text synchronization.                                                   *)

\* Mutant: no second job for a document that is being parsed.
QueueReparse_Merged(u) ==
    /\ queue' = IF job.uri = u THEN queue ELSE Append(queue, u)
    /\ awaiting' = IF job.uri = u THEN awaiting ELSE awaiting + 1
    /\ UNCHANGED <<job, done>>

\* co_await co_spawn(index_queue, Reparse(server, document))
QueueReparse(u) ==
    /\ queue' = Append(queue, u)
    /\ awaiting' = awaiting + 1
    /\ UNCHANGED <<job, done>>

\* Mutant: the document is inserted by its first Reparse.
DidOpen_NoEmplace(u, v, t) ==
    /\ Read("didOpen")
    /\ QueueReparse(u)
    /\ UNCHANGED <<life, pc, req, cursor, documents, index, writer, outVars>>

\* emplace does nothing when the uri has a document already.
DidOpen(u, v, t) ==
    /\ Read("didOpen")
    /\ documents' = IF documents[u].present THEN documents
                    ELSE [documents EXCEPT ![u] =
                            [Absent EXCEPT !.present = TRUE,
                                           !.version = v, !.text = t]]
    /\ QueueReparse(u)
    /\ UNCHANGED <<life, pc, req, cursor, index, writer, outVars>>

\* Mutant: the next version is taken for one that is known.
Accepts_OffByOne(u, v, changes) ==
    /\ documents[u].present
    /\ documents[u].version + 1 < v
    /\ changes = 1

Accepts(u, v, changes) ==
    /\ documents[u].present
    /\ documents[u].version < v
    /\ changes = 1

\* Starts to assign item.text, which takes no lock.
DidChange(u, v, t, changes) ==
    /\ Read("didChange")
    /\ Accepts(u, v, changes)
    /\ pc' = "writing"
    /\ req' = [method |-> "didChange", uri |-> u, version |-> v, text |-> t]
    /\ UNCHANGED <<life, cursor, documents, index, writer, strandVars, outVars>>

\* documents.at throws into the handler's completion, which only logs; a change
\* that is not newer, or not a single one, is left alone.
IgnoreChange(u, v, changes) ==
    /\ Read("didChange")
    /\ ~Accepts(u, v, changes)
    /\ UNCHANGED <<life, pc, req, cursor, documents, index, writer, strandVars,
                   outVars>>

FinishChange ==
    /\ life = "running"
    /\ pc = "writing"
    /\ documents' = [documents EXCEPT ![req.uri].text = req.text,
                                      ![req.uri].version = req.version]
    /\ QueueReparse(req.uri)
    /\ pc' = "reading"
    /\ req' = NoRequest
    /\ UNCHANGED <<life, nread, cursor, index, writer, outVars>>

DidClose(u) ==
    /\ Read("didClose")
    /\ pc' = "closing"
    /\ req' = [NoRequest EXCEPT !.method = "didClose", !.uri = u]
    /\ UNCHANGED <<life, cursor, documents, index, writer, strandVars, outVars>>

\* Mutant: the state of the document is left as it was.
FinishClose_Forgets ==
    /\ life = "running"
    /\ pc = "closing"
    /\ CanLockExclusive
    /\ pc' = "reading"
    /\ req' = NoRequest
    /\ UNCHANGED <<life, nread, cursor, documents, index, writer, strandVars,
                   outVars>>

\* Runs in the dispatch loop, not in a coroutine of its own: an unknown uri
\* ends the loop.
FinishClose ==
    /\ life = "running"
    /\ pc = "closing"
    /\ CanLockExclusive
    /\ IF documents[req.uri].present
       THEN /\ documents' = [documents EXCEPT ![req.uri].state = "CLOSED"]
            /\ pc' = "reading"
       ELSE pc' = "ended" /\ UNCHANGED documents
    /\ req' = NoRequest
    /\ UNCHANGED <<life, nread, cursor, index, writer, strandVars, outVars>>

-----------------------------------------------------------------------------
(* textDocument/references and textDocument/definition.                    *)

Request(method, u) ==
    /\ Read(method)
    /\ pc' = "cursor"
    /\ req' = [NoRequest EXCEPT !.method = method, !.uri = u]
    /\ UNCHANGED <<life, cursor, documents, index, writer, strandVars, outVars>>

\* documents.at throws: the request is never answered.
CursorUnknown ==
    /\ life = "running"
    /\ pc = "cursor"
    /\ CanLockShared
    /\ ~documents[req.uri].present
    /\ pc' = "reading"
    /\ req' = NoRequest
    /\ UNCHANGED <<life, nread, cursor, documents, index, writer, strandVars,
                   outVars>>

\* No call or no word at the position (none, ever, in the empty script of a
\* document not parsed yet): the reject is sent without the lock.
CursorMiss ==
    /\ life = "running"
    /\ pc = "cursor"
    /\ CanLockShared
    /\ documents[req.uri].present
    /\ Send(nread, "handler")
    /\ pc' = "reading"
    /\ req' = NoRequest
    /\ UNCHANGED <<life, nread, cursor, documents, index, writer, strandVars>>

\* The cursor points into document.script, whose words are views of the text
\* held by document.context.
CursorHit ==
    /\ life = "running"
    /\ pc = "cursor"
    /\ CanLockShared
    /\ documents[req.uri].present
    /\ documents[req.uri].script # NoText
    /\ cursor' = IF documents[req.uri].context = documents[req.uri].script
                 THEN "live" ELSE "torn"
    /\ pc' = "lookup"
    /\ UNCHANGED <<life, req, nread, documents, index, writer, strandVars,
                   outVars>>

\* The answer is read through the cursor and through the locations of the
\* index; the shared lock is held until the reply is written.
Lookup ==
    /\ life = "running"
    /\ pc = "lookup"
    /\ CanLockShared
    /\ Send(nread, "reader")
    /\ pc' = "reading"
    /\ req' = NoRequest
    /\ cursor' = "none"
    /\ UNCHANGED <<life, nread, documents, index, writer, strandVars>>

\* What Lookup reads can be memory that was freed.
LookupCrash ==
    /\ life = "running"
    /\ pc = "lookup"
    /\ CanLockShared
    /\ cursor # "live" \/ index.file = "freed"
    /\ Crash

-----------------------------------------------------------------------------
(* Completions the main thread runs.                                       *)

\* The client has drained the pipe and a write completes: its handler returns
\* and releases its shared lock; the loop goes on if the write was its own.  Any
\* of the writes can be the first to complete, since one of which the pipe took
\* a part is queued again, behind those that began after it.
CompleteWrite ==
    /\ InEventLoop
    /\ pc # "ended"
    /\ \E write \in sending :
          /\ replied' = replied \cup {write.id}
          /\ sending' = sending \ {write}
          /\ pc' = IF write.by = "loop" THEN "reading" ELSE pc
    /\ UNCHANGED <<life, req, nread, cursor, documents, index, writer, strandVars>>

\* Returning from the loop destroyed the descriptors: pending writes are
\* aborted, their handlers end with an exception that is logged.
AbortWrite ==
    /\ life = "running"
    /\ pc = "ended"
    /\ \E write \in sending : sending' = sending \ {write}
    /\ UNCHANGED <<life, mainVars, documents, index, writer, strandVars, replied>>

\* Mutant: the completion stays in the event loop and runs again.
ResumeHandler_Twice ==
    /\ InEventLoop
    /\ done > 0
    /\ awaiting' = awaiting - 1
    /\ UNCHANGED <<life, mainVars, documents, index, writer, queue, job, done,
                   outVars>>

\* Mutant: the handler is not resumed.
ResumeHandler_Lost ==
    /\ InEventLoop
    /\ done > 0
    /\ done' = done - 1
    /\ UNCHANGED <<life, mainVars, documents, index, writer, queue, job, awaiting,
                   outVars>>

\* A didOpen or didChange handler whose Reparse is over returns.
ResumeHandler ==
    /\ InEventLoop
    /\ done > 0
    /\ done' = done - 1
    /\ awaiting' = awaiting - 1
    /\ UNCHANGED <<life, mainVars, documents, index, writer, queue, job, outVars>>

\* Mutant: main does not wait for the handlers that await a Reparse.
Destroy_Early ==
    /\ life = "running"
    /\ pc = "ended"
    /\ sending = {}
    /\ life' = "stopped"
    /\ UNCHANGED <<mainVars, documents, index, writer, strandVars, outVars>>

\* ctx.run() returns when no coroutine is left; then the Server is destroyed:
\* the interpreter first, the background threads after it.
Destroy ==
    /\ life = "running"
    /\ pc = "ended"
    /\ sending = {}
    /\ awaiting = 0
    /\ life' = "stopped"
    /\ UNCHANGED <<mainVars, documents, index, writer, strandVars, outVars>>

-----------------------------------------------------------------------------
(* Reparse, on the strand: one job at a time, in the order of co_spawn.    *)

JobAt(where) == life = "running" /\ job.pc = where

Writing(u) == pc = "writing" /\ req.uri = u

\* What copying item.text can return: it races with an assignment under way.
CopiedTexts(u) ==
    IF Writing(u)
    THEN {documents[u].text, req.text, Torn}
    ELSE {documents[u].text}

\* Mutant: one job stands for all that are queued.
StartReparse_Coalesces ==
    /\ JobAt("idle")
    /\ queue # <<>>
    /\ queue' = <<>>
    /\ \E t \in CopiedTexts(Head(queue)) :
          job' = [pc |-> "parsing", uri |-> Head(queue), text |-> t]
    /\ UNCHANGED <<life, mainVars, documents, index, writer, awaiting, done,
                   outVars>>

StartReparse ==
    /\ JobAt("idle")
    /\ queue # <<>>
    /\ queue' = Tail(queue)
    /\ \E t \in CopiedTexts(Head(queue)) :
          job' = [pc |-> "parsing", uri |-> Head(queue), text |-> t]
    /\ UNCHANGED <<life, mainVars, documents, index, writer, awaiting, done,
                   outVars>>

StartCrash ==
    /\ JobAt("idle")
    /\ queue # <<>>
    /\ Torn \in CopiedTexts(Head(queue))
    /\ Crash

\* ParseScript with the interpreter, make_index and Build on locals.
Parse ==
    /\ JobAt("parsing")
    /\ job' = [job EXCEPT !.pc = "locking"]
    /\ UNCHANGED <<life, mainVars, documents, index, writer, queue, awaiting,
                   done, outVars>>

LockIndex ==
    /\ JobAt("locking")
    /\ CanLockExclusive
    /\ writer' = "strand"
    /\ job' = [job EXCEPT !.pc = "context"]
    /\ UNCHANGED <<life, mainVars, documents, index, queue, awaiting, done,
                   outVars>>

MoveContext ==
    /\ JobAt("context")
    /\ documents' = [documents EXCEPT ![job.uri].context = job.text]
    /\ job' = [job EXCEPT !.pc = "script"]
    /\ UNCHANGED <<life, mainVars, index, writer, queue, awaiting, done, outVars>>

\* Mutant: the lock is released before the index is replaced.
MoveScript_Unlocks ==
    /\ JobAt("script")
    /\ documents' = [documents EXCEPT ![job.uri].script = job.text]
    /\ cursor' = IF pc = "lookup" /\ req.uri = job.uri THEN "dangling" ELSE cursor
    /\ job' = [job EXCEPT !.pc = "index"]
    /\ writer' = "none"
    /\ UNCHANGED <<life, pc, req, nread, index, queue, awaiting, done, outVars>>

\* The old script is freed, and with it what a cursor into it points to.
MoveScript ==
    /\ JobAt("script")
    /\ documents' = [documents EXCEPT ![job.uri].script = job.text]
    /\ cursor' = IF pc = "lookup" /\ req.uri = job.uri THEN "dangling" ELSE cursor
    /\ job' = [job EXCEPT !.pc = "index"]
    /\ UNCHANGED <<life, pc, req, nread, index, writer, queue, awaiting, done,
                   outVars>>

\* Mutant: the lock is not released.
MoveIndex_KeepsLock ==
    /\ JobAt("index")
    /\ index' = [uri |-> job.uri, text |-> job.text, file |-> "frame"]
    /\ job' = [job EXCEPT !.pc = "returning"]
    /\ UNCHANGED <<life, mainVars, documents, writer, queue, awaiting, done,
                   outVars>>

\* The locations of the new index point to the context local to this job.
MoveIndex ==
    /\ JobAt("index")
    /\ index' = [uri |-> job.uri, text |-> job.text, file |-> "frame"]
    /\ writer' = "none"
    /\ job' = [job EXCEPT !.pc = "returning"]
    /\ UNCHANGED <<life, mainVars, documents, queue, awaiting, done, outVars>>

\* The coroutine's frame is freed; its completion is posted to the main thread.
FinishReparse ==
    /\ JobAt("returning")
    /\ index' = [index EXCEPT !.file = IF @ = "frame" THEN "freed" ELSE @]
    /\ job' = NoJob
    /\ done' = done + 1
    /\ UNCHANGED <<life, mainVars, documents, writer, queue, awaiting, outVars>>

-----------------------------------------------------------------------------
Dispatch ==
    \/ Initialize \/ Other \/ Shutdown \/ Exit
    \/ \E u \in Uris :
          \/ \E v \in Versions, t \in Texts :
                \/ DidOpen(u, v, t)
                \/ \E changes \in 1..MaxChanges :
                      DidChange(u, v, t, changes) \/ IgnoreChange(u, v, changes)
          \/ DidClose(u)
          \/ Request("references", u)
          \/ Request("definition", u)

MainStep ==
    \/ FinishChange \/ FinishClose
    \/ CursorUnknown \/ CursorMiss \/ CursorHit \/ Lookup \/ LookupCrash
    \/ AbortWrite \/ ResumeHandler \/ Destroy

StrandStep ==
    \/ StartReparse \/ StartCrash \/ Parse \/ LockIndex
    \/ MoveContext \/ MoveScript \/ MoveIndex \/ FinishReparse

\* The process is over, or idle with every message of the bound read.
Finished ==
    /\ \/ life # "running"
       \/ /\ pc = "reading" /\ nread = MaxMessages
          /\ sending = {} /\ queue = <<>> /\ job = NoJob /\ done = 0
    /\ UNCHANGED vars

Internal == MainStep \/ CompleteWrite \/ StrandStep

Next == Dispatch \/ Internal \/ Finished

Spec == Init /\ [][Next]_vars

(* The main thread and the strand run whatever they can run: ctx.run() and *)
(* the four threads of background never stop picking up ready handlers.    *)
(* The client drains its end of the pipe sooner or later.  Nothing obliges *)
(* it to send another message.                                             *)
Fairness == WF_vars(MainStep) /\ WF_vars(StrandStep) /\ WF_vars(CompleteWrite)

FairSpec == Spec /\ Fairness

-----------------------------------------------------------------------------
(* What text synchronization promises: DocumentSync.                       *)

BeforeSwap == {"parsing", "locking", "context", "script"}

InQueue(q, u) == \E i \in 1..Len(q) : q[i] = u

Queued(u) == InQueue(queue, u)
Parsing(u) == job.pc \in BeforeSwap /\ job.uri = u

\* The documents with a Reparse to be queued, queued, or running but not yet
\* past its assignment of document.script.
Stale == {u \in Uris : Writing(u) \/ Queued(u) \/ Parsing(u)}

Sync == INSTANCE DocumentSync WITH
            text <- [u \in Uris |-> documents[u].text],
            parsed <- [u \in Uris |-> documents[u].script],
            stale <- Stale,
            up <- life # "crashed"

-----------------------------------------------------------------------------
(* Properties.                                                             *)

Document == [present : BOOLEAN, state : {"OPEN", "CLOSED"},
             version : Versions \cup {0}, text : Contents,
             context : Contents, script : Contents]
Message == [method : AllMethods \cup {"none"}, uri : Uris \cup {NoUri},
            version : Versions \cup {0}, text : Texts \cup {NoText}]
Write == [id : 1..MaxMessages, by : {"loop", "handler", "reader"}]

MainTypeOK ==
    /\ life \in {"running", "stopped", "crashed"}
    /\ pc \in {"reading", "writing", "closing", "cursor", "lookup", "shutdown",
               "ended"}
    /\ req \in Message
    /\ nread \in 0..MaxMessages
    /\ pc \in {"writing", "closing", "cursor", "lookup"} =>
          req.uri \in Uris /\ nread > 0
    /\ cursor \in {"none", "live", "torn", "dangling"}

StrandTypeOK ==
    /\ writer \in {"none", "strand"}
    /\ queue \in Seq(Uris)
    /\ job \in [pc : {"idle", "parsing", "locking", "context", "script", "index",
                      "returning"},
                uri : Uris \cup {NoUri}, text : Contents]
    /\ job.pc # "idle" => job.uri \in Uris
    /\ awaiting \in Nat
    /\ done \in Nat

DataTypeOK ==
    /\ documents \in [Uris -> Document]
    /\ index \in [uri : Uris \cup {NoUri}, text : Contents,
                  file : {"none", "frame", "freed"}]

OutTypeOK ==
    /\ sending \subseteq Write
    /\ replied \subseteq 1..MaxMessages

\* The state of server.hpp:35-61 and of the suspended handlers stays within its
\* types; no completion is run that was not posted.
TypeOK == MainTypeOK /\ StrandTypeOK /\ DataTypeOK /\ OutTypeOK

Swapping == {"context", "script", "index"}

\* No update is lost (handlers.cpp:117-126, parse_manager.cpp:10-40): whenever
\* the script of a document is not a parse of its current text, a Reparse that
\* will copy that text, or has copied it, is still to publish it.
NoLostUpdate ==
    \A u \in Uris :
        documents[u].present /\ documents[u].script # documents[u].text =>
            \/ Writing(u)
            \/ Queued(u)
            \/ Parsing(u) /\ job.text = documents[u].text

\* The exclusive lock of Reparse excludes every reader of the index, the
\* suspended handlers included (parse_manager.cpp:33, handlers.cpp:191).
LockExclusion ==
    /\ writer = "strand" <=> job.pc \in Swapping
    /\ writer = "strand" => Readers = {}

\* No cursor is taken from a document whose context and script belong to
\* different parses (parse_manager.cpp:34-35, 46-50).
NoTornCursor == cursor # "torn"

\* Outside the critical section the index was built from the very parse that
\* the document it came from holds (parse_manager.cpp:33-37).
IndexMatchesDocument ==
    writer = "none" /\ index.uri \in Uris =>
        /\ documents[index.uri].script = index.text
        /\ documents[index.uri].context = index.text

\* The interpreter outlives every parse that uses it (server.hpp:78-91): the
\* Server is destroyed only when no Reparse is queued or running.
InterpreterOutlivesParses ==
    life = "stopped" => job.pc = "idle" /\ queue = <<>>

\* "We do wait for the reply to be sent sync here" (server.cpp:108): as long as
\* the reply to shutdown is not written the loop neither reads on nor returns.
ShutdownAnswered ==
    \A write \in sending : write.by = "loop" => pc = "shutdown"

\* A document's parse is replaced only while no handler holds the lock shared
\* (parse_manager.cpp:33-35).
ParseReplacedUnderLock ==
    [][\A u \in Uris : documents'[u].script # documents[u].script =>
          writer = "strand" /\ Readers = {}]_vars

\* Every accepted text is parsed and published in the end (handlers.cpp:81-83,
\* 120-125), unless the process dies of one of its races.
TextsGetParsed ==
    \A u \in Uris :
        []<>(\/ documents[u].present => documents[u].script = documents[u].text
             \/ life = "crashed")

\* A request about a document the server knows is answered (handlers.cpp:173-328),
\* in that the write of its answer completes, unless the process dies or leaves
\* its loop first.
RequestsAnswered ==
    \A id \in 1..MaxMessages :
        pc = "cursor" /\ nread = id /\ documents[req.uri].present ~>
            id \in replied \/ pc = "ended" \/ life = "crashed"

\* "State that we're using the filesystem version of the doc now"
\* (handlers.cpp:146): a didClose that was read gets to say so.
CloseTakesEffect == pc = "closing" ~> pc # "closing" \/ life = "crashed"

\* Text synchronization is what DocumentSync promises (handlers.cpp:71-128,
\* parse_manager.cpp:10-40): a publication is of the current text or is
\* followed by another, and every stale parse is replaced in the end.
SyncSpec == Sync!Spec

\* "NOTE: we can't free the document, because its text is used by the index"
\* (handlers.cpp:148): the source files the index refers to are not freed.
IndexFilesLive == index.file # "freed"

\* Once the loop has returned, the process comes to its end (server.cpp:111-114,
\* 175-187).
ExitStops == pc = "ended" ~> life # "running"
=============================================================================
