# A TLA+ model of the Tcl analyzer and its language server

The repository builds two programs from `src/src`. `server.cpp` is a language
server for Tcl: it reads LSP messages from its standard input, keeps the
client's documents, parses and indexes them in the background, and answers
`textDocument/references` and `textDocument/definition`. `analyzer.cpp` runs the
same parser and index once over a file. This directory holds TLA+ modules of
what these programs do, configurations of TLC that check the modules on small
instances, and proofs, checked by TLAPS, of the most important results for every
instance. Paths like `handlers.cpp:144` are relative to `src/src` and its
directories `lsp` and `analyzer`.

## 1. Inventory

| Component | Code | State it keeps | Operations |
|---|---|---|---|
| Dispatch loop | `server.cpp:59-187` | the position of the loop; the two descriptors | read a message, call or spawn its handler, return |
| Message handlers | `lsp/handlers.cpp`, `lsp/server.hpp` | `documents`, `options`, `rootUri` | initialize, didOpen, didChange, didClose, references, definition |
| Parse manager | `lsp/parse_manager.cpp` | the Reparse jobs on the strand `index_queue`; `document.context`, `document.script`, `server.index` | `Reparse`, `GetCursor` |
| Index lock | `server.hpp:47` | a `std::shared_mutex` | shared by requests, exclusive by Reparse and didClose |
| Message framing | `lsp/comms.cpp:24-175` | the streambuf, `content_length` | `read_message`, a coroutine generator |
| Answer output | `lsp/comms.cpp:177-247` | one static streambuf | `send_message`, `send_reply`, `send_reject` |
| Script parser | `analyzer/script.cpp` | `cur_ns`, the token stack of Tcl | `ParseScript`, `ParseCommand`, `ParseWord`, `WordToList`, `SplitName`, `AbsPath` |
| Index | `analyzer/index.cpp` | namespaces, procs, references, variables | `make_index`, `ScanScript`, `IndexScript`, `ResolveNamespace`, `FindProc`, `BestFitProcToCall`, `GetPrintName`, `FindPositionInScript` |
| Tables | `analyzer/db.cpp` | records by id, ids by key | `Insert`, `Get`, `AddReference` |
| Source locations | `analyzer/source_location.cpp` | the line offsets of a file | `ParseNewLines`, `OffsetToLineByte`, the order of `LinePos` |
| Protocol types | `lsp/types.cpp` | none | conversion from and to JSON |
| Command line | `analyzer.cpp` | none | read, parse, index, print |

How they interact. The process has the main thread, which runs the event loop
of `ctx`, and four threads that run the event loop of `background`. Everything
but Reparse runs on the main thread, one coroutine segment at a time. The
dispatch loop resumes `read_message` for the next message and calls its handler:
`initialize`, `shutdown` and `didClose` are awaited or run in the loop, the
others are coroutines of their own. `didOpen` and `didChange` store the text
and `co_await` a Reparse on `index_queue`, a strand, so that at most one Reparse
runs at a time, in the order of the messages. Reparse copies the text without a
lock, parses and indexes it into locals, and publishes context, script and index
under the exclusive lock. A request calls `GetCursor` under a shared lock,
releases it, locks again, looks the word under the cursor up in the index, and
keeps the shared lock until its answer is written.

What is hard about it:

- the main thread assigns `item.text` while the strand copies it, and the strand
  writes what requests read;
- a shared lock is owned by coroutines that are suspended, while the thread that
  would resume them can block on the same lock;
- pointers into a parse outlive the lock under which they were taken, and the
  index points into memory of the coroutine that made it;
- every answer goes through one buffer, and a write can be suspended;
- `exit` destroys the descriptors under the handlers that use them;
- the client's bytes come in any chunks, and a header may be unreadable;
- parser and index compute the namespace of a command by different means;
- four recursions go over the words of a script (`ParseWord`, `ScanWord`,
  `IndexWord`, `FindPositionInWord`), and a request is answered only if the last
  three agree on what they look into.

What makes the components correct: no accepted text is lost, and what is
published is whole and becomes that of the latest text (documents, parse
manager); the lock excludes (lock); every request is answered, and the
process ends when it is told to (loop, handlers); every message is delivered,
whole, once and in order (framing, output, as long as no two writes overlap); calls
are found to refer to what Tcl would call, and requests look where the index was
filled (parser, index, with the exceptions of section 5); a
position is that of the byte it was made from, and the cursor is on the word the
user points at (source locations, index).

## 2. Modules

| Module | What it is |
|---|---|
| `LanguageServer` | the process: dispatch loop, handlers, Reparse, lock, suspended writes |
| `DocumentSync` | abstract: what text synchronization promises, without threads |
| `ClientSession` | `LanguageServer` composed with a client that keeps to the protocol |
| `MessageChannel` | abstract: a channel delivers what was sent, in order, all of it |
| `Framing` | `read_message` and the client's side of the pipe |
| `Output` | `send_message`, the streambuf, the writes of asio, the pipe |
| `Names` | `QualifiedName` and `SplitName` |
| `ScriptIndex` | from the commands of a script to its index, the tables, and lookups in them |
| `SourceLocation` | a file, the table of its newlines, lines and columns |
| `Words` | from the tokens of Tcl to calls and words, and the calls both walks visit |
| `Cursor` | `SourceLocation` and `Words` composed with a writer of texts and a client that asks about positions |
| `LanguageServerProofs`, `ClientSessionProofs`, `FramingProofs`, `OutputProofs`, `CursorProofs`, `ScriptIndexProofs` | theorems about these modules |
| `LexicalProofs` | theorems about what the parser notes, what a request finds, what names are printed and what calls refer to, on top of `ScriptIndexProofs` |
| `Iteration` | lemmas about loops and recursions: what a step keeps holds after any number of steps, what follows from all smaller numbers holds of all, functions defined by such a loop or recursion exist, and a set of numbers has a least member |
| `MC...` | instances for TLC |

### LanguageServer

| Variable | In the code |
|---|---|
| `life` | the process runs, has left `main`, or has died of undefined behaviour |
| `pc`, `req` | where the main thread is, and the parameters of the handler it runs |
| `nread` | messages read; a request's number is its id |
| `cursor` | whether the pointers of `Index::ScriptCursor` are good |
| `documents` | `Server::documents`; `text` and `version` are those of `item`; `context` and `script` are the texts they were parsed from |
| `index` | `Server::index`: the document and text it was built from, and whether the `SourceFile` its locations point to is still there |
| `writer` | the exclusive owner of `index_lock`; its shared owners are the suspended writes of "readers" |
| `queue`, `job` | the strand: jobs that wait, and the one that runs with its program counter |
| `awaiting`, `done` | handlers suspended in `co_await co_spawn(...)`, and completions posted for them |
| `sending`, `replied` | the set of suspended writes of answers, each with who awaits it, and answers that are written |

There is one action per segment of code that runs without blocking and without
being observed half done. `Initialize`, `Other`, `Shutdown`, `Exit`, `DidOpen`,
`IgnoreChange` are whole messages. `DidChange` and `FinishChange` are the
two ends of the assignment of `item.text`, with which `StartReparse` can race:
the copy is then the old text, the new one, or torn, and the process may crash
(`StartCrash`). `DidClose` and `FinishClose`, `Request` and `CursorMiss`,
`CursorHit`, `CursorUnknown`, and `Lookup` are cut where the main thread locks
`index_lock`. `StartReparse`, `Parse`, `LockIndex`, `MoveContext`, `MoveScript`,
`MoveIndex` and `FinishReparse` are Reparse, statement by statement from the
lock on. `CompleteWrite`, `AbortWrite` and `ResumeHandler` are completions the
event loop runs, and `Destroy` is the end of `main`.

A text is a model value; a script and an index are represented by the text they
were made from. That is all the properties of this module distinguish. What the
lookup finds is the business of `ScriptIndex`.

Of the suspended writes `LanguageServer` keeps who is suspended in them, with which
locks. All of them take their bytes from one buffer (`comms.cpp:180`), and one of which
the pipe took a part is queued again behind those that began later
(`comms.cpp:196`), so `CompleteWrite` lets any of them be the first to complete.
Which bytes reach the client, and in which order, is the business of `Output`; no
property of `LanguageServer` speaks of it. That a request is answered means here that
the `async_write` of its answer completes.

### ClientSession

The messages of `LanguageServer` are any sequence. `ClientSession` restricts
them to those of a client that keeps to the protocol and remembers what the
client has told the server. The client opens what is not open, gives every
change a higher version, closes and asks about what is open.

### Framing and Output

`Framing` represents the input as header lines and units of text. The client
writes messages with headers of several kinds; the pipe delivers any prefix of
what is in it to a read. `pc` says at which `co_await` or `co_yield` the
generator is. What the text looks like is left out but for one fact: text that
precedes a line belongs to that line when `async_read_until` looks for a `"\n"`.
`due` notes which messages have a text and its length: these are what
`MessageChannel` is to deliver.

`Output` represents an answer by a number of units of bytes. From asio it takes
that `async_write` of a streambuf takes the contents when it starts and consumes
as much when it completes, that a write is tried at once unless others wait for
the descriptor, that a write may be taken in part and is then started again, and
that completions run in the order they were posted. (`impl/write.hpp`,
`detail/impl/epoll_reactor.ipp` of the vendored asio.)

### Names and ScriptIndex

`Names` represents a text by the identifiers between its `::`, and an identifier
by its letters, so that gluing two names together without `::` is visible.
`ScriptIndex` writes a script command by command, noting in each the namespace
`ParseCommand` notes, and then walks it twice as `Build` does. Nested scripts
are brackets in the sequence of commands, and the recursion over them is a
stack. Ids are positions in tables; the keys by name are selections in the order
of insertion, which is what `equal_range` of a `multimap` gives. `NextId`,
`Insert` and `AddReference` are the operations of `db.cpp`, which never removes a
record. A request (`Ask`) looks up the text of the word under the cursor from the
namespace noted in the cursor's call. That text is the name of the call the walk
indexed (`WasIndexed`), or another one: text behind a nested script or a part of a
command word that is put together, or the name of a call in the words before a body, which
no walk indexed. So `Ask` takes any text of the vocabulary with any number of
arguments, from the namespace of any command, and inserts what `FindProc` inserts.
`GetPrintName` is what the command line prints of a proc. The loops over
the parts of a name (`ResolveNamespace`, `FindNamespace`) and over the parents of a
namespace (`FindProc`) are functions of the number of rounds, of which `Descend`,
`FindChild` and `FindIn` are one each.

### SourceLocation, Words and Cursor

`SourceLocation` keeps of every byte whether it is a newline. `ScanByte` is one
round of the loop of `ParseNewLines`, the NUL behind the contents included, and
`EndScan` what follows the loop. `LineOf` is the loop that looks for the first
newline at or behind an offset, `StartOfLine`
and `OffsetToLineByte` are the rest of that function, `Before` the comparison of
`LinePos`.

`Words` takes the tokens of a command as `Tcl_ParseCommand` lays them out, a flat
sequence in which every token says how many of the next are its components, and
does with them what `ParseWord` and `ParseCommand` do. Then it says which calls
`ScanScript` and `IndexScript` come to. Where the code recurs over words in words
and scripts in words, `Words` has tables: the words of a call stay in the order of
their tokens, each with the number of the last token in it (`last`), so that the
words a recursion comes to are a set of numbers (`Within`); the scripts of a text
are numbered, those inside of a script before it, so that what is reached from a
script is a function defined from the first script to the last (`Reach`), and so is
what the search finds in each (`found` in `FindPositionInScript`).

`Cursor` writes a text from left to right. `style` says with what, `open` is the
stack of what has been begun, each entry with the tokens Tcl would have made of
it so far, and `phase` leads from the writing over the lines (`Scan`) and the
words (`Parse`) to any number of requests (`Ask`, `Reply`) about any line and
column, also outside the text. `cursor` is what `GetCursor` returns and `outcome`
whether the handler rejects the request, looks the word up, or answers with
nothing. The writer stands for Tcl's own parser, whose results it must give for
the texts it writes: a single text is no word of several parts, an expanded one is
a word of its own, text does not follow text, a bare word with a command in it
falls apart as a list.

## 3. Runs

Runs that pass:

| Run | Instance | What it shows |
|---|---|---|
| `server_safety` | two documents, two texts, two versions, five messages of any methods in any order, changes with one or two events, a pipe that may stall | `TypeOK`; no update is lost (`NoLostUpdate`); the lock excludes suspended readers (`LockExclusion`); cursors and index are never half of one parse (`NoTornCursor`, `IndexMatchesDocument`); `exit` leaves the interpreter to the parses that use it (`InterpreterOutlivesParses`); the reply to shutdown is waited for (`ShutdownAnswered`) |
| `server_liveness` | two documents, one text, four messages, no didClose, a pipe that stalls and is drained, readers may pass a waiting writer | texts get parsed, requests answered, the process ends (`TextsGetParsed`, `RequestsAnswered`, `ExitStops`); and `LanguageServer` implements `DocumentSync` with its fairness (`SyncSpec`) |
| `client_session` | two documents, two texts, four messages of a correct client that does not reopen documents, a pipe that never stalls, a writer-preferring lock | server and client agree on texts and states (`TextIsTheClients`, `StateIsTheClients`), no message makes `documents.at` throw (`OnlyKnownDocuments`), closes take effect (`CloseTakesEffect`), requests are answered although a waiting writer keeps readers out (`RequestsAnswered`), the parse ends up being that of the client's text (`ParseIsTheClients`) |
| `framing` | three clients: one that keeps to the protocol, one that ends texts with a newline, one that writes any headers; two or three messages of one or two units | `DeliversAll`, the refinement of `MessageChannel`, for the first; `RecoversAtNewline` for the second; `BadLengthIsSurvived` and `EndsWithInput` for all |
| `output` | answers of 2, 3 and 9 units, a pipe of 5, five requests | the streambuf is empty between writes (`BufferDrained`); the answers arrive (`AnswersArrive`, the refinement of `MessageChannel`) |
| `index` | three vocabularies (see below) | the tables are a tree and a list of procs (`TypeOK`, `NamespaceTree`); a call that Tcl resolves has a reference, and it is one that Tcl would find, which takes the arguments if one does, unless a namespace Tcl does not look in comes first (`CallsResolve`, `FittingDefinition`); the printed name of a proc is the absolute name Tcl knows it by (`PrintedNames`); the parser's namespace of a call is the index's (`LexicalAgreement`); whatever texts were looked up before, a request about an indexed call finds it and its definition (`AnswersIncludeTheCall`) and only reads (`IndexedCallsOnlyRead`) |
| `cursor` | eight vocabularies (see below), every position in a text and around it | lines and columns are those of the offset (`PositionsExact`, `OrderPreserved`); the tree of words (`CursorTypeOK`); a position inside a word finds it, with its innermost call (`WordUnderCursor`), any other one the last word before it (`NearestWord`); what can be asked about is what both walks of the index come to (`AskedCallsAreIndexed`) |

The vocabularies of `cursor`: commands substituted in quotes over several lines;
commands whose name is put together; arrays with commands in their index;
expanded words; the bodies of `while`; of `proc`; of `namespace eval`, with the
name put together; and those of `for` and `foreach`. Texts begin nothing new
after 5 to 10 bytes: enough for two nested scripts, or a script between two parts
of a word, in more than one line. TLC visits 279,059 states.

The vocabularies of `index`: five commands with two namespaces, nested,
repeated, opened in each other and in procs; four with procs defined under an
absolute name, and calls by absolute and relative qualified names; four that
define one proc with up to five different parameter lists, in the global namespace and in
another, and call it with none to three arguments. The first has the nesting in which
the code and Tcl look a call up differently (`NoneBetween`, section 5).
`MCScriptIndex` also assumes the table of the repository's
own test (`script.cpp:664-673`), which TLC evaluates.

Runs that TLC finds violated, each by what the code does against what a text of
the repository says (`PROJECT.json`, "findings"):

| Run | What happens |
|---|---|
| `close_blocks` | a references handler waits for the pipe with the shared lock; didClose, on the same thread, waits for the exclusive lock for ever |
| `freed_locations` | after a Reparse the locations of the published index point to the `SourceFile` of its coroutine frame, which is gone |
| `reopen_ignored` | `documents.emplace` leaves an entry alone: a document closed and opened again keeps its old text, version and state |
| `lexical_relative` | the parser notes `::AA::B` for the calls in `namespace eval A::B` within `::A` |
| `variadic` | `argName` is compared with "args" before it is assigned: no proc is variadic, and `args` counts as required |

### Bounds, and why they are enough

- Five messages (`MaxMessages`) are enough for two documents to be opened and
  changed while requests are suspended; the properties of the server speak of at
  most two documents, and of one text against the next.
- Two versions are enough for a change that is newer and one that is not. One or
  two events in a change are the two branches of `handlers.cpp:118`.
- Three messages are enough for a well-formed message before and after a broken
  one; two units of text for a chunk that ends in the middle of a text.
- An answer of 9 units needs at least two writes through a pipe of 5, and two of
  2 units fit in it together.
- Five commands are enough for two nested levels with a definition and a call
  on different levels, and for the definition to come after the call. Ends that
  are missing when the bound is reached are added by `ParsedAll`.

Bounded messages have one consequence to keep in mind: with a finite number of
requests, readers cannot keep the writer of `index_lock` from its lock for ever,
which an endless stream of suspended requests could with a lock that prefers
readers. The liveness of `server_liveness` is relative to that.

### Fairness

`Fairness` of `LanguageServer` is weak fairness of the main thread's steps, of
the strand's steps and of the completion of writes. The four threads
`background_threads` run `background.run()` under a work guard (`server.hpp:67`)
and `main` runs `ctx.run()` (`server.cpp:175-187`): both pick up what is ready.
The completion of writes is fair because a client that waits for answers reads
its end of the pipe. A lock is granted to a waiting thread in the end if it stays
free for it. Nothing obliges the client to send a message. `Framing` needs that
the event loop resumes the generator when there is input; `Output` that the
event loop runs and the client reads.

### Assumptions on the environment

- `PipeStalls = FALSE` in `client_session`, and no didClose in
  `server_liveness`: with a stalling pipe didClose blocks (`close_blocks`).
- `WriterPriority = FALSE` in `server_liveness`. With a `shared_mutex` that keeps
  new readers out while a writer waits, a second request blocks the main thread
  behind a Reparse, which waits for a first request that is suspended in a
  stalled write, which the main thread would have to complete. The standard
  leaves the policy open, and no text of the repository speaks of it.
- `Patient = TRUE` in `output`: the client does not ask on while the pipe could
  not hold the answers. With `FALSE` TLC refutes `AnswersArrive`: a write that
  starts while another is suspended takes the rest of the first answer with it,
  and both are consumed. No text of the repository promises more.
- `RecoversAtNewline` of `framing` is about a client that ends texts with a
  newline, as the repository's test inputs do. Without that newline the reader
  finds no message any more after a Content-Length it cannot read; a comment
  (`comms.cpp:138`) only says that it tries to.
- The styles of `cursor` keep to texts for which the writer gives Tcl's tokens:
  a command ends with a newline or a semicolon, also the last one in brackets;
  names are bare words of one byte's width; and no style has both "proc" and
  expanded words, since an expanded parameter list is not a list Tcl accepts.

## 4. Proofs

The theorems hold for every value of the constants; nothing is assumed but the
named assumptions of the modules and what is stated in a theorem.

`LanguageServerProofs` proves, for any sets of documents and texts and any
bounds, from the named assumptions of `LanguageServer` only:

| Theorem | Property |
|---|---|
| `TypeCorrect` | `TypeOK` |
| `LockExcludes` | `LockExclusion` |
| `UpdatesArrive` | `NoLostUpdate` |
| `IndexMatches` | `IndexMatchesDocument` |
| `InterpreterOutlives` | `InterpreterOutlivesParses` |
| `CursorsAreWhole` | `NoTornCursor` |
| `ParsesReplacedUnderLock` | `ParseReplacedUnderLock` |
| `ShutdownIsAnswered` | `ShutdownAnswered` |
| `ImplementsDocumentSync` | the safety part of `DocumentSync` under the refinement mapping `Sync` |

The argument. Three frame lemmas (`StrandFrame`, `DataFrame`, `OutFrame`) say
which steps touch the strand, the data and the output; every later proof is by
cases over the few that do.

1. `TypeOK` is not inductive: that `awaiting` stays a natural number needs that
   every completion has its handler. `TypeInv` adds `AwaitingCounts`, that the
   suspended handlers are those with a job queued, running or completed.
2. `LockExclusion` is inductive with `TypeInv`: a reader becomes suspended only
   when nobody holds the lock, the strand takes it only when nobody is.
3. `NoLostUpdate` and `IndexMatchesDocument` need to know what a running job
   carries. `SyncInv` is the conjunction of: jobs concern documents that are
   known (`Known`); the job in progress carries the current text, or another job
   or the end of the assignment follows (`Fresh`); context, script and index
   agree as far as the job has come (`Coherent`, `Moved`). `SafeInv` is `TypeInv`,
   `LockExclusion` and `SyncInv`.
4. `CursorsAreWhole`, `ParsesReplacedUnderLock` and the refinement follow from
   `SafeInv`, the latter two with `Unparsed`, that a document that was never
   opened was never parsed.
5. `InterpreterOutlives` needs `NoneAwaits`, that the process stopped only when no
   handler waited, and `AwaitingCounts`.
6. `ShutdownIsAnswered` needs `OneLoopWrite`, that the loop suspends at most once.

`ClientSessionProofs` proves of a session with a correct client, for any
documents, versions, texts and number of messages:

| Theorem | Property |
|---|---|
| `SessionsAreRuns` | `SessionSpec` implies `Spec` of `LanguageServer`: all that is proved of the server holds in a session |
| `DocumentsAreKnown` | `OnlyKnownDocuments`, also when documents are opened again |
| `TextsAgree`, `StatesAgree` | `TextIsTheClients` and `StateIsTheClients`, from the assumptions `~Reopens` and `MaxChanges <= 1` |

`OnlyKnownDocuments` is inductive together with `Opened`, that what the client has
once opened, and nothing else, is present at the server (`KnownInv`). The other two
need `AgreeInv`: between the messages, and for the documents a message in progress
is not about, text and version agree (`AgreeOn`) and so does the state
(`ClosedOn`); the message in progress carries what the client remembers. The two
assumptions are needed: `reopen_ignored` refutes `TextIsTheClients` without the
first, and a change with two events is dropped. `SessionFrame` says which steps of
the server leave what the client knows alone.

`FramingProofs` proves, for any clients, sizes, numbers of messages and chunks:

| Theorem | Property |
|---|---|
| `TypeCorrect` | `TypeOK` |
| `BadLengthsAreSurvived` | `BadLengthIsSurvived` |
| `ImplementsChannel` | the safety part of `DeliversAll`: `Spec` implies `SafeSpec` of `MessageChannel` |

The invariant speaks of `Input`, streambuf and pipe one behind the other, so that
the cuts between chunks disappear: a read leaves `Input` alone, a write appends to
it, what is consumed is taken off its front. `Framed` says that every length in
the input stands before the end of its headers and a text of its size
(`LengthsHeaded`), unless the client is gone and the input ends before; that the
same holds at the front of the input once a length has been read; and that a text
waited for is next. A packet with two lengths is the only one that does not fit,
so `Framed` is required while none has been sent. `LineEnd` is defined by CHOOSE;
that there is a first line follows from the well-foundedness of the order of the
numbers (`LeastMember` of `Iteration`).

`ImplementsChannel` is about a client that keeps to the protocol (`Legal`); for any
other the mapping makes the channel idle. Its invariant, `Delivering`, says that
`due` lists the messages with a text in order (`DueListed`) and that the reader is
in step (`InStep`): there are places for all packets, one behind the other, so that
the input has the tokens of the packets at their places (`Placed`; what is consumed
has places before the input); the reader is at the beginning of a packet, or behind
those lines of its headers that `pc` and `length` tell (`ReaderAt`); and what has
been yielded is what is due of the packets before (`YieldedUpTo`). A message in
which the client is cut off is one more packet, of which the input never has all
tokens, so that nothing of it is yielded. `LineDelivers`,
`TakeDelivers`, `WriteDelivers`, `HangUpDelivers` and `RestDelivers` are the steps;
that the text taken is that of one message comes from `Framed`.

`OutputProofs` proves, for answers of any sizes and a pipe of any size:

| Theorem | Property |
|---|---|
| `TypeCorrect` | `TypeOK` |
| `BufferDrains` | `BufferDrained`, also for an impatient client |
| `ImplementsChannel` | the safety part of `AnswersArrive` for a patient client: `Spec` implies `SafeSpec` of `MessageChannel` |

The invariant of the first two is `OutInv`: `TypeOK`; if the streambuf is not empty, one of the
writes in flight is to consume at least all of it (`Covered`), since every write
takes the contents of the streambuf as they are when it starts; and there is at
most one request to handle (`OneRequest`).

`ImplementsChannel` assumes `Patient`, without which `AnswersArrive` is false
(section 3). Its invariant, `FlowInv`, speaks of `Flow`: what the client has, the
pipe, and what the write in flight has left (`Left`), one behind the other. The
bytes of `Flow` are those of the answers, each at its place (`Placed`); transfers,
partial writes and reads leave `Flow` alone, and only a new answer extends it. For
that there must be one write in flight at most (`Single`), or `prepare` would move
memory under another and a second write would take the bytes of the first once
more; and there is one because something is left to write only of an answer longer
than the pipe, during which a patient client does not ask, while whatever else it
asks for has room (`Fitting`). That a patient client finds `Left` empty when it
asks is `PatientAsks`. From `Placed` follows what the client makes of its bytes
(`WholeAnswer`, `FlowDelivers`): the answers up to the last it has all of
(`Complete`), of which one byte more adds at most one (`CompleteNext`).
`Total` sums sizes with a recursive function; that it is one follows from
`LoopExists` of `Iteration`.

`CursorProofs` proves of `SourceLocation`, for any contents:

| Theorem | Property |
|---|---|
| `FileTyped` | `FileTypeOK` |
| `OffsetsAreValid` | no offset of the file runs into the assertion of `OffsetToLineByte` |
| `PositionsAreExact` | `PositionsExact` |
| `OrderIsPreserved` | `OrderPreserved` |

The invariant `FileInv` says that the table of newlines is sorted (`Sorted`),
that it lists exactly the newlines before `scanAt` and, once the loop is over, the
end of the file (`Listed`), and that among entries at or behind an offset there is
a first one (`FirstExists`). That the entries before it are as many as the
newlines before the offset is shown by a bijection.

And of `Cursor`, for any styles and texts of any length, with scripts nested in
words to any depth:

| Theorem | Property |
|---|---|
| `TextsAreLocated` | `PositionsExact` and `OrderPreserved` |
| `CursorIsTyped` | `CursorTypeOK` |
| `WordsAreUnderCursor` | `WordUnderCursor` |
| `CursorsAreNearest` | `NearestWord` |
| `AskedAreIndexed` | `AskedCallsAreIndexed` |

They need only `StylesAssumption` and `ContentsAssumption`. The invariant is
`CursorInv` (`CursorInvariant`). Besides `FileInv` it says, phase by phase:

1. While a text is written, `WritingInv`. The scripts found so far are a table
   (`IsTable`) in which every command is well formed (`IsCommand`): components are
   inside of their token (`Nested`), tokens ascend (`Ascend`), the words are apart
   by at least a byte (`Spaced`), the type says what follows (`Regular`), and the
   script a token has inside is an earlier one of the table and lies within the
   token's bytes (`Encloses`). `open` is a stack (`IsStack`) of frames that can be in
   one another (`OnTop`), each with items that are a well-formed part of what its
   type will become and end before the next frame begins (`Holds`, `IsTop`,
   `IsBelow`). There is one lemma per action (`WriteNameKeeps`, ...,
   `EndCommandKeeps`).
2. From then on `texts` is such a table, and, once parsed, `script` is what
   `ParseScript` makes of it.
3. The answer to a request is what the search gives (`IsAnswer`), so that it is no
   longer needed how it was computed.

From 2 follows `IsTree` (`TreeParsed`): the words of a call enclose their parts
(`Laminar`), arguments and calls are one behind the other (`Apart`, `CallsApart`),
and a script in a word is an earlier one of the tree and within the word
(`ScriptsLie`), also where `ParseCommand` turns a word into a body. `IsSearch` says
what `found` gives for each script (`SearchIs`): from the last argument in front of
the first one that is past the position (`InFront`), which is to say that one of
its words begins behind it (`Past`). `ReachIs` does the same for `Reach`. That these
recursive functions exist is `RecursionExists` of `Iteration`: each value follows from
those of smaller numbers.

What is then proved about the search is proved by going from the scripts inside to
those around them (`FromBelow`). Three facts carry it. An argument is past a
position if its last word is (`PastByLast`), as words ascend, and so the arguments
in front are all those that are not past (`InFrontIs`). What is in a script that a
word contains is within that word's bytes (`ReachedLie`), so that every word reached
from a script is anchored in one argument of it (`Anchored`). And the only plain word
of an argument is the last one the recursion comes to (`LastInIs`).
`WordsAreUnderCursor` (`UnderIsFound`): behind the argument with the position all
are past, its last word is the one asked about or a script around it.
`CursorsAreNearest` (`NearestIsFound`): what has begun is anchored in an argument in
front (`BegunAnchored`), and of these only the last one counts.

`AskedAreIndexed` does not need positions. A cursor has the call of some script that
is reached (`FoundIsCalled`). The scripts that both walks reach, with those in the
words in front of bodies (`HeadsFrom`), are closed under going into scripts, hence
contain all that is reached (`ReachedAreWalked`, from `ReachLeast`): `proc` and
`namespace eval` have four words, so a word of theirs that is no body is in front
of it (`PlaceBound`).

`ScriptIndexProofs` proves, for scripts of any length in any vocabularies:

| Theorem | Property |
|---|---|
| `IndexTypes` | `TypeOK` |
| `NamespacesAreATree` | `NamespaceTree` |

The invariant is `IndexInv`. That the stack of the walks is never popped empty, and
is down to the global namespace again at the end of a walk, depends on the script,
which the parser wrote with a stack of its own (`curNs`). `NestingInv` says that
there is a list of what the parser's stack was behind every command (`Levels`, each
by the command that made it, `Behind`), that the parser is at the end of it, and that
the walk's stack is as deep as the parser's was at the same command. The tables are
members of `Trees`, sequences of rows that satisfy `Tree`; each step of
`ResolveNamespace` and `FindProc` leaves a tree that has `Grown` from the one before
(`DescendLeads`, `FindInLeads`), and `Iteration` carries this over all of their
steps: the rounds of a loop that have a property are a set, and a set of numbers that
contains 0 and with every number the next contains all (`Stepwise`). `FindIn` ends
because parents have smaller ids.

`LexicalProofs` proves, for scripts of any length whose names are regular or, the
last three, plain:

| Theorem | Property | Of scripts that are |
|---|---|---|
| `CallsKnowTheirNamespace` | `LexicalAgreement` | regular |
| `IndexedCallsAreRead` | `IndexedCallsOnlyRead` | regular |
| `AnswersInclude` | `AnswersIncludeTheCall` | regular |
| `ProcsAreNamed` | `PrintedNames` | plain |
| `CallsAreResolved` | `CallsResolve` | plain, those of calls too |
| `CallsAreFitted` | `FittingDefinition` | plain, those of calls and parameters too, and keep the namespace of bodies |

The hypothesis `RegularScript` says of every command that it is none of those for
which parser and index build different names: an absolute text behind
`namespace eval` (`index.cpp:380`), a qualified relative name of a namespace or proc
outside the global namespace, which the parser glues (`script.cpp:57-61`), and an
empty identifier before the last `::` of a name. Without it the properties are false:
`lexical_relative` is a counterexample, and section 5 lists the cause. All scripts in
the vocabularies of `index` are regular. `CallsKnowTheirNamespace` and `AnswersInclude` require
it of the script at hand, `IndexedCallsAreRead` of the script at all times.

The invariant of the first three is `LexicalInv` together with `IndexInv`.

1. `LevelsInv`: at every level of the second walk, the text the parser had for that
   level (`Levels` again) is a proper absolute name, and `FindNamespace` finds the
   walk's namespace under it. When a level is opened this needs that the parts of the
   parser's new text are those of the old one followed by those of the name
   (`EvalFollows`, `ProcFollows`), that looking these parts up below a namespace
   finds what `ResolveNamespace` made of them (`FindsResolved`), and that what is
   found in a table stays found when the table grows (`FindNamespaceStays`).
2. `CallsInv`: for every call behind the walk, looking it up again, from the
   namespace its text names, inserts nothing (`Settled`). `FindProcAgain` says that
   a lookup in a table that has grown from the one an equal lookup left finds the
   same procs and changes nothing.
3. `UsagesInv`: every reference of a call is to the proc that such a lookup would
   give now.
4. `DefinitionsInv`: every proc has exactly one definition among the references.
5. `AnsweredInv`: the answer to the last request is of this index.

`IndexedCallsAreRead` and `AnswersInclude` are consequences of 2 and 3: a request about
an indexed call sees what the second walk saw. Requests about other texts may have
inserted namespaces before (`AskGrows`), which no lookup of an indexed call notices
(`SettledCalls`).

`ProcsAreNamed` compares the index with Tcl. Its hypothesis `PlainNames` excludes two
names the walks do not take for what Tcl does: an absolute text behind
`namespace eval` (`index.cpp:380`) and the empty name of a proc, which is split as an
absolute one (`script.cpp:137-143`). Qualified names of procs and relative ones with
several parts are plain, regular or not. All scripts in the vocabularies of `index`
are plain. The path of a namespace (`PathsOf`) is the sequence of the identifiers from the
global one down to it, which `ResolveNamespace` extends by the parts of the name
(`PathResolved`), which does not change when the table grows (`PathsStay`), and which
`Ancestry` goes back (`AncestryNames`). The invariant is `NameInv`:

1. `RootInv`: the global namespace is the one with the empty name.
2. `FollowedInv`: on its stack a walk has the namespaces whose paths are those of the
   open levels in Tcl (`TclNesting`, of which `TclLevels` is a part:
   `TclLevelsAre`), except from where the first walk entered the body of a proc with
   a qualified name, which it scans in the namespace around it (`Misled`, `Trusted`).
3. `PlacesInv`: for every definition in `references`, the proc has the last identifier of the
   name at its location, and the path of its parent is the rest of Tcl's path for it. When
   a proc is added this needs that the walk is not misled there, which is what
   `BodiesKeepNamespace` says of the script (`DefinitionTrusted`).

That every proc has one definition is `DefinitionsInv` above.

`CallsAreResolved` compares the references of calls with Tcl, which looks a command up in
the current namespace and then in the global one (`TclDefinitions`). A call that Tcl
resolves has exactly one reference. That it is to a definition Tcl would find
requires `NoneBetween`: unless the namespace of the call has one itself, the namespaces
between it and the global one have none, in which `FindProc` looks too.
`PlainCalls` excludes the empty name of a call,
which is split as an absolute one, as that of a proc is. The invariant is `CallInv`:

1. `DefinedInv`: every proc behind the first walk has a definition in `references`.
2. `CountedInv`: the counts of a proc are those of the parameters of its definition
   (`Counted`).
3. `ReferredInv`: for every call behind the second walk there is a set of procs whose
   definitions are the `SearchedDefinitions` of the call, those in the innermost of
   all the namespaces around it that has any; and the call has one usage, of the best
   fit among them, or none if the set is empty.

When a call is indexed, `HereFollowed` says that the walk is in the namespace Tcl would
be in, `FindProcMatches` that `FindProc` goes up the scopes from there to the innermost
in which the name leads to a proc, although it inserts namespaces on its way
(`MatchesStay`), and `SearchedAre` that the definitions of what it finds are the
`SearchedDefinitions`. `TclSearchesLess` leads from these to Tcl's rule: if Tcl finds
a definition the code finds one, and under `NoneBetween` they find the same.
`FindProcMatches` and `SearchedAre` count on different namespaces having different paths
(`PathIsUnique`), which is what `Tree` is needed for.

`CallsAreFitted` adds that a call refers to a definition that can take its arguments,
if Tcl finds such a one for it, again under `NoneBetween`.
`PlainParams` excludes the parameter lists the code counts
otherwise than Tcl: those of one element and those with `args`, which counts as a
required one (`index.cpp:304-342`). Of others the counts say what Tcl accepts
(`CountsAccept`), and the best fit fits if any does (`BestFits`). The run checks
`FittingDefinition` on lists with neither. All scripts in the vocabularies of `index`
satisfy these hypotheses except `BodiesKeepNamespace`, which is part of the other two
properties; where it fails there, no proc has a parameter.

Every invariant and every action property of the runs that pass is proved. Only
model-checked are the properties that say something happens in the end, as liveness
under fairness is out of the prover's reach: `TextsGetParsed`, `RequestsAnswered`,
`ExitStops`, `ParseIsTheClients`, `CloseTakesEffect`, `RecoversAtNewline`,
`EndsWithInput`, and the fairness part of the refinements `SyncSpec`, `DeliversAll` and
`AnswersArrive`. `ParseReplacedUnderLock` is proved (`ParsesReplacedUnderLock`) but not
among the properties of a run.

## 5. Where the code differs, beyond the runs

These the modules contain as the code has them; no run is given to them, because
no text of the repository says otherwise or because another run shows the same
cause.

- `FindProc` looks for a command in all the namespaces around a call, one after the
  other (`index.cpp:565-572`); Tcl looks in the current one and in the global one
  only. In `namespace eval A {proc p {} {}; namespace eval B {p}}` the call refers to
  `::A::p`, also where a `::p` is there, which Tcl would call; `test/simple.tcl:23-35`
  has such calls, without a `::Race`. `NoneBetween` leaves them out of `CallsResolve` and `FittingDefinition`.
- `namespace eval ::A` is indexed as a child `A` of a nameless child of the
  current namespace, since both walks build its `QualifiedName` by hand with
  `absolute` false (`index.cpp:380`, `EvalName`); the parser notes `::A`.
- A list of one element stays a word (`script.cpp:410`), so a proc with one
  parameter has none (`Counted`).
- `AddProcToIndex` adds the id of the proc to its scope before the proc has one
  (`index.cpp:347`, `ScanProc`): `scope.procs` holds zeros, which nothing reads.
- A proc defined in the body of a proc with a qualified name is scanned in the
  namespace around both, but indexed, and noted by the parser, in the namespace
  of the outer name. `CallsResolve` leaves such scripts out
  (`BodiesKeepNamespace`).
- A didChange with several events is dropped (`handlers.cpp:118`).
- `server.index` is that of the document parsed last: requests about another
  document are looked up in it, and `MoveIndex` says so.
- A request can insert namespaces under the shared lock (`index.cpp:537`). For
  the name of an indexed call of the indexed script it does not
  (`IndexedCallsOnlyRead`); it can for the text behind the script in
  `puts "[foo]A::b"`, for the name of a call in the words before a body, and
  for a call of another document. `Ask` does the first two. What another
  reader sees while the table changes is not modelled.
- A cursor can dangle when a Reparse runs between the two locks of a request
  (`handlers.cpp:177-191`): `CursorHit`, `MoveScript`, `LookupCrash`.
- In a word of several parts `FindPositionInWord` gives up the whole word when a
  later part begins behind the position: in `"[foo] bar"` the cursor on `foo`, and
  in `a$b` the cursor on `a`, is the word before. A position exactly on the `[`
  of a nested script is before its first word, and is rejected.
- Text behind a nested script in the same word keeps the nested call, and if that
  has no arguments the handler looks the text up as its name. `WordUnderCursor`
  leaves out such words, which are not `plain`; their lookup is an `Ask` of `ScriptIndex`
  about a text that is not that of an indexed call.
- A position behind the last word, also lines later, gives that word
  (`NearestWord`); one outside the text is not an error.
- A script in the index of an array is indexed but not scanned, and the cursor
  does not go into it. Calls in the words before the body of a proc or a
  `namespace eval` are looked for by none of the walks (`HeadsOf`).
- `proc f {a {}} {}` reads element 0 of an empty vector (`index.cpp:328`).
- `namespace eval $x` puts the text of the variable on the stack of the index; the
  parser looks at the type of the word and does not (`index.cpp:372`).
- An argument list put together from a bare word with a command in it becomes a
  list of the pieces at its blanks (`script.cpp:367`).
- The words of a parse are views into the contents of its context. Moving a
  `std::string` that is short enough to be stored in place moves its bytes, so
  after `MoveContext` the words of a very short text dangle.
- didClose of an unknown document ends the dispatch loop by an exception
  (`FinishClose`); a request about one is never answered (`CursorUnknown`).

Undefined behaviour is a choice over outcomes. The race on `item.text` gives the
old text, the new one, an arbitrary value (`Torn`), or a crash. A read through a
dangling cursor or a freed `SourceFile` gives an answer or a crash.

## 6. What is not modelled

- `Tcl_ParseCommand` and `Tcl_ParseExpr`: cutting a text into tokens is Tcl's. The
  tokens of scripts that Tcl rejects (words of type ERROR) are left out.
- The table of variables: they are inserted, but no request reads them, so that no
  property could depend on them.
- The conversion of protocol types from and to JSON: field by field, no state. In
  `Framing` a text is accepted if it is that of one message.
- `auto_path`, `rootUri`, `next_id`, client capabilities: stored, never read.
- The rest of `analyzer.cpp`: reading its arguments and a file, and the layout of
  what it prints.
- The addresses of texts: what dangles is represented only for cursors and for the
  locations of the index.
- The vendored libraries, of which the modules take what they use.

## 7. Plan

Done: `LanguageServer` with `DocumentSync` and `ClientSession`, `Framing` and
`Output` with `MessageChannel`, `Names`, `ScriptIndex`, `SourceLocation`, `Words`
and `Cursor`, and the proofs of section 4. What could be added:

1. `Answering`: the requests of `LanguageServer` with the lookups of
   `ScriptIndex`, to relate what is answered to the text that was indexed, with
   two documents and one index.
2. Proofs about `Answering` from those of its parts.
